---------------------------- MODULE ProjectProofs ----------------------------
(* Proofs about the predecessors of the activities of a project and about the *)
(* life of a project, for any activities, budgets and requests and for any    *)
(* bounds.                                                                    *)
EXTENDS ProjectPlan, ProjectClosing, WellFoundedInduction, TLAPS

-----------------------------------------------------------------------------
\* A set of numbers has a smallest one, and one below a bound a greatest one.
LEMMA SmallestNumber ==
    ASSUME NEW S, S \subseteq Nat, S # {}
    PROVE  \E x \in S : \A y \in S : x <= y
<1>1. PICK R : R = {ss \in Nat \X Nat : ss[1] < ss[2]}
  OBVIOUS
<1>2. IsWellFoundedOn(R, Nat)
  BY <1>1, NatLessThanWellFounded DEF OpToRel
<1>3. PICK x \in S : \A y \in S : ~(<<y, x>> \in R)
  BY <1>2, WFMin
<1>4. ASSUME NEW y \in S PROVE x <= y
  <2>1. ~(y < x)
    BY <1>1, <1>3
  <2> QED
    BY <2>1
<1> QED
  BY <1>4

LEMMA GreatestNumber ==
    ASSUME NEW n \in Nat, NEW S, S \subseteq 0..n, S # {}
    PROVE  \E x \in S : \A y \in S : x >= y
<1>1. PICK T : T = {n - x : x \in S}
  OBVIOUS
<1>2. \A x \in S : x \in 0..n
  OBVIOUS
<1>3. T \subseteq Nat
  BY <1>1, <1>2
<1>4. T # {}
  BY <1>1
<1>5. PICK z \in T : \A y \in T : z <= y
  BY <1>3, <1>4, SmallestNumber
<1>6. PICK x \in S : z = n - x
  BY <1>1, <1>5
<1>7. ASSUME NEW y \in S PROVE x >= y
  <2>1. z <= n - y
    BY <1>1, <1>5
  <2> QED
    BY <1>2, <1>6, <2>1
<1> QED
  BY <1>7

-----------------------------------------------------------------------------
\* The edges E among the activities L have no circle.
NoCircle(L, E) == \A S \in SUBSET L : S # {} => \E n \in S : \A m \in S : <<n, m>> \notin E

\* A request that has not inserted its activity yet.
Creating(r) == r.creates /\ r.pc \in {"live", "code", "insert"}

\* The plan a request validated, with its own predecessors in place of those there were.
Intended(r) == {f \in r.plan : f[1] # r.of} \cup ({r.of} \X r.wanted)

\* What a request has made sure of: the predecessors it wants are rows, and with them
\* the plan it read has no circle through its activity; the code it computed is above
\* those it read.
PlannerOK(rows, r) ==
    /\ r.pc # "idle" => r.of \in Tasks
    /\ r.pc \in {"walk", "clear"} => ~r.creates
    /\ r.pc \in {"code", "insert"} => r.creates
    /\ Creating(r) => ~rows[r.of].there
    /\ r.pc # "idle" /\ ~Creating(r) => rows[r.of].there
    /\ r.pc \notin {"idle", "live"} => \A p \in r.wanted : rows[p].there
    /\ r.creates /\ r.pc \in {"code", "insert", "edges"}
          => r.of \notin r.wanted /\ \A f \in r.plan : f[2] # r.of
    /\ ~r.creates /\ r.pc \in {"clear", "edges"} => ~Loops(r.of, Intended(r))
    /\ r.pc = "insert" => \A t \in r.known : rows[t].there /\ rows[t].code < r.code

\* Nobody else works on an activity that is being created.
CreationsAreAlone(requests) ==
    \A c \in Planners : Creating(requests[c]) =>
        \A d \in Planners \ {c} : requests[d].of # requests[c].of

EdgesJoinRows == \A e \in edges : task[e[1]].there /\ task[e[2]].there

PlanIInv ==
    /\ PlanTypeOK
    /\ EdgesJoinRows
    /\ \A c \in Planners : PlannerOK(task, planning[c])
    /\ CreationsAreAlone(planning)
    /\ PlanIsAcyclic
    /\ CodesAreFresh

-----------------------------------------------------------------------------
\* A new activity has no predecessors yet, and less of a plan has no circle either.
LEMMA SmallerPlan ==
    ASSUME NEW L, NEW E, NoCircle(L, E), NEW K, NEW F, NEW N,
           K \subseteq L \cup N, F \subseteq E, \A n \in N, m \in K : <<n, m>> \notin F
    PROVE  NoCircle(K, F)
<1> SUFFICES ASSUME NEW S \in SUBSET K, S # {} PROVE \E n \in S : \A m \in S : <<n, m>> \notin F
  BY DEF NoCircle
<1>1. CASE S \cap N # {}
  BY <1>1
<1>2. CASE S \cap N = {}
  <2>1. S \in SUBSET L
    BY <1>2
  <2>2. PICK n \in S : \A m \in S : <<n, m>> \notin E
    BY <2>1 DEF NoCircle
  <2> QED
    BY <2>2
<1> QED
  BY <1>1, <1>2

\* An edge of an activity that was searched, in a plan that has at most what was
\* searched, makes no circle: a circle would be one of the plan or pass by the activity.
LEMMA SearchedEdge ==
    ASSUME NEW L \in SUBSET Tasks, NEW E, NoCircle(L, E), NEW r \in Planning, r.of \in Tasks,
           ~Loops(r.of, Intended(r)), NEW p \in r.wanted,
           \A n \in L, m \in L : <<n, m>> \in E /\ n # r.of => <<n, m>> \in r.plan
    PROVE  NoCircle(L, E \cup {<<r.of, p>>})
<1> SUFFICES ASSUME NEW S \in SUBSET L, S # {},
                    \A n \in S : \E m \in S : <<n, m>> \in E \cup {<<r.of, p>>}
             PROVE  FALSE
  BY DEF NoCircle
<1>1. PICK n \in S : \A m \in S : <<n, m>> \notin E
  BY DEF NoCircle
<1>2. n = r.of /\ p \in S
  BY <1>1
<1>3. S \in SUBSET Tasks
  OBVIOUS
<1>4. ASSUME NEW k \in S PROVE \E m \in S : <<k, m>> \in Intended(r)
  <2>1. CASE k = r.of
    <3>1. <<r.of, p>> \in Intended(r)
      BY DEF Intended
    <3> QED
      BY <1>2, <2>1, <3>1
  <2>2. CASE k # r.of
    <3>1. PICK m \in S : <<k, m>> \in E
      BY <2>2
    <3>2. <<k, m>> \in r.plan
      BY <2>2, <3>1
    <3>3. <<k, m>> \in Intended(r)
      BY <2>2, <3>2 DEF Intended
    <3> QED
      BY <3>3
  <2> QED
    BY <2>1, <2>2
<1>5. Loops(r.of, Intended(r))
  BY <1>2, <1>3, <1>4 DEF Loops
<1> QED
  BY <1>5

\* An edge of a new activity makes no circle as long as nothing leads to it.
LEMMA CreatedEdge ==
    ASSUME NEW L \in SUBSET Tasks, NEW E, NoCircle(L, E), NEW r \in Planning,
           \A f \in r.plan : f[2] # r.of, NEW p \in r.wanted, p # r.of,
           \A n \in L, m \in L : <<n, m>> \in E /\ n # r.of => <<n, m>> \in r.plan
    PROVE  NoCircle(L, E \cup {<<r.of, p>>})
<1> SUFFICES ASSUME NEW S \in SUBSET L, S # {},
                    \A n \in S : \E m \in S : <<n, m>> \in E \cup {<<r.of, p>>}
             PROVE  FALSE
  BY DEF NoCircle
<1>1. PICK n \in S : \A m \in S : <<n, m>> \notin E
  BY DEF NoCircle
<1>2. n = r.of /\ p \in S
  BY <1>1
<1>3. S \ {r.of} \in SUBSET L /\ S \ {r.of} # {}
  BY <1>2
<1>4. PICK k \in S \ {r.of} : \A m \in S \ {r.of} : <<k, m>> \notin E
  BY <1>3 DEF NoCircle
<1>5. PICK m \in S : <<k, m>> \in E
  BY <1>4
<1>6. <<k, m>> \in r.plan
  BY <1>4, <1>5
<1>7. m # r.of
  <2>1. <<k, m>>[2] # r.of
    BY <1>6
  <2> QED
    BY <2>1
<1> QED
  BY <1>4, <1>5, <1>7

\* A row that is there stays, with its code, so what a request made sure of stays so.
LEMMA PlannerStays ==
    ASSUME NEW rows \in [Tasks -> Task], NEW later \in [Tasks -> Task],
           \A t \in Tasks : rows[t].there => later[t].there /\ later[t].code = rows[t].code,
           NEW r \in Planning, PlannerOK(rows, r), Creating(r) => ~later[r.of].there
    PROVE  PlannerOK(later, r)
<1>1. r.wanted \subseteq Tasks /\ r.known \subseteq Tasks
  BY DEF Planning
<1> QED
  BY <1>1 DEF PlannerOK

\* An empty slot has made sure of nothing.
LEMMA NotPlanningType ==
    /\ NotPlanning \in Planning /\ NotPlanning.of = NoTask /\ ~Creating(NotPlanning)
    /\ \A rows : PlannerOK(rows, NotPlanning)
<1>1. NotPlanning \in Planning
  BY PlanAssumption DEF NotPlanning, Planning
<1>2. NotPlanning.of = NoTask /\ NotPlanning.pc = "idle"
  BY DEF NotPlanning
<1> QED
  BY <1>1, <1>2 DEF Creating, PlannerOK

\* One request changes.
LEMMA OnePlannerChanges ==
    ASSUME PlanTypeOK, NEW rows, NEW c \in Planners, NEW r \in Planning, PlannerOK(rows, r),
           \A d \in Planners \ {c} : PlannerOK(rows, planning[d]),
           CreationsAreAlone(planning), planning' = [planning EXCEPT ![c] = r],
           Creating(r) => \A d \in Planners \ {c} : planning[d].of # r.of,
           \A d \in Planners \ {c} : Creating(planning[d]) => planning[d].of # r.of
    PROVE  /\ planning' \in [Planners -> Planning]
           /\ \A d \in Planners : PlannerOK(rows, planning'[d])
           /\ CreationsAreAlone(planning')
<1>1. /\ planning' \in [Planners -> Planning] /\ planning'[c] = r
      /\ \A d \in Planners \ {c} : planning'[d] = planning[d]
  BY DEF PlanTypeOK
<1>2. \A d \in Planners : PlannerOK(rows, planning'[d])
  BY <1>1
<1>3. CreationsAreAlone(planning')
  BY <1>1 DEF CreationsAreAlone
<1> QED
  BY <1>1, <1>2, <1>3

-----------------------------------------------------------------------------
\* A step that changes one request only.
LEMMA PlannerStep ==
    ASSUME PlanIInv, NEW c \in Planners, NEW r \in Planning, PlannerOK(task, r),
           planning' = [planning EXCEPT ![c] = r], UNCHANGED <<task, edges, excused, refusal>>,
           planned' \in 0..MaxPlanned,
           Creating(r) => \A d \in Planners \ {c} : planning[d].of # r.of,
           \A d \in Planners \ {c} : Creating(planning[d]) => planning[d].of # r.of
    PROVE  PlanIInv'
<1>1. /\ planning' \in [Planners -> Planning]
      /\ \A d \in Planners : PlannerOK(task, planning'[d])
      /\ CreationsAreAlone(planning')
  BY OnePlannerChanges DEF PlanIInv
<1>2. PlanTypeOK'
  BY <1>1 DEF PlanIInv, PlanTypeOK
<1>3. EdgesJoinRows' /\ CodesAreFresh'
  BY DEF PlanIInv, EdgesJoinRows, CodesAreFresh
<1>4. PlanIsAcyclic'
  BY DEF PlanIInv, PlanIsAcyclic, LiveTasks, Live
<1> QED
  BY <1>1, <1>2, <1>3, <1>4 DEF PlanIInv

\* The facts of the types, one by one.
LEMMA PlanSplit ==
    ASSUME PlanIInv
    PROVE  /\ task \in [Tasks -> Task] /\ edges \subseteq Tasks \X Tasks /\ excused \subseteq edges
           /\ planning \in [Planners -> Planning] /\ refusal = FALSE /\ planned \in 0..MaxPlanned
           /\ LiveTasks \in SUBSET Tasks /\ \A t \in LiveTasks : task[t].there
           /\ MaxCode \in Nat /\ MaxPlanned \in Nat
           /\ NoCircle(LiveTasks, edges \ excused)
           /\ \A c \in Planners : PlannerOK(task, planning[c]) /\ planning[c] \in Planning
           /\ CreationsAreAlone(planning)
  BY PlanAssumption
  DEF PlanIInv, PlanTypeOK, PlanIsAcyclic, NoCircle, CodesAreFresh, LiveTasks, Live

\* A request begins.
LEMMA CreateTaskStep ==
    ASSUME PlanIInv, NEW c \in Planners, NEW t \in Tasks, NEW wanted \in SUBSET Tasks,
           CreateTask(c, t, wanted)
    PROVE  PlanIInv'
<1>1. PICK r : r = [NotPlanning EXCEPT !.pc = "live", !.of = t, !.creates = TRUE, !.wanted = wanted]
  OBVIOUS
<1>2. /\ r.pc = "live" /\ r.of = t /\ r.creates = TRUE /\ r.wanted = wanted
      /\ r \in Planning
  <2>1. r = [pc |-> "live", of |-> t, creates |-> TRUE, wanted |-> wanted, code |-> 0,
             known |-> {}, plan |-> {}]
    BY <1>1 DEF NotPlanning
  <2>2. 0 \in 0..MaxCode
    BY PlanAssumption
  <2> QED
    BY <2>1, <2>2 DEF Planning
<1>3. /\ ~task[t].there /\ \A d \in Planners : planning[d].of # t
      /\ planning' = [planning EXCEPT ![c] = r] /\ UNCHANGED <<task, edges, excused, refusal>>
      /\ planned' \in 0..MaxPlanned
  BY <1>1, PlanSplit DEF CreateTask, Unused, Plan
<1>4. PlannerOK(task, r)
  BY <1>2, <1>3 DEF PlannerOK, Creating
<1> QED
  BY <1>2, <1>3, <1>4, PlannerStep

LEMMA ReplacePredecessorsStep ==
    ASSUME PlanIInv, NEW c \in Planners, NEW t \in Tasks, NEW wanted \in SUBSET Tasks,
           ReplacePredecessors(c, t, wanted)
    PROVE  PlanIInv'
<1>1. PICK pc \in {"clear", "live"} : pc = IF wanted = {} THEN "clear" ELSE "live"
  OBVIOUS
<1>2. PICK r : r = [NotPlanning EXCEPT !.pc = pc, !.of = t, !.wanted = wanted]
  OBVIOUS
<1>3. /\ r.pc = pc /\ r.of = t /\ r.creates = FALSE /\ r.wanted = wanted /\ r.plan = {}
      /\ r \in Planning
  <2>1. r = [pc |-> pc, of |-> t, creates |-> FALSE, wanted |-> wanted, code |-> 0,
             known |-> {}, plan |-> {}]
    BY <1>2 DEF NotPlanning
  <2>2. 0 \in 0..MaxCode
    BY PlanAssumption
  <2> QED
    BY <2>1, <2>2 DEF Planning
<1>4. /\ task[t].there
      /\ planning' = [planning EXCEPT ![c] = r] /\ UNCHANGED <<task, edges, excused, refusal>>
      /\ planned' \in 0..MaxPlanned
  BY <1>1, <1>2, PlanSplit DEF ReplacePredecessors, Live, Plan
<1>5. wanted = {} => ~Loops(r.of, Intended(r))
  <2>1. wanted = {} => Intended(r) = {}
    BY <1>3 DEF Intended
  <2> QED
    BY <2>1 DEF Loops
<1>6. PlannerOK(task, r)
  BY <1>1, <1>3, <1>4, <1>5 DEF PlannerOK, Creating
<1>7. ~Creating(r) /\ \A d \in Planners : Creating(planning[d]) => planning[d].of # t
  BY <1>3, <1>4, PlanSplit DEF PlannerOK, Creating
<1> QED
  BY <1>3, <1>4, <1>6, <1>7, PlannerStep

-----------------------------------------------------------------------------
\* A request that goes on, or ends, works on its own activity or on none.
LEMMA PlannerGoesOn ==
    ASSUME PlanIInv, NEW c \in Planners, NEW r \in Planning, PlannerOK(task, r),
           planning' = [planning EXCEPT ![c] = r], UNCHANGED <<task, edges, excused, refusal>>,
           planned' = planned, r.of = planning[c].of, Creating(r) => Creating(planning[c]),
           planning[c].pc # "idle"
    PROVE  PlanIInv'
<1>1. \A d \in Planners \ {c} : Creating(planning[d]) => planning[d].of # r.of
  BY PlanSplit DEF CreationsAreAlone
<1>2. Creating(r) => \A d \in Planners \ {c} : planning[d].of # r.of
  BY PlanSplit DEF CreationsAreAlone
<1> QED
  BY <1>1, <1>2, PlannerStep, PlanSplit

LEMMA PlannerLeaves ==
    ASSUME PlanIInv, NEW c \in Planners, Leave(c),
           UNCHANGED <<task, edges, excused, refusal, planned>>
    PROVE  PlanIInv'
<1>1. \A d \in Planners : Creating(planning[d]) => planning[d].of # NoTask
  <2> SUFFICES ASSUME NEW d \in Planners, Creating(planning[d]) PROVE planning[d].of # NoTask
    OBVIOUS
  <2>1. planning[d].of \in Tasks
    BY PlanSplit DEF PlannerOK, Creating
  <2> QED
    BY <2>1, PlanAssumption
<1> QED
  BY <1>1, NotPlanningType, PlannerStep, PlanSplit DEF Leave

\* The predecessors are live: what is live is a row.
LEMMA CheckLiveStep ==
    ASSUME PlanIInv, NEW c \in Planners, CheckLive(c)
    PROVE  PlanIInv'
<1>1. CASE Leave(c)
  BY <1>1, PlannerLeaves DEF CheckLive
<1>2. CASE ~Leave(c)
  <2>1. PICK old \in Planning : old = planning[c] /\ PlannerOK(task, old) /\ old.pc = "live"
    BY PlanSplit DEF CheckLive, InState
  <2>2. PICK pc \in {"code", "walk"} : pc = IF old.creates THEN "code" ELSE "walk"
    OBVIOUS
  <2>3. PICK plan : plan = IF old.creates THEN PlanAsRead ELSE {}
    OBVIOUS
  <2>4. PICK r : r = [old EXCEPT !.pc = pc, !.plan = plan]
    OBVIOUS
  <2>5. plan \subseteq edges /\ plan \in SUBSET (Tasks \X Tasks)
    BY <2>3, PlanSplit DEF PlanAsRead
  <2>6. /\ r \in Planning /\ r.pc = pc /\ r.of = old.of /\ r.creates = old.creates
        /\ r.wanted = old.wanted /\ r.plan = plan
    BY <2>1, <2>4, <2>5 DEF Planning
  <2>7. /\ planning' = [planning EXCEPT ![c] = r] /\ old.wanted \subseteq LiveTasks
        /\ UNCHANGED <<task, edges, excused, refusal, planned>>
    BY <1>2, <2>1, <2>2, <2>3, <2>4, PlanSplit DEF CheckLive
  <2>8. PlannerOK(task, r)
    <3>1. old.of \in Tasks /\ task[old.of].there = ~old.creates
      BY <2>1, PlanSplit DEF PlannerOK, Creating, Planning, Task
    <3>2. \A p \in r.wanted : task[p].there
      BY <2>6, <2>7, PlanSplit
    <3>3. old.creates => r.of \notin r.wanted /\ \A f \in r.plan : f[2] # r.of
      BY <2>5, <2>6, <3>1, <3>2 DEF PlanIInv, EdgesJoinRows
    <3> QED
      BY <2>2, <2>6, <3>1, <3>2, <3>3 DEF PlannerOK, Creating
  <2> QED
    BY <2>1, <2>2, <2>6, <2>7, <2>8, PlannerGoesOn DEF Creating
<1> QED
  BY <1>1, <1>2

\* The search: the plan it reads is the one it keeps.
LEMMA SearchCircleStep ==
    ASSUME PlanIInv, NEW c \in Planners, SearchCircle(c)
    PROVE  PlanIInv'
<1>1. CASE Leave(c)
  BY <1>1, PlannerLeaves DEF SearchCircle
<1>2. CASE ~Leave(c)
  <2>1. PICK old \in Planning : old = planning[c] /\ PlannerOK(task, old) /\ old.pc = "walk"
    BY PlanSplit DEF SearchCircle, InState
  <2>2. PICK plan : plan = PlanAsRead
    OBVIOUS
  <2>3. PICK r : r = [old EXCEPT !.pc = "clear", !.plan = plan]
    OBVIOUS
  <2>4. plan \in SUBSET (Tasks \X Tasks)
    BY <2>2, PlanSplit DEF PlanAsRead
  <2>5. /\ r \in Planning /\ r.pc = "clear" /\ r.of = old.of /\ r.creates = old.creates
        /\ r.wanted = old.wanted /\ r.plan = plan
    BY <2>1, <2>3, <2>4 DEF Planning
  <2>6. /\ planning' = [planning EXCEPT ![c] = r]
        /\ ~Loops(old.of, {e \in plan : e[1] # old.of} \cup ({old.of} \X old.wanted))
        /\ UNCHANGED <<task, edges, excused, refusal, planned>>
    BY <1>2, <2>1, <2>2, <2>3, PlanSplit DEF SearchCircle
  <2>7. ~Loops(r.of, Intended(r))
    BY <2>5, <2>6 DEF Intended
  <2>8. PlannerOK(task, r)
    BY <2>1, <2>5, <2>7 DEF PlannerOK, Creating
  <2> QED
    BY <2>1, <2>5, <2>6, <2>8, PlannerGoesOn DEF Creating
<1> QED
  BY <1>1, <1>2

\* The code computed is above those of all live activities.
LEMMA NextCodeIsFree ==
    ASSUME PlanIInv
    PROVE  NextCode \in Nat /\ \A t \in LiveTasks : task[t].code < NextCode
<1>1. CASE LiveTasks = {}
  BY <1>1 DEF NextCode
<1>2. CASE LiveTasks # {}
  <2>1. PICK codes : codes = {task[t].code : t \in LiveTasks}
    OBVIOUS
  <2>2. codes \subseteq 0..MaxCode /\ codes # {}
    BY <1>2, <2>1, PlanSplit DEF Task
  <2>3. \E x \in codes : \A y \in codes : x >= y
    BY <2>2, GreatestNumber, PlanSplit
  <2>4. Max(codes) \in codes /\ \A y \in codes : Max(codes) >= y
    BY <2>3 DEF Max
  <2>5. PICK highest \in 0..MaxCode : highest = Max(codes) /\ \A y \in codes : highest >= y
    BY <2>2, <2>4
  <2>6. NextCode = highest + 1
    BY <1>2, <2>1, <2>5 DEF NextCode
  <2>7. \A t \in LiveTasks : task[t].code \in codes /\ task[t].code \in 0..MaxCode
    BY <2>1, <2>2
  <2>8. \A t \in LiveTasks : task[t].code < highest + 1
    BY <2>5, <2>7, PlanSplit
  <2> QED
    BY <2>5, <2>6, <2>8, PlanSplit
<1> QED
  BY <1>1, <1>2

LEMMA ComputeCodeStep ==
    ASSUME PlanIInv, NEW c \in Planners, ComputeCode(c)
    PROVE  PlanIInv'
<1>1. PICK old \in Planning : old = planning[c] /\ PlannerOK(task, old) /\ old.pc = "code"
  BY PlanSplit DEF ComputeCode, InState
<1>2. PICK code \in 0..MaxCode : code = NextCode /\ \A t \in LiveTasks : task[t].code < code
  BY NextCodeIsFree, PlanSplit DEF ComputeCode
<1>3. PICK known \in SUBSET Tasks : known = LiveTasks
  BY PlanSplit
<1>4. PICK r : r = [old EXCEPT !.pc = "insert", !.code = code, !.known = known]
  OBVIOUS
<1>5. /\ r \in Planning /\ r.pc = "insert" /\ r.of = old.of /\ r.creates = old.creates
      /\ r.wanted = old.wanted /\ r.plan = old.plan /\ r.code = code /\ r.known = known
  BY <1>1, <1>4 DEF Planning
<1>6. /\ planning' = [planning EXCEPT ![c] = r]
      /\ UNCHANGED <<task, edges, excused, refusal, planned>>
  BY <1>1, <1>2, <1>3, <1>4, PlanSplit DEF ComputeCode
<1>7. \A t \in known : task[t].there /\ task[t].code < code
  BY <1>2, <1>3, PlanSplit
<1>8. PlannerOK(task, r)
  BY <1>1, <1>5, <1>7 DEF PlannerOK, Creating
<1> QED
  BY <1>1, <1>5, <1>6, <1>8, PlannerGoesOn DEF Creating, PlannerOK

LEMMA EndPlanningStep ==
    ASSUME PlanIInv, NEW c \in Planners, EndPlanning(c)
    PROVE  PlanIInv'
  BY PlannerLeaves DEF EndPlanning

-----------------------------------------------------------------------------
\* A step that leaves every row there is in its place leaves the requests in order.
LEMMA RowsGrow ==
    ASSUME PlanIInv, NEW later \in [Tasks -> Task],
           \A t \in Tasks : task[t].there => later[t].there /\ later[t].code = task[t].code,
           NEW c \in Planners, Creating(planning[c]) => ~later[planning[c].of].there
    PROVE  PlannerOK(later, planning[c])
<1>1. planning[c] \in Planning /\ PlannerOK(task, planning[c]) /\ task \in [Tasks -> Task]
  BY PlanSplit
<1> QED
  BY <1>1, PlannerStays

\* A deleted activity keeps its row.
LEMMA DeleteTaskStep ==
    ASSUME PlanIInv, NEW t \in Tasks, DeleteTask(t)
    PROVE  PlanIInv'
<1>1. task \in [Tasks -> Task] /\ MaxPlanned \in Nat /\ planned \in 0..MaxPlanned
  BY PlanSplit
<1>2. PICK row \in Task : row = task[t] /\ row.there
  BY <1>1 DEF DeleteTask, Live
<1>3. PICK x : x = [row EXCEPT !.deleted = TRUE]
  OBVIOUS
<1>4. x \in Task /\ x.there = row.there /\ x.code = row.code /\ x.deleted = TRUE
  BY <1>2, <1>3 DEF Task
<1>5. task' = [task EXCEPT ![t] = x] /\ UNCHANGED <<edges, planning, excused, refusal>>
  BY <1>1, <1>2, <1>3 DEF DeleteTask
<1>6. /\ task' \in [Tasks -> Task] /\ planned' \in 0..MaxPlanned
      /\ \A u \in Tasks : task'[u].there = task[u].there /\ task'[u].code = task[u].code
      /\ \A u \in Tasks : ~task'[u].deleted => ~task[u].deleted
  <2>1. task'[t] = x /\ \A u \in Tasks \ {t} : task'[u] = task[u]
    BY <1>1, <1>5
  <2>2. task' \in [Tasks -> Task]
    BY <1>1, <1>4, <1>5
  <2>3. planned' \in 0..MaxPlanned
    BY <1>1 DEF DeleteTask
  <2>4. ASSUME NEW u \in Tasks
        PROVE  /\ task'[u].there = task[u].there /\ task'[u].code = task[u].code
               /\ ~task'[u].deleted => ~task[u].deleted
    BY <1>2, <1>4, <2>1
  <2> QED
    BY <2>2, <2>3, <2>4
<1>7. PlanTypeOK' /\ CodesAreFresh'
  BY <1>5, <1>6 DEF PlanIInv, PlanTypeOK, CodesAreFresh
<1>8. EdgesJoinRows'
  <2>1. \A e \in edges : e[1] \in Tasks /\ e[2] \in Tasks
    BY PlanSplit
  <2> QED
    BY <1>5, <1>6, <2>1 DEF PlanIInv, EdgesJoinRows
<1>9. \A c \in Planners : PlannerOK(task', planning[c])
  <2> SUFFICES ASSUME NEW c \in Planners PROVE PlannerOK(task', planning[c])
    OBVIOUS
  <2>1. Creating(planning[c]) => planning[c].of \in Tasks /\ ~task[planning[c].of].there
    BY PlanSplit DEF PlannerOK, Creating
  <2> QED
    BY <1>6, <2>1, RowsGrow
<1>10. PlanIsAcyclic'
  <2>1. LiveTasks' \subseteq LiveTasks
    BY <1>1, <1>4, <1>5, <1>6 DEF LiveTasks, Live, Task
  <2> QED
    BY <1>5, <2>1 DEF PlanIInv, PlanIsAcyclic
<1> QED
  BY <1>5, <1>7, <1>8, <1>9, <1>10 DEF PlanIInv

\* What is imported is excused, and the rest of the plan is less than it was.
LEMMA ImportStep ==
    ASSUME PlanIInv, NEW rows \in SUBSET Tasks, NEW code \in 0..MaxCode,
           NEW predecessor \in [rows -> Tasks \cup {NoTask}], Import(rows, code, predecessor)
    PROVE  PlanIInv'
<1> DEFINE created == {t \in rows : ~task[t].there}
           sheet == {<<t, predecessor[t]>> : t \in {r \in rows : predecessor[r] \notin {r, NoTask}}}
<1>1. /\ task \in [Tasks -> Task] /\ edges \subseteq Tasks \X Tasks /\ excused \subseteq edges
      /\ MaxPlanned \in Nat /\ planned \in 0..MaxPlanned /\ LiveTasks \in SUBSET Tasks
      /\ \A t \in LiveTasks : task[t].there
  BY PlanSplit
<1>2. /\ \A t \in rows : /\ Live(t) \/ Unused(t)
                         /\ predecessor[t] \in LiveTasks \cup created \cup {NoTask}
      /\ edges' = {e \in edges : e[1] \notin rows} \cup sheet
      /\ excused' = {e \in excused : e[1] \notin rows} \cup sheet
      /\ UNCHANGED <<planning, refusal>> /\ planned' \in 0..MaxPlanned
  BY <1>1 DEF Import
<1>3. PICK x : x = [there |-> TRUE, deleted |-> FALSE, code |-> code]
  OBVIOUS
<1>x. x \in Task /\ x.there
  BY <1>3 DEF Task
<1>4. task' = [t \in Tasks |-> IF t \in created THEN x ELSE task[t]] /\ x.there
  BY <1>3, <1>x DEF Import
<1>5. /\ created \subseteq Tasks
      /\ \A t \in created : ~task[t].there /\ \A d \in Planners : planning[d].of # t
  BY <1>2 DEF Live, Unused
<1>6. /\ sheet \subseteq Tasks \X Tasks
      /\ \A e \in sheet : /\ e[1] \in rows
                          /\ e[2] \in LiveTasks \cup created
  <2> SUFFICES ASSUME NEW t \in rows, predecessor[t] \notin {t, NoTask}
               PROVE  /\ <<t, predecessor[t]>> \in Tasks \X Tasks
                      /\ predecessor[t] \in LiveTasks \cup created
    OBVIOUS
  <2>1. predecessor[t] \in LiveTasks \cup created
    BY <1>2
  <2> QED
    BY <1>1, <1>5, <2>1
<1>7. \A t \in rows : t \in created \/ task[t].there
  OBVIOUS
<1> HIDE DEF created, sheet
<1>8. /\ task' \in [Tasks -> Task]
      /\ \A t \in Tasks : task[t].there => task'[t] = task[t]
      /\ \A t \in created : task'[t].there
  BY <1>1, <1>x, <1>4, <1>5
<1>9. PlanTypeOK'
  <2>1. edges' \subseteq Tasks \X Tasks
    BY <1>1, <1>2, <1>6
  <2>2. excused' \subseteq edges'
    BY <1>1, <1>2
  <2> QED
    BY <1>2, <1>8, <2>1, <2>2 DEF PlanIInv, PlanTypeOK
<1>10. EdgesJoinRows'
  <2>1. ASSUME NEW e \in edges PROVE task'[e[1]].there /\ task'[e[2]].there
    <3>1. e[1] \in Tasks /\ e[2] \in Tasks /\ task[e[1]].there /\ task[e[2]].there
      BY <1>1 DEF PlanIInv, EdgesJoinRows
    <3> QED
      BY <1>8, <3>1
  <2>2. ASSUME NEW e \in sheet PROVE task'[e[1]].there /\ task'[e[2]].there
    <3>1. e[1] \in Tasks /\ (e[1] \in created \/ task[e[1]].there)
      BY <1>6, <1>7
    <3>2. e[2] \in Tasks /\ (e[2] \in created \/ task[e[2]].there)
      BY <1>1, <1>5, <1>6
    <3> QED
      BY <1>8, <3>1, <3>2
  <2> QED
    BY <1>2, <2>1, <2>2 DEF EdgesJoinRows
<1>11. \A c \in Planners : PlannerOK(task', planning[c])
  <2> SUFFICES ASSUME NEW c \in Planners PROVE PlannerOK(task', planning[c])
    OBVIOUS
  <2>1. Creating(planning[c]) =>
            planning[c].of \in Tasks \ created /\ ~task[planning[c].of].there
    BY <1>5, PlanSplit DEF PlannerOK, Creating
  <2>2. Creating(planning[c]) => ~task'[planning[c].of].there
    BY <1>4, <2>1
  <2> QED
    BY <1>8, <2>2, RowsGrow
<1>12. PlanIsAcyclic'
  <2>1. PICK K, L, E, F, N : /\ K = LiveTasks' /\ L = LiveTasks /\ E = edges \ excused
                              /\ F = edges' \ excused' /\ N = created
    OBVIOUS
  <2>2. K \subseteq L \cup N
    BY <1>4, <2>1 DEF LiveTasks, Live
  <2>3. F \subseteq E
    BY <1>2, <2>1
  <2>4. ASSUME NEW n \in N, NEW m \in K PROVE <<n, m>> \notin F
    <3> SUFFICES ASSUME <<n, m>> \in edges PROVE FALSE
      BY <2>1, <2>3
    <3>1. task[<<n, m>>[1]].there
      BY DEF PlanIInv, EdgesJoinRows
    <3> QED
      BY <1>5, <2>1, <3>1
  <2>5. NoCircle(L, E)
    BY <2>1, PlanSplit
  <2>6. NoCircle(K, F)
    BY <2>2, <2>3, <2>4, <2>5, SmallerPlan
  <2> QED
    BY <2>1, <2>6 DEF NoCircle, PlanIsAcyclic
<1>13. CodesAreFresh' /\ CreationsAreAlone(planning)'
  BY <1>2 DEF PlanIInv, CodesAreFresh, CreationsAreAlone
<1> QED
  BY <1>2, <1>9, <1>10, <1>11, <1>12, <1>13 DEF PlanIInv

-----------------------------------------------------------------------------
\* A new row has no edges, and a code that those read did not have.
LEMMA InsertTaskStep ==
    ASSUME PlanIInv, NEW c \in Planners, InsertTask(c)
    PROVE  PlanIInv'
<1>1. PICK old \in Planning : /\ old = planning[c] /\ PlannerOK(task, old) /\ old.pc = "insert"
  BY PlanSplit DEF InsertTask, InState
<1>2. /\ old.creates /\ Creating(old) /\ old.of \in Tasks /\ ~task[old.of].there
      /\ \A p \in old.wanted : task[p].there
      /\ old.of \notin old.wanted /\ \A f \in old.plan : f[2] # old.of
      /\ \A t \in old.known : task[t].there /\ task[t].code < old.code
  BY <1>1 DEF PlannerOK, Creating
<1>3. old.code \in 0..MaxCode /\ old.wanted \subseteq Tasks /\ MaxCode \in Nat
  BY PlanSplit DEF Planning
<1>4. CASE Holders(old.code) # {}
  <2>1. Leave(c) /\ UNCHANGED <<task, edges, excused, planned>>
    BY <1>1, <1>4 DEF InsertTask
  <2>2. ~(\E t \in Holders(old.code) : t \in old.known)
    <3> SUFFICES ASSUME NEW t \in Holders(old.code), t \in old.known PROVE FALSE
      OBVIOUS
    <3>1. task[t].code = old.code /\ task[t].code < old.code
      BY <1>2 DEF Holders
    <3> QED
      BY <1>3, <3>1
  <2>3. UNCHANGED refusal
    BY <1>1, <1>4, <2>2, PlanSplit DEF InsertTask
  <2> QED
    BY <2>1, <2>3, PlannerLeaves
<1>5. CASE Holders(old.code) = {}
  <2>x. PICK x : x = [there |-> TRUE, deleted |-> FALSE, code |-> old.code]
    OBVIOUS
  <2>1. x \in Task /\ x.there
    BY <1>3, <2>x DEF Task
  <2>2. PICK r : r = [old EXCEPT !.pc = "edges"]
    OBVIOUS
  <2>3. /\ r \in Planning /\ r.pc = "edges" /\ r.of = old.of /\ r.creates = old.creates
        /\ r.wanted = old.wanted /\ r.plan = old.plan
    BY <1>1, <2>2 DEF Planning
  <2>4. /\ task' = [task EXCEPT ![old.of] = x] /\ planning' = [planning EXCEPT ![c] = r]
        /\ UNCHANGED <<edges, excused, planned, refusal>>
    BY <1>1, <1>5, <2>x, <2>2, PlanSplit DEF InsertTask
  <2>5. /\ task' \in [Tasks -> Task] /\ task'[old.of].there
        /\ \A t \in Tasks \ {old.of} : task'[t] = task[t]
        /\ \A t \in Tasks : task[t].there => task'[t].there /\ task'[t].code = task[t].code
    BY <1>2, <2>1, <2>4, PlanSplit
  <2>6. \A d \in Planners \ {c} : planning[d].of # old.of
    BY <1>1, <1>2, PlanSplit DEF CreationsAreAlone
  <2>7. \A d \in Planners \ {c} : PlannerOK(task', planning[d])
    <3> SUFFICES ASSUME NEW d \in Planners \ {c} PROVE PlannerOK(task', planning[d])
      OBVIOUS
    <3>1. Creating(planning[d]) => planning[d].of \in Tasks /\ ~task[planning[d].of].there
      BY PlanSplit DEF PlannerOK, Creating
    <3>2. Creating(planning[d]) => ~task'[planning[d].of].there
      BY <2>5, <2>6, <3>1
    <3> QED
      BY <2>5, <3>2, RowsGrow
  <2>8. ~Creating(r) /\ PlannerOK(task', r)
    <3>1. \A p \in r.wanted : task'[p].there
      BY <1>2, <1>3, <2>3, <2>5
    <3> QED
      BY <1>2, <2>3, <2>5, <3>1 DEF PlannerOK, Creating
  <2>9. /\ planning' \in [Planners -> Planning]
        /\ \A d \in Planners : PlannerOK(task', planning'[d])
        /\ CreationsAreAlone(planning')
    <3>1. PICK later : later = task'
      OBVIOUS
    <3>2. PlannerOK(later, r) /\ \A d \in Planners \ {c} : PlannerOK(later, planning[d])
      BY <2>7, <2>8, <3>1
    <3>3. PlanTypeOK /\ CreationsAreAlone(planning)
      BY DEF PlanIInv
    <3>4. \A d \in Planners \ {c} : planning[d].of # r.of
      BY <2>3, <2>6
    <3>5. /\ planning' \in [Planners -> Planning]
          /\ \A d \in Planners : PlannerOK(later, planning'[d])
          /\ CreationsAreAlone(planning')
      BY <2>3, <2>4, <2>8, <3>2, <3>3, <3>4, OnePlannerChanges
    <3> QED
      BY <3>1, <3>5
  <2>10. PlanTypeOK' /\ CodesAreFresh'
    BY <2>4, <2>5, <2>9 DEF PlanIInv, PlanTypeOK, CodesAreFresh
  <2>11. EdgesJoinRows'
    <3>1. \A e \in edges : e[1] \in Tasks /\ e[2] \in Tasks
      BY PlanSplit
    <3> QED
      BY <2>4, <2>5, <3>1 DEF PlanIInv, EdgesJoinRows
  <2>12. PlanIsAcyclic'
    <3>1. PICK K, L, E, N : K = LiveTasks' /\ L = LiveTasks /\ E = edges \ excused /\ N = {old.of}
      OBVIOUS
    <3>2. K \subseteq L \cup N
      BY <2>5, <3>1 DEF LiveTasks, Live
    <3>3. ASSUME NEW n \in N, NEW m \in K PROVE <<n, m>> \notin E
      <4> SUFFICES ASSUME <<n, m>> \in edges PROVE FALSE
        BY <3>1
      <4>1. task[<<n, m>>[1]].there
        BY DEF PlanIInv, EdgesJoinRows
      <4> QED
        BY <1>2, <3>1, <4>1
    <3>4. NoCircle(L, E)
      BY <3>1, PlanSplit
    <3>5. NoCircle(K, E)
      BY <3>2, <3>3, <3>4, SmallerPlan
    <3> QED
      BY <2>4, <3>1, <3>5 DEF NoCircle, PlanIsAcyclic
  <2> QED
    BY <2>9, <2>10, <2>11, <2>12 DEF PlanIInv
<1> QED
  BY <1>4, <1>5

\* The old predecessors go.
LEMMA ClearEdgesStep ==
    ASSUME PlanIInv, NEW c \in Planners, ClearEdges(c)
    PROVE  PlanIInv'
<1>1. PICK old \in Planning : old = planning[c] /\ PlannerOK(task, old) /\ old.pc = "clear"
  BY PlanSplit DEF ClearEdges, InState
<1>2. PICK r : r = [old EXCEPT !.pc = "edges"]
  OBVIOUS
<1>3. /\ r \in Planning /\ r.pc = "edges" /\ r.of = old.of /\ r.creates = old.creates
      /\ r.wanted = old.wanted /\ r.plan = old.plan
  BY <1>1, <1>2 DEF Planning
<1>4. /\ planning' = [planning EXCEPT ![c] = r] /\ edges' \subseteq edges
      /\ excused' = excused \cap edges' /\ UNCHANGED <<task, refusal, planned>>
  BY <1>1, <1>2, PlanSplit DEF ClearEdges
<1>5. ~Creating(r) /\ PlannerOK(task, r)
  BY <1>1, <1>3 DEF PlannerOK, Creating, Intended
<1>6. \A d \in Planners \ {c} : Creating(planning[d]) => planning[d].of # r.of
  BY <1>1, <1>3, PlanSplit DEF CreationsAreAlone
<1>7. /\ planning' \in [Planners -> Planning]
      /\ \A d \in Planners : PlannerOK(task, planning'[d])
      /\ CreationsAreAlone(planning')
  BY <1>3, <1>4, <1>5, <1>6, OnePlannerChanges DEF PlanIInv
<1>8. PlanTypeOK' /\ EdgesJoinRows' /\ CodesAreFresh'
  BY <1>4, <1>7 DEF PlanIInv, PlanTypeOK, EdgesJoinRows, CodesAreFresh
<1>9. PlanIsAcyclic'
  <2>1. edges' \ excused' \subseteq edges \ excused /\ LiveTasks' = LiveTasks
    BY <1>4 DEF LiveTasks, Live
  <2> QED
    BY <2>1 DEF PlanIInv, PlanIsAcyclic
<1> QED
  BY <1>4, <1>7, <1>8, <1>9 DEF PlanIInv

\* With fewer predecessors there are no more circles.
LEMMA FewerLoops ==
    ASSUME NEW t, NEW A, NEW B, A \subseteq B, Loops(t, A)
    PROVE  Loops(t, B)
<1>1. PICK S \in SUBSET Tasks : t \in S /\ \A n \in S : \E m \in S : <<n, m>> \in A
  BY DEF Loops
<1>2. \A n \in S : \E m \in S : <<n, m>> \in B
  BY <1>1
<1> QED
  BY <1>1, <1>2 DEF Loops

\* A predecessor is inserted in the plan that was validated, or is excused.
LEMMA InsertEdgeStep ==
    ASSUME PlanIInv, NEW c \in Planners, NEW p \in Tasks, InsertEdge(c, p)
    PROVE  PlanIInv'
<1>1. PICK old \in Planning : /\ old = planning[c] /\ PlannerOK(task, old) /\ old.pc = "edges"
                              /\ p \in old.wanted
  BY PlanSplit DEF InsertEdge, InState
<1>2. PICK e : e = <<old.of, p>>
  OBVIOUS
<1>3. CASE e \in edges
  <2>1. Leave(c) /\ UNCHANGED <<task, edges, excused, refusal, planned>>
    BY <1>1, <1>2, <1>3 DEF InsertEdge
  <2> QED
    BY <2>1, PlannerLeaves
<1>4. CASE e \notin edges
  <2>1. PICK wanted : wanted = old.wanted \ {p}
    OBVIOUS
  <2>2. PICK r : r = [old EXCEPT !.wanted = wanted]
    OBVIOUS
  <2>3. /\ r \in Planning /\ r.pc = "edges" /\ r.of = old.of /\ r.creates = old.creates
        /\ r.wanted = wanted /\ r.plan = old.plan
    BY <1>1, <2>1, <2>2 DEF Planning
  <2>4. PICK changed : changed = {f \in PlanAsRead : f[1] # old.of} \ old.plan
    OBVIOUS
  <2>5. /\ edges' = edges \cup {e}
        /\ excused' = IF changed = {} THEN excused ELSE excused \cup {e}
        /\ UNCHANGED <<task, refusal, planned>>
    BY <1>1, <1>2, <1>4, <2>4 DEF InsertEdge
  <2>6. planning' = [planning EXCEPT ![c] = r]
    BY <1>1, <1>2, <1>4, <2>1, <2>2, PlanSplit DEF InsertEdge
  <2>7. ~Creating(r) /\ PlannerOK(task, r)
    <3>1. Intended(r) \subseteq Intended(old)
      BY <2>1, <2>3 DEF Intended
    <3>2. Loops(r.of, Intended(r)) => Loops(old.of, Intended(old))
      BY <2>3, <3>1, FewerLoops
    <3> QED
      BY <1>1, <2>1, <2>3, <3>2 DEF PlannerOK, Creating
  <2>8. \A d \in Planners \ {c} : Creating(planning[d]) => planning[d].of # r.of
    BY <1>1, <2>3, PlanSplit DEF CreationsAreAlone
  <2>9. /\ planning' \in [Planners -> Planning]
        /\ \A d \in Planners : PlannerOK(task, planning'[d])
        /\ CreationsAreAlone(planning')
    BY <2>3, <2>6, <2>7, <2>8, OnePlannerChanges DEF PlanIInv
  <2>10. old.of \in Tasks /\ task[old.of].there /\ task[p].there
    BY <1>1 DEF PlannerOK, Creating
  <2>11. PlanTypeOK' /\ CodesAreFresh'
    <3>1. edges' \subseteq Tasks \X Tasks /\ excused' \subseteq edges'
      BY <1>2, <2>5, <2>10, PlanSplit
    <3> QED
      BY <2>5, <2>9, <3>1 DEF PlanIInv, PlanTypeOK, CodesAreFresh
  <2>12. EdgesJoinRows'
    BY <1>2, <2>5, <2>10 DEF PlanIInv, EdgesJoinRows
  <2>13. PlanIsAcyclic'
    <3>1. LiveTasks' = LiveTasks /\ NoCircle(LiveTasks, edges \ excused)
      BY <2>5, PlanSplit DEF LiveTasks, Live
    <3>2. NoCircle(LiveTasks, edges' \ excused')
      <4>1. CASE changed # {}
        <5>1. edges' \ excused' \subseteq edges \ excused
          BY <2>5, <4>1
        <5> QED
          BY <3>1, <5>1 DEF NoCircle
      <4>2. CASE changed = {}
        <5>1. edges' \ excused' = (edges \ excused) \cup {<<old.of, p>>}
          BY <1>2, <1>4, <2>5, <4>2, PlanSplit
        <5>2. ASSUME NEW n \in LiveTasks, NEW m \in LiveTasks,
                     <<n, m>> \in edges \ excused, n # old.of
              PROVE  <<n, m>> \in old.plan
          <6>1. <<n, m>> \in PlanAsRead
            BY <5>2 DEF PlanAsRead, LiveTasks
          <6> QED
            BY <2>4, <4>2, <5>2, <6>1
        <5>3. PICK L, E : L \in SUBSET Tasks /\ L = LiveTasks /\ E = edges \ excused
          BY PlanSplit
        <5>4. NoCircle(L, E \cup {<<old.of, p>>})
          <6>1. CASE old.creates
            <7>1. \A f \in old.plan : f[2] # old.of
              BY <1>1, <6>1 DEF PlannerOK
            <7>2. p # old.of
              BY <1>1, <6>1 DEF PlannerOK
            <7> QED
              BY <1>1, <3>1, <5>2, <5>3, <7>1, <7>2, CreatedEdge
          <6>2. CASE ~old.creates
            <7>1. ~Loops(old.of, Intended(old))
              BY <1>1, <6>2 DEF PlannerOK
            <7> QED
              BY <1>1, <2>10, <3>1, <5>2, <5>3, <7>1, SearchedEdge
          <6> QED
            BY <6>1, <6>2
        <5> QED
          BY <5>1, <5>3, <5>4
      <4> QED
        BY <4>1, <4>2
    <3> QED
      BY <3>1, <3>2 DEF NoCircle, PlanIsAcyclic
  <2> QED
    BY <2>5, <2>9, <2>11, <2>12, <2>13 DEF PlanIInv
<1> QED
  BY <1>3, <1>4

-----------------------------------------------------------------------------
\* At first each activity waits for the one before it: the first of some activities
\* waits for none of them.
LEMMA PlanBegins == PlanInit => PlanIInv
<1> SUFFICES ASSUME PlanInit PROVE PlanIInv
  OBVIOUS
<1>1. PICK order \in [Tasks -> 0..MaxCode] :
         /\ task = [t \in Tasks |-> [there |-> order[t] # 0, deleted |-> FALSE, code |-> order[t]]]
         /\ edges = {e \in Tasks \X Tasks : order[e[2]] # 0 /\ order[e[1]] = order[e[2]] + 1}
  BY DEF PlanInit
<1>2. MaxCode \in Nat /\ MaxPlanned \in Nat /\ \A t \in Tasks : order[t] \in Nat
  BY PlanAssumption
<1>3. /\ task \in [Tasks -> Task]
      /\ \A t \in Tasks : task[t].there = (order[t] # 0)
  BY <1>1 DEF Task
<1>4. /\ planning = [c \in Planners |-> NotPlanning] /\ excused = {} /\ refusal = FALSE
      /\ planned = 0
  BY DEF PlanInit
<1>5. PlanTypeOK
  <2>1. planning \in [Planners -> Planning]
    BY <1>4, NotPlanningType
  <2>2. edges \subseteq Tasks \X Tasks /\ excused \subseteq edges
    BY <1>1, <1>4
  <2>3. refusal \in BOOLEAN
    BY <1>4
  <2>4. 0 \in 0..MaxPlanned
    BY <1>2
  <2> QED
    BY <1>3, <1>4, <2>1, <2>2, <2>3, <2>4 DEF PlanTypeOK
<1>6. EdgesJoinRows
  <2> SUFFICES ASSUME NEW e \in edges PROVE task[e[1]].there /\ task[e[2]].there
    BY DEF EdgesJoinRows
  <2>1. PICK t \in Tasks, u \in Tasks : /\ e[1] = t /\ e[2] = u
                                       /\ order[u] # 0 /\ order[t] = order[u] + 1
    BY <1>1
  <2>2. order[t] # 0
    BY <1>2, <2>1
  <2> QED
    BY <1>3, <2>1, <2>2
<1>7. /\ \A c \in Planners : PlannerOK(task, planning[c])
      /\ CreationsAreAlone(planning)
  BY <1>4, NotPlanningType DEF CreationsAreAlone
<1>8. PlanIsAcyclic
  <2> SUFFICES ASSUME NEW S \in SUBSET LiveTasks, S # {}
               PROVE  \E n \in S : \A m \in S : <<n, m>> \notin edges
    BY <1>4 DEF PlanIsAcyclic
  <2>1. \A t \in S : t \in Tasks
    BY DEF LiveTasks
  <2>2. PICK numbers : numbers = {order[t] : t \in S}
    OBVIOUS
  <2>3. numbers \subseteq Nat /\ numbers # {}
    BY <1>2, <2>1, <2>2
  <2>4. PICK x \in numbers : \A y \in numbers : x <= y
    BY <2>3, SmallestNumber
  <2>5. PICK n \in S : order[n] = x
    BY <2>2, <2>4
  <2>6. ASSUME NEW m \in S, <<n, m>> \in edges PROVE FALSE
    <3>1. order[n] = order[m] + 1
      BY <1>1, <2>6
    <3>2. x <= order[m] /\ order[m] \in Nat
      BY <1>2, <2>1, <2>2, <2>4
    <3> QED
      BY <2>5, <3>1, <3>2
  <2> QED
    BY <2>6
<1> QED
  BY <1>4, <1>5, <1>6, <1>7, <1>8 DEF PlanIInv, CodesAreFresh

\* Every step keeps the plan in order.
LEMMA PlanSteps == PlanIInv /\ [PlanNext]_planVars => PlanIInv'
<1> SUFFICES ASSUME PlanIInv, [PlanNext]_planVars PROVE PlanIInv'
  OBVIOUS
<1>1. CASE PlanNext
  BY <1>1, DeleteTaskStep, ImportStep, CreateTaskStep, ReplacePredecessorsStep, CheckLiveStep,
     SearchCircleStep, ComputeCodeStep, InsertTaskStep, ClearEdgesStep, InsertEdgeStep,
     EndPlanningStep
  DEF PlanNext
<1>2. CASE UNCHANGED planVars
  <2>1. UNCHANGED <<task, edges, planning, excused, refusal, planned>>
    BY <1>2 DEF planVars
  <2>2. PlanTypeOK' /\ EdgesJoinRows' /\ CodesAreFresh' /\ CreationsAreAlone(planning)'
    BY <2>1 DEF PlanIInv, PlanTypeOK, EdgesJoinRows, CodesAreFresh, CreationsAreAlone
  <2>3. (\A c \in Planners : PlannerOK(task, planning[c]))'
    BY <2>1 DEF PlanIInv
  <2>4. PlanIsAcyclic'
    BY <2>1 DEF PlanIInv, PlanIsAcyclic, LiveTasks, Live
  <2> QED
    BY <2>2, <2>3, <2>4 DEF PlanIInv
<1> QED
  BY <1>1, <1>2

\* Every variable keeps its type (the rows, their predecessors and the requests).
THEOREM PlanTypes == PlanSpec => []PlanTypeOK
<1>1. PlanIInv => PlanTypeOK
  BY DEF PlanIInv
<1> QED
  BY PlanBegins, PlanSteps, <1>1, PTL DEF PlanSpec

\* No activity waits for itself, except by an edge that nobody could have seen in the plan
\* validated, and no new code is that of an activity seen
\* (validatePredecessors, nextWbsCode).
THEOREM PlanStaysSound == PlanSpec => []PlanIsSound
<1>1. PlanIInv => PlanIsSound
  BY DEF PlanIInv, PlanIsSound
<1> QED
  BY PlanBegins, PlanSteps, <1>1, PTL DEF PlanSpec

-----------------------------------------------------------------------------
\* The next statement of a request.
IsNext(r, job) == r.todo # << >> /\ Head(r.todo) = job

\* The project as a request has read it may be completed.
MayComplete(r) ==
    r.row.budget = 0 \/ r.time <= r.row.budget \/ r.row.approval = "APPROVED"

\* A request that writes the project read it open; it takes back only an approval it
\* did not see, and completes only what it saw within the budget or approved.
EditorOK(r) ==
    /\ \A job \in {"load", "ask", "dismiss", "write"} :
          IsNext(r, job) => r.row.status \notin Locked
    /\ IsNext(r, "ask") => r.row.approval # "APPROVED"
    /\ IsNext(r, "dismiss") => r.row.approval # "APPROVED" /\ MayComplete(r)
    /\ IsNext(r, "write") /\ r.dto.status = "COMPLETED" => MayComplete(r)

ClosingIInv ==
    /\ ClosingTypeOK
    /\ CompletionIsCovered
    /\ \A u \in Editors : EditorOK(asked[u])

-----------------------------------------------------------------------------
\* An empty slot is a request, if there is a project at all.
LEMMA NotAskedType ==
    ASSUME project \in Project
    PROVE  NotAsked \in Asked /\ EditorOK(NotAsked) /\ NotAsked.todo = << >>
<1>1. (CHOOSE row \in Project : TRUE) \in Project
  OBVIOUS
<1>2. NoDto \in ProjectDto
  BY DEF NoDto, ProjectDto
<1>3. 0 \in 0..MaxConsumed /\ << >> \in Seq(Jobs)
  BY ClosingAssumption
<1>4. NotAsked \in Asked /\ NotAsked.todo = << >>
  BY <1>1, <1>2, <1>3 DEF NotAsked, Asked
<1> QED
  BY <1>4 DEF EditorOK, IsNext

\* The lists of statements a request is given.
LEMMA TodoType ==
    ASSUME NEW job \in Jobs
    PROVE  <<job>> \in Seq(Jobs) /\ <<job>> # << >> /\ Head(<<job>>) = job
  OBVIOUS

LEMMA DismissType ==
    /\ <<"dismiss", "write">> \in Seq(Jobs) /\ <<"dismiss", "write">> # << >>
    /\ Head(<<"dismiss", "write">>) = "dismiss"
  BY DEF Jobs

\* A step changes at most one request, and leaves it in order.
LEMMA OneEditorChanges ==
    ASSUME asked \in [Editors -> Asked], \A u \in Editors : EditorOK(asked[u]),
           NEW u \in Editors, NEW r \in Asked, EditorOK(r), asked' = [asked EXCEPT ![u] = r]
    PROVE  asked' \in [Editors -> Asked] /\ (\A v \in Editors : EditorOK(asked[v]))'
<1>1. asked' \in [Editors -> Asked] /\ \A v \in Editors : asked'[v] = IF v = u THEN r ELSE asked[v]
  OBVIOUS
<1>2. \A v \in Editors : EditorOK(asked'[v])
  BY <1>1
<1> QED
  BY <1>1, <1>2

\* A verdict lets a request write only a project it saw within its budget or approved.
LEMMA VerdictSound ==
    ASSUME NEW row \in Project, NEW time \in 0..MaxConsumed, NEW dto \in ProjectDto,
           NEW r \in Asked, r.row = row, r.time = time, r.dto = dto,
           r.todo = Verdict(row, time, dto), row.status \notin Locked
    PROVE  EditorOK(r)
<1>0. row.budget \in Nat /\ time \in Nat
  <2>1. row.budget \in Budgets
    BY DEF Project
  <2>2. Budgets \subseteq Nat /\ MaxConsumed \in Nat
    BY ClosingAssumption
  <2>3. time \in Nat
    BY <2>2
  <2> QED
    BY <2>1, <2>2, <2>3
<1>f. Exceeded(row.budget, time) \/ row.budget = 0 \/ time <= row.budget
  <2> PICK b \in Nat : b = row.budget
    BY <1>0
  <2>1. time <= b \/ time > b
    BY <1>0
  <2> QED
    BY <2>1 DEF Exceeded
<1>1. CASE r.todo = <<"ask">>
  <2>1. row.approval # "APPROVED"
    BY <1>1, TodoType DEF Verdict, Jobs
  <2>2. \A job : IsNext(r, job) => job = "ask"
    BY <1>1 DEF IsNext
  <2> QED
    BY <2>1, <2>2 DEF EditorOK
<1>2. CASE r.todo = <<"dismiss", "write">>
  <2>1. row.approval # "APPROVED" /\ ~Exceeded(row.budget, time)
    BY <1>2, DismissType DEF Verdict
  <2>2. MayComplete(r)
    BY <1>f, <2>1 DEF MayComplete
  <2>3. \A job : IsNext(r, job) => job = "dismiss"
    BY <1>2, DismissType DEF IsNext
  <2> QED
    BY <2>1, <2>2, <2>3 DEF EditorOK
<1>3. CASE r.todo = <<"write">>
  <2>1. dto.status = "COMPLETED" => MayComplete(r)
    <3>1. <<"write">> # <<"ask">> /\ <<"write">> # <<"dismiss", "write">>
      BY TodoType, DismissType DEF Jobs
    <3> HIDE DEF Exceeded
    <3> QED
      BY <1>3, <1>f, <3>1 DEF Verdict, MayComplete
  <2>2. \A job : IsNext(r, job) => job = "write"
    BY <1>3 DEF IsNext
  <2> QED
    BY <2>1, <2>2 DEF EditorOK
<1> QED
  BY <1>1, <1>2, <1>3 DEF Verdict

-----------------------------------------------------------------------------
\* Nobody works on a project when it begins.
LEMMA ClosingBegins == ClosingInit => ClosingIInv
<1> SUFFICES ASSUME ClosingInit PROVE ClosingIInv
  OBVIOUS
<1>1. project \in Project
  BY DEF ClosingInit, Project, Approvals
<1>2. asked \in [Editors -> Asked] /\ \A u \in Editors : EditorOK(asked[u])
  BY <1>1, NotAskedType DEF ClosingInit
<1> QED
  BY <1>1, <1>2, ClosingAssumption DEF ClosingInit, ClosingIInv, ClosingTypeOK, CompletionIsCovered

\* A new request, which begins with a job that needs an open project only if it is one.
LEMMA ClosingAsk ==
    ASSUME ClosingIInv, NEW u \in Editors, NEW job \in {"load", "approve", "reopen", "delete", "work"},
           NEW dto \in ProjectDto, NEW time \in 0..MaxConsumed,
           job = "load" => Editable, Ask(u, <<job>>, dto, time)
    PROVE  ClosingIInv'
<1>1. PICK r : r = [todo |-> <<job>>, row |-> project, time |-> time, dto |-> dto]
  OBVIOUS
<1>2. job \in Jobs
  BY DEF Jobs
<1>3. r \in Asked
  BY <1>1, <1>2, TodoType DEF Asked, ClosingIInv, ClosingTypeOK
<1>4. EditorOK(r)
  <2>1. \A j : IsNext(r, j) => j = job
    BY <1>1, <1>2, TodoType DEF IsNext
  <2> QED
    BY <1>1, <2>1 DEF EditorOK, Editable
<1>5. /\ asked' = [asked EXCEPT ![u] = r] /\ asks' \in 0..MaxAsked
      /\ UNCHANGED <<project, consumed, moved>>
  BY <1>1, ClosingAssumption DEF Ask, ClosingIInv, ClosingTypeOK
<1>6. asked' \in [Editors -> Asked] /\ (\A v \in Editors : EditorOK(asked[v]))'
  BY <1>3, <1>4, <1>5, OneEditorChanges DEF ClosingIInv, ClosingTypeOK
<1> QED
  BY <1>5, <1>6 DEF ClosingIInv, ClosingTypeOK, CompletionIsCovered

\* The activities are read, and the verdict is on what is read.
LEMMA ClosingLoad ==
    ASSUME ClosingIInv, NEW u \in Editors, LoadActivities(u)
    PROVE  ClosingIInv'
<1>1. asked[u] \in Asked /\ EditorOK(asked[u]) /\ consumed \in 0..MaxConsumed
  BY DEF ClosingIInv, ClosingTypeOK
<1>2. PICK todo : todo = Verdict(asked[u].row, consumed, asked[u].dto)
  OBVIOUS
<1>3. todo \in Seq(Jobs)
  BY <1>2, TodoType, DismissType DEF Verdict, Jobs
<1>4. PICK r : r = [asked[u] EXCEPT !.time = consumed, !.todo = todo]
  OBVIOUS
<1>5. /\ r \in Asked /\ r.row = asked[u].row /\ r.time = consumed /\ r.dto = asked[u].dto
      /\ r.todo = todo
  BY <1>1, <1>3, <1>4 DEF Asked
<1>6. asked[u].row \in Project /\ asked[u].dto \in ProjectDto /\ asked[u].row.status \notin Locked
  BY <1>1 DEF Asked, EditorOK, IsNext, LoadActivities, Doing
<1>7. EditorOK(r)
  BY <1>1, <1>2, <1>5, <1>6, VerdictSound
<1>8. asked' = [asked EXCEPT ![u] = r] /\ UNCHANGED <<project, consumed, moved, asks>>
  BY <1>1, <1>2, <1>4 DEF LoadActivities, ClosingIInv, ClosingTypeOK
<1>9. asked' \in [Editors -> Asked] /\ (\A v \in Editors : EditorOK(asked[v]))'
  BY <1>5, <1>7, <1>8, OneEditorChanges DEF ClosingIInv, ClosingTypeOK
<1> QED
  BY <1>8, <1>9 DEF ClosingIInv, ClosingTypeOK, CompletionIsCovered

\* A request that ends leaves the others in order.
LEMMA EditorEnds ==
    ASSUME ClosingIInv, NEW u \in Editors, asked' = [asked EXCEPT ![u] = NotAsked]
    PROVE  asked' \in [Editors -> Asked] /\ (\A v \in Editors : EditorOK(asked[v]))'
<1>1. NotAsked \in Asked /\ EditorOK(NotAsked)
  BY NotAskedType DEF ClosingIInv, ClosingTypeOK
<1> QED
  BY <1>1, OneEditorChanges DEF ClosingIInv, ClosingTypeOK

\* A request that writes nothing, and does not begin, leaves the project as it was covered.
LEMMA ClosingOthers ==
    ASSUME ClosingIInv, NEW u \in Editors, AskForApproval(u) \/ WriteApproval(u) \/ WriteReopened(u)
               \/ WriteDeleted(u) \/ WriteWork(u) \/ AskBreaks(u)
    PROVE  ClosingIInv'
<1>1. asked' = [asked EXCEPT ![u] = NotAsked] /\ asks' = asks
  BY DEF AskForApproval, WriteApproval, WriteReopened, WriteDeleted, WriteWork, AskBreaks, Proceed
<1>2. asked' \in [Editors -> Asked] /\ (\A v \in Editors : EditorOK(asked[v]))'
  BY <1>1, EditorEnds
<1>3. /\ project \in Project /\ consumed \in 0..MaxConsumed /\ moved \in BOOLEAN
      /\ asks \in 0..MaxAsked /\ asked[u] \in Asked /\ CompletionIsCovered
  BY DEF ClosingIInv, ClosingTypeOK
<1>4. PICK old \in Project : old = project
  BY <1>3
<1>5. "IN_PROGRESS" \in ProjectStatuses
  BY ClosingAssumption
<1>6. CASE AskForApproval(u)
  BY <1>1, <1>2, <1>3, <1>4, <1>6
  DEF AskForApproval, ClosingIInv, ClosingTypeOK, CompletionIsCovered, Project, Approvals
<1>7. CASE WriteApproval(u)
  BY <1>1, <1>2, <1>3, <1>4, <1>7
  DEF WriteApproval, ClosingIInv, ClosingTypeOK, CompletionIsCovered, Project, Approvals
<1>8. CASE WriteReopened(u)
  BY <1>1, <1>2, <1>3, <1>4, <1>5, <1>8
  DEF WriteReopened, ClosingIInv, ClosingTypeOK, CompletionIsCovered, Project
<1>9. CASE WriteDeleted(u)
  BY <1>1, <1>2, <1>3, <1>4, <1>9
  DEF WriteDeleted, ClosingIInv, ClosingTypeOK, CompletionIsCovered, Project
<1>10. CASE WriteWork(u)
  <2>1. asked[u].time \in 0..MaxConsumed
    BY <1>3 DEF Asked
  <2> QED
    BY <1>1, <1>2, <1>3, <1>10, <2>1
    DEF WriteWork, ClosingIInv, ClosingTypeOK, CompletionIsCovered
<1>11. CASE AskBreaks(u)
  BY <1>1, <1>2, <1>3, <1>11 DEF AskBreaks, ClosingIInv, ClosingTypeOK, CompletionIsCovered
<1> QED
  BY <1>6, <1>7, <1>8, <1>9, <1>10, <1>11

\* A request that takes an approval back goes on to write what it saw within the budget.
LEMMA ClosingDismiss ==
    ASSUME ClosingIInv, NEW u \in Editors, DismissApproval(u)
    PROVE  ClosingIInv'
<1>1. /\ project \in Project /\ consumed \in 0..MaxConsumed /\ asks \in 0..MaxAsked
      /\ asked[u] \in Asked /\ EditorOK(asked[u])
  BY DEF ClosingIInv, ClosingTypeOK
<1>2. PICK todo : todo = <<"write">>
  OBVIOUS
<1>3. todo \in Seq(Jobs) /\ todo # << >> /\ Head(todo) = "write"
  BY <1>2, TodoType DEF Jobs
<1>4. PICK r : r = [asked[u] EXCEPT !.todo = todo]
  OBVIOUS
<1>5. /\ r \in Asked /\ r.row = asked[u].row /\ r.time = asked[u].time /\ r.dto = asked[u].dto
      /\ r.todo = todo
  BY <1>1, <1>3, <1>4 DEF Asked
<1>6. asked[u].row.status \notin Locked /\ MayComplete(asked[u])
  BY <1>1 DEF EditorOK, IsNext, DismissApproval, Doing
<1>7. EditorOK(r)
  BY <1>3, <1>5, <1>6 DEF EditorOK, IsNext, MayComplete
<1>8. /\ asked' = [asked EXCEPT ![u] = r] /\ UNCHANGED <<consumed, asks>> /\ moved' = TRUE
      /\ project' = [project EXCEPT !.approval = "NOT_REQUIRED"]
  BY <1>2, <1>3, <1>4 DEF DismissApproval, Proceed
<1>9. asked' \in [Editors -> Asked] /\ (\A v \in Editors : EditorOK(asked[v]))'
  BY <1>5, <1>7, <1>8, OneEditorChanges DEF ClosingIInv, ClosingTypeOK
<1>10. project' \in Project
  BY <1>1, <1>8 DEF Project, Approvals
<1> QED
  BY <1>1, <1>8, <1>9, <1>10 DEF ClosingIInv, ClosingTypeOK, CompletionIsCovered

\* A completion writes what it saw within its budget or approved, or what has moved since.
LEMMA ClosingWrite ==
    ASSUME ClosingIInv, NEW u \in Editors, WriteProject(u)
    PROVE  ClosingIInv'
<1>1. /\ project \in Project /\ consumed \in 0..MaxConsumed /\ asks \in 0..MaxAsked
      /\ moved \in BOOLEAN /\ CompletionIsCovered
      /\ asked[u] \in Asked /\ EditorOK(asked[u])
  BY DEF ClosingIInv, ClosingTypeOK
<1>2. PICK old \in Project : old = project
  BY <1>1
<1>3. PICK r \in Asked : r = asked[u] /\ EditorOK(r)
  BY <1>1
<1>4. PICK status \in ProjectStatuses : status = Field(r.dto.status, old.status)
  BY DEF Field, Asked, ProjectDto, Project
<1>5. PICK budget \in Budgets : budget = Field(r.dto.budget, old.budget)
  BY DEF Field, Asked, ProjectDto, Project
<1>6. project' = [old EXCEPT !.status = status, !.budget = budget]
  BY <1>2, <1>3, <1>4, <1>5 DEF WriteProject
<1>7. /\ project' \in Project /\ project'.status = status /\ project'.budget = budget
      /\ project'.approval = old.approval
  BY <1>6 DEF Project
<1>8. asked' \in [Editors -> Asked] /\ (\A v \in Editors : EditorOK(asked[v]))'
  BY EditorEnds DEF WriteProject, Proceed
<1>9. UNCHANGED <<consumed, asks>>
  BY DEF WriteProject
<1>10. moved' \in BOOLEAN
  BY <1>1 DEF WriteProject
<1>11. CompletionIsCovered'
  <2> SUFFICES ASSUME status = "COMPLETED", ~moved'
               PROVE  consumed <= budget \/ budget = 0 \/ old.approval = "APPROVED"
    BY <1>7, <1>9 DEF CompletionIsCovered
  <2>1. CASE r.dto.status = "COMPLETED"
    <3>1. /\ consumed = r.time /\ old.budget = r.row.budget /\ r.dto.budget = Same
          /\ old.approval = r.row.approval \/ r.row.approval = "PENDING"
      BY <1>2, <1>3, <2>1 DEF WriteProject
    <3>2. budget = r.row.budget
      BY <1>5, <3>1 DEF Field
    <3>3. MayComplete(r)
      BY <1>3, <2>1 DEF EditorOK, IsNext, WriteProject, Doing
    <3> QED
      BY <3>1, <3>2, <3>3 DEF MayComplete
  <2>2. CASE r.dto.status # "COMPLETED"
    <3>1. ~moved /\ r.dto.budget = Same
      BY <1>3, <2>2 DEF WriteProject
    <3>2. old.status = "COMPLETED" /\ budget = old.budget
      BY <1>4, <1>5, <2>2, <3>1 DEF Field
    <3> QED
      BY <1>1, <1>2, <3>1, <3>2 DEF CompletionIsCovered
  <2> QED
    BY <2>1, <2>2
<1> QED
  BY <1>1, <1>7, <1>8, <1>9, <1>10, <1>11 DEF ClosingIInv, ClosingTypeOK

\* Every step keeps the promises of the life of a project.
LEMMA ClosingSteps == ClosingIInv /\ [ClosingNext]_closingVars => ClosingIInv'
<1> SUFFICES ASSUME ClosingIInv, [ClosingNext]_closingVars PROVE ClosingIInv'
  OBVIOUS
<1>1. ASSUME NEW time \in 0..MaxConsumed, WorkOutside(time) PROVE ClosingIInv'
  BY <1>1, ClosingAssumption DEF WorkOutside, ClosingIInv, ClosingTypeOK, CompletionIsCovered
<1>2. ASSUME NEW u \in Editors, NEW dto \in ProjectDto, UpdateProject(u, dto) PROVE ClosingIInv'
  BY <1>2, ClosingAsk, ClosingAssumption DEF UpdateProject
<1>3. ASSUME NEW u \in Editors, ApproveCompletion(u) \/ ReopenProject(u) \/ DeleteProject(u)
      PROVE  ClosingIInv'
  <2>1. NoDto \in ProjectDto /\ 0 \in 0..MaxConsumed
    BY ClosingAssumption DEF NoDto, ProjectDto
  <2> QED
    BY <1>3, <2>1, ClosingAsk DEF ApproveCompletion, ReopenProject, DeleteProject
<1>4. ASSUME NEW u \in Editors, NEW time \in 0..MaxConsumed, WorkInProject(u, time)
      PROVE  ClosingIInv'
  <2>1. NoDto \in ProjectDto
    BY DEF NoDto, ProjectDto
  <2> QED
    BY <1>4, <2>1, ClosingAsk DEF WorkInProject
<1>5. CASE UNCHANGED closingVars
  BY <1>5 DEF closingVars, ClosingIInv, ClosingTypeOK, CompletionIsCovered
<1> QED
  BY <1>1, <1>2, <1>3, <1>4, <1>5, ClosingLoad, ClosingOthers, ClosingDismiss, ClosingWrite
  DEF ClosingNext

\* Every variable keeps its type (the project and its requests).
THEOREM ClosingTypes == ClosingSpec => []ClosingTypeOK
<1>1. ClosingIInv => ClosingTypeOK
  BY DEF ClosingIInv
<1> QED
  BY ClosingBegins, ClosingSteps, <1>1, PTL DEF ClosingSpec

\* A project that is completed is within its budget or approved, unless something
\* moved since its completion looked (assertCanCompleteProject).
THEOREM CompletionCovered == ClosingSpec => []CompletionIsCovered
<1>1. ClosingIInv => CompletionIsCovered
  BY DEF ClosingIInv
<1> QED
  BY ClosingBegins, ClosingSteps, <1>1, PTL DEF ClosingSpec

-----------------------------------------------------------------------------
\* A request that has no statement left is another one than it was.
LEMMA EndingIsAChange ==
    ASSUME ClosingIInv, NEW u \in Editors, ~Waiting(u), Proceed(u, << >>)
    PROVE  asked'[u] # asked[u]
<1>1. asked'[u] = NotAsked
  BY DEF Proceed, ClosingIInv, ClosingTypeOK
<1>2. NotAsked.todo = << >>
  BY NotAskedType DEF ClosingIInv, ClosingTypeOK
<1> QED
  BY <1>1, <1>2 DEF Waiting

\* An approval goes, and a closed project opens, only by who is entitled to it
\* (approveProjectCompletion, reopenProject, assertProjectEditable).
THEOREM ClosingStays == ClosingSpec => ClosingIsKept
<1>1. ClosingIInv /\ [ClosingNext]_closingVars => [ApprovalIsKept /\ OnlyReopeningOpens]_closingVars
  <2> SUFFICES ASSUME ClosingIInv, ClosingNext PROVE ApprovalIsKept /\ OnlyReopeningOpens
    OBVIOUS
  <2>0. project \in Project
    BY DEF ClosingIInv, ClosingTypeOK
  <2>1. ASSUME project' = project PROVE ApprovalIsKept /\ OnlyReopeningOpens
    BY <2>1 DEF ApprovalIsKept, OnlyReopeningOpens, Editable
  <2>2. ASSUME NEW u \in Editors, AskForApproval(u) PROVE ApprovalIsKept /\ OnlyReopeningOpens
    <3>1. asked'[u] # asked[u] /\ Doing(u, "ask")
      BY <2>2, EndingIsAChange DEF AskForApproval, Waiting, Doing
    <3>2. asked[u].row.approval # "APPROVED"
      BY <3>1 DEF ClosingIInv, EditorOK, IsNext, Doing
    <3>3. project'.status = project.status
      BY <2>0, <2>2 DEF AskForApproval, Project
    <3> QED
      BY <3>1, <3>2, <3>3 DEF ApprovalIsKept, OnlyReopeningOpens, Editable
  <2>3. ASSUME NEW u \in Editors, DismissApproval(u) PROVE ApprovalIsKept /\ OnlyReopeningOpens
    <3>1. Doing(u, "dismiss") /\ asked[u] \in Asked
      BY <2>3 DEF DismissApproval, ClosingIInv, ClosingTypeOK
    <3>2. asked'[u] # asked[u]
      <4> PICK todo : todo = <<"write">>
        OBVIOUS
      <4>1. asked'[u] = [asked[u] EXCEPT !.todo = todo] /\ Head(todo) = "write" /\ todo # << >>
        BY <2>3 DEF DismissApproval, Proceed, ClosingIInv, ClosingTypeOK
      <4>2. asked'[u].todo = todo
        BY <3>1, <4>1 DEF Asked
      <4> QED
        BY <3>1, <4>1, <4>2 DEF Doing
    <3>3. asked[u].row.approval # "APPROVED"
      BY <3>1 DEF ClosingIInv, EditorOK, IsNext, Doing
    <3>4. project'.status = project.status
      BY <2>0, <2>3 DEF DismissApproval, Project
    <3> QED
      BY <3>1, <3>2, <3>3, <3>4 DEF ApprovalIsKept, OnlyReopeningOpens, Editable
  <2>4. ASSUME NEW u \in Editors, WriteProject(u) \/ WriteReopened(u)
        PROVE  ApprovalIsKept /\ OnlyReopeningOpens
    <3>1. asked'[u] # asked[u] /\ (Doing(u, "write") \/ Doing(u, "reopen"))
      BY <2>4, EndingIsAChange DEF WriteProject, WriteReopened, Waiting, Doing
    <3>2. Doing(u, "write") => asked[u].row.status \notin Locked
      BY DEF ClosingIInv, EditorOK, IsNext, Doing
    <3>3. project'.approval = project.approval
      BY <2>0, <2>4 DEF WriteProject, WriteReopened, Project
    <3> QED
      BY <3>1, <3>2, <3>3 DEF ApprovalIsKept, OnlyReopeningOpens
  <2>5. ASSUME NEW u \in Editors, WriteApproval(u) \/ WriteDeleted(u)
        PROVE  ApprovalIsKept /\ OnlyReopeningOpens
    <3>1. /\ project'.status = project.status
          /\ project'.approval \in {project.approval, "APPROVED"}
      BY <2>0, <2>5 DEF WriteApproval, WriteDeleted, Project
    <3> QED
      BY <3>1 DEF ApprovalIsKept, OnlyReopeningOpens, Editable
  <2> QED
    BY <2>1, <2>2, <2>3, <2>4, <2>5
    DEF ClosingNext, WorkOutside, UpdateProject, ApproveCompletion, ReopenProject, DeleteProject,
        WorkInProject, Ask, LoadActivities, WriteWork, AskBreaks
<1>2. ClosingSpec => []ClosingIInv
  BY ClosingBegins, ClosingSteps, PTL DEF ClosingSpec
<1> QED
  BY <1>1, <1>2, PTL DEF ClosingSpec, ClosingIsKept
=============================================================================
