----------------------------- MODULE ProjectPlan ------------------------------
(***************************************************************************)
(* The predecessors of the activities of a project and the codes of the    *)
(* activities of one phase, translated from projetos.service.ts            *)
(* (createActivity, updateActivity, deleteActivity, validatePredecessors,  *)
(* nextWbsCode, importFromBuffer).                                         *)
(*                                                                         *)
(* validatePredecessors reads all predecessors and looks for a circle; the *)
(* rows are deleted and inserted one by one later, without a transaction,  *)
(* so two requests that validated the same plan may each add half of a     *)
(* circle.  A deletion keeps the row, and with it its code and its place   *)
(* in the unique index of the codes.  The import is one transaction and    *)
(* validates nothing.                                                      *)
(***************************************************************************)
EXTENDS Naturals, FiniteSetsExt

CONSTANTS
    Tasks,          \* activities of one phase
    NoTask,
    Planners,       \* slots for requests in flight
    MaxCode,        \* bound: the last number of a wbs_code
    MaxPlanned,     \* bound: requests begun, imports included
    MaxSheet        \* bound: rows of a sheet

ASSUME PlanAssumption == NoTask \notin Tasks /\ {MaxCode, MaxPlanned, MaxSheet} \subseteq Nat

VARIABLES
    task,        \* the rows of project_activities
    edges,       \* project_activity_predecessors: <<activity, predecessor>>
    planning,    \* the requests in flight
    excused,     \* edges imported, or inserted when the plan validated had changed
    refusal,     \* a creation failed on a code that no race and no deletion took
    planned      \* requests begun

planVars == <<task, edges, planning, excused, refusal, planned>>

-----------------------------------------------------------------------------
Task == [there: BOOLEAN, deleted: BOOLEAN, code: 0..MaxCode]
Live(t) == task[t].there /\ ~task[t].deleted
LiveTasks == {t \in Tasks : Live(t)}

\* wanted are the predecessors to write, plan the ones the validation has read,
\* known the rows the code was computed from.
Planning == [pc: {"idle", "live", "walk", "code", "insert", "clear", "edges"},
             of: Tasks \cup {NoTask}, creates: BOOLEAN, wanted: SUBSET Tasks,
             code: 0..MaxCode, known: SUBSET Tasks, plan: SUBSET (Tasks \X Tasks)]

NotPlanning == [pc |-> "idle", of |-> NoTask, creates |-> FALSE, wanted |-> {}, code |-> 0,
                known |-> {}, plan |-> {}]

\* The types of the rows and of the requests.
PlanTypeOK ==
    /\ task \in [Tasks -> Task]
    /\ edges \subseteq Tasks \X Tasks /\ excused \subseteq edges
    /\ planning \in [Planners -> Planning]
    /\ refusal \in BOOLEAN
    /\ planned \in 0..MaxPlanned

InState(c, pc) == planning[c].pc = pc
Leave(c) == planning' = [planning EXCEPT ![c] = NotPlanning]

\* The edges validatePredecessors reads: those of the activities that are not deleted.
PlanAsRead == {e \in edges : Live(e[1])}

\* Mutant: only a predecessor that waits for the activity itself is a circle.
Loops_Mutual(t, plan) == \E e \in plan : e[1] = t /\ <<e[2], t>> \in plan

\* The search of validatePredecessors from t: it meets a node again if and only
\* if there is a way from t that never ends.
Loops(t, plan) ==
    \E S \in SUBSET Tasks :
        t \in S /\ \A n \in S : \E m \in S : <<n, m>> \in plan

\* Mutant: the activities are counted.
NextCode_Count == Cardinality(LiveTasks) + 1

\* nextWbsCode: one more than the highest code of the live activities.
NextCode == IF LiveTasks = {} THEN 1 ELSE Max({task[t].code : t \in LiveTasks}) + 1

\* The rows in the unique index of the codes.
Holders(code) == {t \in Tasks : task[t].there /\ task[t].code = code}

\* A row that nobody has inserted or is inserting.
Unused(t) == ~task[t].there /\ \A d \in Planners : planning[d].of # t

-----------------------------------------------------------------------------
Plan(c, r) ==
    /\ InState(c, "idle") /\ planned < MaxPlanned
    /\ planned' = planned + 1
    /\ planning' = [planning EXCEPT ![c] = r]
    /\ UNCHANGED <<task, edges, excused, refusal>>

\* createActivity: without predecessors in the dto it takes the last activity of
\* the phase, in an order that is left out: there are none only in an empty phase.
CreateTask(c, t, wanted) ==
    /\ Unused(t) /\ (wanted = {} => LiveTasks = {})
    /\ Plan(c, [NotPlanning EXCEPT !.pc = "live", !.of = t, !.creates = TRUE, !.wanted = wanted])

\* updateActivity with predecessorIds; an activity is not its own predecessor.
ReplacePredecessors(c, t, wanted) ==
    /\ Live(t) /\ t \notin wanted
    /\ Plan(c, [NotPlanning EXCEPT !.pc = IF wanted = {} THEN "clear" ELSE "live",
                                   !.of = t, !.wanted = wanted])

\* deleteActivity: the row is marked; its edges and its code stay.
DeleteTask(t) ==
    /\ Live(t) /\ planned < MaxPlanned
    /\ planned' = planned + 1
    /\ task' = [task EXCEPT ![t].deleted = TRUE]
    /\ UNCHANGED <<edges, planning, excused, refusal>>

\* importFromBuffer: in one transaction the sheet inserts activities under its own
\* codes and replaces the predecessors of others, at most one of each here, without
\* a search.  A code that a deleted row holds fails all of it; 0 if none is inserted.
Import(rows, code, predecessor) ==
    LET created == {t \in rows : ~task[t].there}
        sheet == {<<t, predecessor[t]>> : t \in {r \in rows : predecessor[r] \notin {r, NoTask}}}
    IN
    /\ \A t \in rows : /\ Live(t) \/ (Unused(t) /\ Holders(code) = {})
                       /\ predecessor[t] \in LiveTasks \cup created \cup {NoTask}
    /\ Cardinality(created) <= 1 /\ (created = {}) = (code = 0)
    /\ planned < MaxPlanned
    /\ planned' = planned + 1
    /\ task' = [t \in Tasks |-> IF t \in created THEN [there |-> TRUE, deleted |-> FALSE, code |-> code]
                                ELSE task[t]]
    /\ edges' = {e \in edges : e[1] \notin rows} \cup sheet
    /\ excused' = {e \in excused : e[1] \notin rows} \cup sheet
    /\ UNCHANGED <<planning, refusal>>

-----------------------------------------------------------------------------
\* validatePredecessors: every predecessor is live; a creation is searched no further.
CheckLive(c) ==
    LET r == planning[c] IN
    /\ InState(c, "live")
    /\ IF r.wanted \subseteq LiveTasks
       THEN planning' = [planning EXCEPT ![c].pc = IF r.creates THEN "code" ELSE "walk",
                                         ![c].plan = IF r.creates THEN PlanAsRead ELSE {}]
       ELSE Leave(c)
    /\ UNCHANGED <<task, edges, excused, refusal, planned>>

\* Its search, in the edges of the others and the new ones.
SearchCircle(c) ==
    LET r == planning[c]
        plan == {e \in PlanAsRead : e[1] # r.of} \cup ({r.of} \X r.wanted)
    IN
    /\ InState(c, "walk")
    /\ IF Loops(r.of, plan) THEN Leave(c)
       ELSE planning' = [planning EXCEPT ![c].pc = "clear", ![c].plan = PlanAsRead]
    /\ UNCHANGED <<task, edges, excused, refusal, planned>>

\* nextWbsCode reads the codes.
ComputeCode(c) ==
    /\ InState(c, "code") /\ NextCode <= MaxCode
    /\ planning' = [planning EXCEPT ![c].pc = "insert", ![c].code = NextCode, ![c].known = LiveTasks]
    /\ UNCHANGED <<task, edges, excused, refusal, planned>>

\* The row is inserted, unless a row of the phase, deleted or not, has its code.
InsertTask(c) ==
    LET r == planning[c] IN
    /\ InState(c, "insert")
    /\ IF Holders(r.code) = {}
       THEN /\ task' = [task EXCEPT ![r.of] = [there |-> TRUE, deleted |-> FALSE, code |-> r.code]]
            /\ planning' = [planning EXCEPT ![c].pc = "edges"]
            /\ UNCHANGED refusal
       ELSE /\ refusal' = (refusal \/ \E t \in Holders(r.code) : t \in r.known)
            /\ Leave(c)
            /\ UNCHANGED task
    /\ UNCHANGED <<edges, excused, planned>>

\* The old predecessors are deleted, whoever inserted them.
ClearEdges(c) ==
    LET r == planning[c] IN
    /\ InState(c, "clear")
    /\ edges' = {e \in edges : e[1] # r.of}
    /\ excused' = excused \cap edges'
    /\ planning' = [planning EXCEPT ![c].pc = "edges"]
    /\ UNCHANGED <<task, refusal, planned>>

\* A predecessor is inserted; one that is there by now ends the request.
InsertEdge(c, p) ==
    LET r == planning[c]
        e == <<r.of, p>>
        changed == {f \in PlanAsRead : f[1] # r.of} \ r.plan
    IN
    /\ InState(c, "edges") /\ p \in r.wanted
    /\ IF e \in edges THEN Leave(c) /\ UNCHANGED <<edges, excused>>
       ELSE /\ edges' = edges \cup {e}
            /\ excused' = IF changed = {} THEN excused ELSE excused \cup {e}
            /\ planning' = [planning EXCEPT ![c].wanted = @ \ {p}]
    /\ UNCHANGED <<task, refusal, planned>>

\* All predecessors are inserted, or the process fails before.
EndPlanning(c) ==
    /\ ~InState(c, "idle")
    /\ Leave(c)
    /\ UNCHANGED <<task, edges, excused, refusal, planned>>

-----------------------------------------------------------------------------
\* Some activities, one after the other, each after the one before.
PlanInit ==
    /\ \E order \in [Tasks -> 0..MaxCode] :
        /\ \A t \in Tasks : order[t] # 0 =>
              \A n \in 1..order[t] : Cardinality({u \in Tasks : order[u] = n}) = 1
        /\ task = [t \in Tasks |-> [there |-> order[t] # 0, deleted |-> FALSE, code |-> order[t]]]
        /\ edges = {e \in Tasks \X Tasks : order[e[2]] # 0 /\ order[e[1]] = order[e[2]] + 1}
    /\ planning = [c \in Planners |-> NotPlanning]
    /\ excused = {} /\ refusal = FALSE /\ planned = 0

PlanNext ==
    \/ \E t \in Tasks : DeleteTask(t)
    \/ \E rows \in {S \in SUBSET Tasks : Cardinality(S) <= MaxSheet}, code \in 0..MaxCode :
          \E predecessor \in [rows -> Tasks \cup {NoTask}] : Import(rows, code, predecessor)
    \/ \E c \in Planners :
        \/ \E t \in Tasks, wanted \in SUBSET Tasks :
              CreateTask(c, t, wanted) \/ ReplacePredecessors(c, t, wanted)
        \/ CheckLive(c) \/ SearchCircle(c) \/ ComputeCode(c) \/ InsertTask(c) \/ ClearEdges(c)
        \/ \E p \in Tasks : InsertEdge(c, p)
        \/ EndPlanning(c)

PlanSpec == PlanInit /\ [][PlanNext]_planVars

-----------------------------------------------------------------------------
\* No activity waits for itself: every circle of predecessors has an edge that was
\* imported, or inserted when predecessors had been added since the plan was
\* validated (validatePredecessors against the inserts of updateActivity).
PlanIsAcyclic ==
    \A S \in SUBSET LiveTasks : S # {} =>
        \E n \in S : \A m \in S : <<n, m>> \notin edges \ excused

\* A creation fails on its code only when another one took it meanwhile or when an
\* activity that was deleted has it: the code is above those of all live
\* activities, though some between them are deleted (nextWbsCode).
CodesAreFresh == ~refusal

\* Whatever requests overlap, the plan has neither a circle nor a code taken
\* twice that the requests could have seen (createActivity, updateActivity).
PlanIsSound == PlanIsAcyclic /\ CodesAreFresh
=============================================================================
