------------------------------ MODULE RulesProofs ------------------------------
(* Proofs about the rules that open tickets by themselves, about the rule for *)
(* idle tickets and about the dates of rules, for any rules, tickets, runs,   *)
(* requests and first dates, and for any bounds.                              *)
EXTENDS RuleCalendar, AutoOpen, Tickets, FiniteSetTheorems, TLAPS

-----------------------------------------------------------------------------
(* The invariant of the rules that open tickets.                              *)

Holding(x, r) == \E i \in DOMAIN x.todo : x.todo[i].id = r

Opening(x, r) == x.pc = "opened" /\ Head(x.todo).id = r

\* The dates of a rule before a date n.
Grid(r, n) ==
    {d \in Dates : /\ since[r] <= d /\ d < n
                   /\ EveryDays[r] # 0 /\ (d - since[r]) % EveryDays[r] = 0}

\* A rule may be moved to date n: it is one of its dates, or none is left, and it
\* misses none of those before.
MayBeAt(r, n) ==
    since[r] <= LastDay + 1 /\ EveryDays[r] # 0 =>
        /\ since[r] <= n
        /\ n = LastDay + 1 \/ (n - since[r]) % EveryDays[r] = 0
        /\ Grid(r, n) \subseteq opened[r] \cup failed[r]

\* What a run has read of a rule: a date that is behind the clock, and, unless
\* something else happened to the rule, still the one it has.
ItemOK(c) ==
    /\ c.next <= LastDay
    /\ MayBeAt(c.id, c.next)
    /\ c.id \notin excused => c.next = rule[c.id].next

\* A run has each rule once.
RunOK(x) ==
    /\ \A i, j \in DOMAIN x.todo : x.todo[i].id = x.todo[j].id => i = j
    /\ \A i \in DOMAIN x.todo : ItemOK(x.todo[i])
    /\ x.pc = "opened" => Head(x.todo).next \in opened[Head(x.todo).id]

\* A rule without an excuse is in one run at most, and its tickets are of dates before
\* its next one, but for one that its run has just opened or that was its only one.
OnceOK(r) ==
    r \notin excused =>
        /\ \A v, w \in Runners : Holding(run[v], r) /\ Holding(run[w], r) => v = w
        /\ \A d \in opened[r] :
              \/ d < rule[r].next
              \/ d = rule[r].next /\ \E w \in Runners : Opening(run[w], r)
              \/ /\ d = rule[r].next /\ EveryDays[r] = 0 /\ ~rule[r].active
                 /\ \A w \in Runners : ~Holding(run[w], r)

RuleIInv ==
    /\ RuleTypeOK
    /\ TwiceIsExplained
    /\ \A w \in Runners : RunOK(run[w])
    /\ \A r \in Rules : MayBeAt(r, rule[r].next) /\ OnceOK(r)

-----------------------------------------------------------------------------
(* The dates of a rule.                                                       *)

\* Two multiples of E are E apart at least.
LEMMA Multiples ==
    ASSUME NEW E \in Nat, E > 0, NEW x \in Int, NEW y \in Int, x % E = 0, y % E = 0,
           x <= y, y < x + E
    PROVE  y = x
<1>1. PICK p \in Int : x = E * p
  OBVIOUS
<1>2. PICK q \in Int : y = E * q
  OBVIOUS
<1>3. p < q + 1
  <2> SUFFICES ASSUME p >= q + 1 PROVE FALSE
    BY <1>1, <1>2
  <2>1. E * (p - (q + 1)) >= 0 /\ E * (p - (q + 1)) = E * p - E * q - E
    BY <1>1, <1>2
  <2> QED
    BY <1>1, <1>2, <2>1
<1>4. q < p + 1
  <2> SUFFICES ASSUME q >= p + 1 PROVE FALSE
    BY <1>1, <1>2
  <2>1. E * (q - (p + 1)) >= 0 /\ E * (q - (p + 1)) = E * q - E * p - E
    BY <1>1, <1>2
  <2> QED
    BY <1>1, <1>2, <2>1
<1>5. p = q
  BY <1>1, <1>2, <1>3, <1>4
<1> QED
  BY <1>1, <1>2, <1>5

LEMMA NextMultiple ==
    ASSUME NEW E \in Nat, E > 0, NEW x \in Int, x % E = 0
    PROVE  (x + E) % E = 0
<1>1. PICK p \in Int : x = E * p
  OBVIOUS
<1>2. x + E = E * (p + 1)
  BY <1>1
<1>3. \A k \in Int : (E * k) % E = 0
  BY Z3
<1> QED
  BY <1>1, <1>2, <1>3

LEMMA AdvanceType ==
    ASSUME NEW r \in Rules, NEW n \in Dates
    PROVE  /\ AdvanceDate(r, n) \in Dates
           /\ EveryDays[r] = 0 => AdvanceDate(r, n) = n
           /\ EveryDays[r] # 0 /\ n <= LastDay => n < AdvanceDate(r, n)
<1>1. EveryDays[r] \in Nat /\ LastDay \in Nat /\ n \in 0..(LastDay + 1)
  BY AutoOpenAssumption DEF Dates
<1> QED
  BY <1>1 DEF AdvanceDate, Dates

\* Tickets, failures and excuses are not forgotten.
Grows(r) == opened[r] \subseteq opened'[r] /\ failed[r] \subseteq failed'[r]

LEMMA MayStay ==
    ASSUME NEW r, NEW n, Grows(r), since'[r] = since[r], MayBeAt(r, n)
    PROVE  MayBeAt(r, n)'
  BY DEF Grows, MayBeAt, Grid

\* From one of its dates a rule moves on to the next one, once that date has its
\* ticket or its failure.
LEMMA MayAdvance ==
    ASSUME NEW r \in Rules, NEW n \in Dates, n <= LastDay, MayBeAt(r, n),
           RuleTypeOK, Grows(r), since'[r] = since[r], n \in opened'[r] \cup failed'[r]
    PROVE  MayBeAt(r, AdvanceDate(r, n))'
<1> DEFINE s == since[r]
           E == EveryDays[r]
           a == AdvanceDate(r, n)
<1>1. /\ E \in Nat /\ LastDay \in Nat /\ n \in Nat /\ s \in Nat
      /\ Dates = 0..(LastDay + 1) /\ a \in Dates
  BY AutoOpenAssumption, AdvanceType DEF Dates, RuleTypeOK
<1> SUFFICES ASSUME s <= LastDay + 1, E # 0
             PROVE  /\ s <= a
                    /\ a = LastDay + 1 \/ (a - s) % E = 0
                    /\ Grid(r, a)' \subseteq opened'[r] \cup failed'[r]
  BY DEF MayBeAt
<1>2. /\ s <= n /\ n < a /\ (n - s) % E = 0
      /\ Grid(r, n) \subseteq opened[r] \cup failed[r]
  BY <1>1, AdvanceType DEF MayBeAt
<1>3. a = LastDay + 1 \/ (a - s) % E = 0
  <2>1. a = LastDay + 1 \/ a = n + E
    BY DEF AdvanceDate
  <2>2. ((n - s) + E) % E = 0
    <3>1. PICK x \in Int : x = n - s
      BY <1>1
    <3>2. E > 0 /\ x % E = 0
      BY <1>1, <1>2, <3>1
    <3>3. (x + E) % E = 0
      BY <1>1, <3>2, NextMultiple
    <3> QED
      BY <3>1, <3>3
  <2>3. a = n + E => a - s = (n - s) + E
    BY <1>1
  <2> QED
    BY <2>1, <2>2, <2>3
<1>4. ASSUME NEW d \in Grid(r, a)' PROVE d \in opened'[r] \cup failed'[r]
  <2>1. d \in Dates /\ s <= d /\ d < a /\ (d - s) % E = 0
    BY <1>4 DEF Grid
  <2>2. CASE d < n
    BY <1>2, <2>1, <2>2 DEF Grid, Grows
  <2>3. CASE d >= n
    <3>1. a <= n + E
      BY <1>1 DEF AdvanceDate
    <3>n. n - s \in Int /\ d - s \in Int
      <4>1. n \in Int /\ s \in Int /\ d \in Int
        BY <1>1, <2>1 DEF Dates
      <4> HIDE DEF s
      <4> QED
        BY <4>1
    <3>2. PICK x \in Int, y \in Int : x = n - s /\ y = d - s
      <4> HIDE DEF s
      <4> QED
        BY <3>n
    <3>3. E > 0 /\ x % E = 0 /\ y % E = 0 /\ x <= y /\ y < x + E
      BY <1>1, <1>2, <2>1, <2>3, <3>1, <3>2
    <3>4. y = x
      BY <1>1, <3>3, Multiples
    <3> QED
      BY <1>1, <2>1, <3>2, <3>4
  <2> QED
    BY <1>1, <2>1, <2>2, <2>3
<1> QED
  BY <1>1, <1>2, <1>3, <1>4

\* A rule that is due has not come to the end of its dates.
LEMMA DueIsInTime ==
    ASSUME NEW r \in Rules, NEW n \in Dates, RuleTypeOK, DueAt(r, n) <= clock
    PROVE  n <= LastDay
<1>1. /\ SlotsPerDay \in Nat /\ SlotsPerDay > 0 /\ LastDay \in Nat /\ n \in Nat
      /\ SlotOf[r] \in Nat /\ clock \in Nat /\ clock <= (LastDay + 1) * SlotsPerDay - 1
  BY AutoOpenAssumption DEF RuleTypeOK, Dates
<1> SUFFICES ASSUME n >= LastDay + 1 PROVE FALSE
  BY <1>1
<1>2. (n - (LastDay + 1)) * SlotsPerDay >= 0
  BY <1>1
<1>3. (n - (LastDay + 1)) * SlotsPerDay = n * SlotsPerDay - (LastDay + 1) * SlotsPerDay
  BY <1>1
<1>4. n * SlotsPerDay + SlotOf[r] <= clock
  BY DEF DueAt
<1> DEFINE N == n * SlotsPerDay
           L == (LastDay + 1) * SlotsPerDay
<1>5. N \in Int /\ L \in Int /\ N - L >= 0 /\ N + SlotOf[r] <= clock /\ clock <= L - 1
  BY <1>1, <1>2, <1>3, <1>4
<1> HIDE DEF N, L
<1> QED
  BY <1>1, <1>5

-----------------------------------------------------------------------------
(* The runs.                                                                  *)

RunTyped(x) == x \in Run /\ (x.pc # "idle" => x.todo # << >>)

WorldTypes ==
    /\ clock \in 0..((LastDay + 1) * SlotsPerDay - 1)
    /\ rule \in [Rules -> RuleRow]
    /\ broken \subseteq Rules
    /\ opened \in [Rules -> SUBSET Dates] /\ failed \in [Rules -> SUBSET Dates]
    /\ twice \subseteq Rules /\ excused \subseteq Rules
    /\ since \in [Rules -> Dates \cup {LastDay + 2}]
    /\ used \in [faults: 0..MaxFaults, changes: 0..MaxChanges]

LEMMA RuleTypesSplit ==
    RuleTypeOK <=> /\ WorldTypes
                   /\ run \in [Runners -> Run]
                   /\ \A w \in Runners : RunTyped(run[w])
  BY DEF RuleTypeOK, WorldTypes, RunTyped

\* What is left of a sequence without its first element.
LEMMA TailOf ==
    ASSUME NEW S, NEW s \in Seq(S), s # << >>
    PROVE  /\ Tail(s) \in Seq(S)
           /\ \A i \in DOMAIN Tail(s) : i + 1 \in DOMAIN s /\ Tail(s)[i] = s[i + 1]
           /\ Len(s) # 1 => Tail(s) # << >>
<1>1. /\ Len(s) \in Nat /\ Len(s) > 0 /\ DOMAIN s = 1..Len(s)
      /\ Tail(s) \in Seq(S) /\ Len(Tail(s)) = Len(s) - 1
      /\ DOMAIN Tail(s) = 1..(Len(s) - 1)
  OBVIOUS
<1>2. ASSUME NEW i \in 1..(Len(s) - 1)
      PROVE  i + 1 \in 1..Len(s) /\ Tail(s)[i] = s[i + 1]
  BY <1>1
<1>3. Len(s) # 1 => Tail(s) # << >>
  <2> SUFFICES ASSUME Len(s) # 1 PROVE Len(Tail(s)) # 0
    OBVIOUS
  <2> QED
    BY <1>1
<1> QED
  BY <1>1, <1>2, <1>3

LEMMA ElementOf ==
    ASSUME NEW S, NEW s \in Seq(S), NEW i \in DOMAIN s PROVE s[i] \in S
  OBVIOUS

LEMMA ItemTyped ==
    ASSUME NEW s \in Seq(Snapshot), NEW i \in DOMAIN s
    PROVE  s[i] \in Snapshot /\ s[i].id \in Rules
<1>1. s[i] \in Snapshot
  OBVIOUS
<1> QED
  BY <1>1 DEF Snapshot

\* The rule a run is at.
LEMMA CurrentItem ==
    ASSUME NEW x, RunTyped(x), x.pc # "idle"
    PROVE  /\ 1 \in DOMAIN x.todo /\ Head(x.todo) = x.todo[1] /\ x.todo[1] \in Snapshot
           /\ Holding(x, x.todo[1].id)
<1>1. x.todo \in Seq(Snapshot) /\ x.todo # << >>
  BY DEF RunTyped, Run
<1>2. 1 \in DOMAIN x.todo /\ Head(x.todo) = x.todo[1] /\ x.todo[1] \in Snapshot
  BY <1>1
<1> QED
  BY <1>2 DEF Holding

\* A run has no more to do than before, and does it in the same order.
PartOf(x, y) ==
    \E k \in Nat : \A i \in DOMAIN x.todo :
        i + k \in DOMAIN y.todo /\ x.todo[i] = y.todo[i + k]

LEMMA PartHolds ==
    ASSUME NEW x, NEW y, PartOf(x, y), NEW r, Holding(x, r)
    PROVE  Holding(y, r)
  BY DEF PartOf, Holding

LEMMA NoRunTyped == RunTyped(NoRun) /\ NoRun.pc = "idle" /\ NoRun.todo = << >>
  BY DEF RunTyped, NoRun, Run

LEMMA NoRunIsPart == ASSUME NEW y PROVE PartOf(NoRun, y)
<1>1. 0 \in Nat /\ DOMAIN NoRun.todo = {}
  BY NoRunTyped
<1> QED
  BY <1>1 DEF PartOf

\* The run leaves the rule it is at.
LEMMA NextRuleMoves ==
    ASSUME RuleTypeOK, NEW w \in Runners, run[w].pc # "idle", NEW n \in Nat, NextRule(w, n)
    PROVE  \E x : /\ RunTyped(x) /\ run' = [run EXCEPT ![w] = x]
                  /\ x.pc \in {"idle", "rule"}
                  /\ \A i \in DOMAIN x.todo : /\ i + 1 \in DOMAIN run[w].todo
                                              /\ x.todo[i] = run[w].todo[i + 1]
<1>1. /\ run \in [Runners -> Run] /\ run[w].todo \in Seq(Snapshot)
      /\ run[w].todo # << >>
  BY RuleTypesSplit DEF RunTyped, Run
<1>2. CASE Len(run[w].todo) = 1 \/ n >= RunLimit[w]
  <2>1. run' = [run EXCEPT ![w] = NoRun]
    BY <1>1, <1>2 DEF NextRule
  <2>2. DOMAIN NoRun.todo = {}
    BY NoRunTyped
  <2> QED
    BY <2>1, <2>2, NoRunTyped
<1>3. CASE ~ (Len(run[w].todo) = 1 \/ n >= RunLimit[w])
  <2>1. PICK x : x = [pc |-> "rule", todo |-> Tail(run[w].todo), processed |-> n]
    OBVIOUS
  <2>2. run' = [run EXCEPT ![w] = x]
    BY <1>1, <1>3, <2>1 DEF NextRule
  <2>3. x.pc = "rule" /\ x.todo = Tail(run[w].todo) /\ x \in Run
    <3>1. Tail(run[w].todo) \in Seq(Snapshot)
      BY <1>1, TailOf
    <3>2. PICK t : t = Tail(run[w].todo)
      OBVIOUS
    <3> QED
      BY <1>1, <2>1, <3>1, <3>2 DEF Run
  <2>4. /\ Tail(run[w].todo) # << >>
        /\ \A i \in DOMAIN Tail(run[w].todo) :
              i + 1 \in DOMAIN run[w].todo /\ Tail(run[w].todo)[i] = run[w].todo[i + 1]
    BY <1>1, <1>3, TailOf
  <2> QED
    BY <2>2, <2>3, <2>4 DEF RunTyped
<1> QED
  BY <1>2, <1>3

-----------------------------------------------------------------------------
(* What is known of a run when the world around it changes.                   *)

LEMMA ItemStays ==
    ASSUME NEW c, ItemOK(c), Grows(c.id), since'[c.id] = since[c.id],
           excused \subseteq excused',
           c.id \notin excused' => rule'[c.id].next = rule[c.id].next
    PROVE  ItemOK(c)'
  BY MayStay DEF ItemOK

\* A run keeps a part of what it has to do.
LEMMA PartIsOK ==
    ASSUME NEW x, NEW y, RunTyped(x), RunTyped(y), PartOf(x, y), RunOK(y),
           \A i \in DOMAIN x.todo : ItemOK(x.todo[i]) => ItemOK(x.todo[i])',
           x.pc = "opened" => Head(x.todo).next \in opened'[Head(x.todo).id]
    PROVE  RunOK(x)'
<1>1. PICK k \in Nat : \A i \in DOMAIN x.todo :
                          i + k \in DOMAIN y.todo /\ x.todo[i] = y.todo[i + k]
  BY DEF PartOf
<1>2. DOMAIN x.todo \subseteq Nat
  BY DEF RunTyped, Run
<1>3. ASSUME NEW i \in DOMAIN x.todo, NEW j \in DOMAIN x.todo, x.todo[i].id = x.todo[j].id
      PROVE  i = j
  <2>1. i + k = j + k
    BY <1>1, <1>3 DEF RunOK
  <2> QED
    BY <1>2, <2>1
<1>4. ASSUME NEW i \in DOMAIN x.todo PROVE ItemOK(x.todo[i])'
  BY <1>1, <1>4 DEF RunOK
<1> QED
  BY <1>3, <1>4 DEF RunOK

\* One run changes, the others see no difference.
LEMMA OneRunChanges ==
    ASSUME RuleIInv, NEW w \in Runners, NEW x, RunTyped(x), RunOK(x)',
           run' = [run EXCEPT ![w] = x],
           \A r \in Rules : Grows(r), UNCHANGED since, excused \subseteq excused',
           \A v \in Runners : v # w =>
               \A i \in DOMAIN run[v].todo :
                   LET r == run[v].todo[i].id
                   IN  r \notin excused' => rule'[r].next = rule[r].next
    PROVE  /\ run' \in [Runners -> Run] /\ \A v \in Runners : RunTyped(run'[v])
           /\ (\A v \in Runners : RunOK(run[v]))'
           /\ \A v \in Runners : run'[v] = IF v = w THEN x ELSE run[v]
<1>1. run \in [Runners -> Run] /\ \A v \in Runners : RunTyped(run[v])
  BY RuleTypesSplit DEF RuleIInv
<1>2. \A v \in Runners : run'[v] = IF v = w THEN x ELSE run[v]
  BY <1>1
<1>3. run' \in [Runners -> Run] /\ \A v \in Runners : RunTyped(run'[v])
  BY <1>1, <1>2 DEF RunTyped
<1>4. ASSUME NEW v \in Runners PROVE RunOK(run[v])'
  <2>1. CASE v = w
    BY <1>2, <2>1 DEF RunOK
  <2>2. CASE v # w
    <3>1. PICK y : y = run[v] /\ run'[v] = y
      BY <1>2, <2>2
    <3>2. RunTyped(y) /\ RunOK(y) /\ y.todo \in Seq(Snapshot)
      BY <1>1, <3>1 DEF RuleIInv, RunTyped, Run
    <3>3. ASSUME NEW i \in DOMAIN y.todo PROVE ItemOK(y.todo[i])'
      <4>1. PICK c : c = y.todo[i]
        OBVIOUS
      <4>2. c \in Snapshot /\ c.id \in Rules
        BY <3>2, <4>1, ItemTyped
      <4>3. c.id \notin excused' => rule'[c.id].next = rule[c.id].next
        BY <2>2, <3>1, <4>1
      <4>4. ItemOK(c)
        BY <3>2, <4>1 DEF RunOK
      <4>5. ItemOK(c)'
        BY <4>2, <4>3, <4>4, ItemStays
      <4> QED
        BY <4>1, <4>5
    <3>4. y.pc = "opened" => Head(y.todo).next \in opened'[Head(y.todo).id]
      <4> HAVE y.pc = "opened"
      <4>1. Head(y.todo).id \in Rules
        BY <3>2, CurrentItem DEF Snapshot
      <4> QED
        BY <3>2, <4>1 DEF RunOK, Grows
    <3>5. RunOK(y)'
      BY <3>2, <3>3, <3>4 DEF RunOK
    <3> QED
      BY <3>1, <3>5 DEF RunOK
  <2> QED
    BY <2>1, <2>2
<1> QED
  BY <1>2, <1>3, <1>4

\* What is known of the tickets of a rule, when nothing of it is done.
LEMMA OnceStays ==
    ASSUME RuleIInv, NEW r \in Rules, opened'[r] = opened[r], rule'[r].next = rule[r].next,
           rule'[r].active => rule[r].active \/ EveryDays[r] # 0 \/ r \in excused',
           excused \subseteq excused',
           \A v \in Runners : Holding(run'[v], r) => Holding(run[v], r),
           \A v \in Runners : Opening(run[v], r) /\ r \notin excused' => Opening(run'[v], r)
    PROVE  OnceOK(r)'
<1> SUFFICES ASSUME r \notin excused'
             PROVE  /\ \A v, w \in Runners : Holding(run'[v], r) /\ Holding(run'[w], r) => v = w
                    /\ \A d \in opened'[r] :
                          \/ d < rule'[r].next
                          \/ d = rule'[r].next /\ \E w \in Runners : Opening(run'[w], r)
                          \/ /\ d = rule'[r].next /\ EveryDays[r] = 0 /\ ~rule'[r].active
                             /\ \A w \in Runners : ~Holding(run'[w], r)
  BY DEF OnceOK, Holding, Opening
<1>1. OnceOK(r) /\ r \notin excused
  BY DEF RuleIInv
<1>2. \A v, w \in Runners : Holding(run'[v], r) /\ Holding(run'[w], r) => v = w
  BY <1>1 DEF OnceOK
<1>3. ASSUME NEW d \in opened[r]
      PROVE  \/ d < rule'[r].next
             \/ d = rule'[r].next /\ \E w \in Runners : Opening(run'[w], r)
             \/ /\ d = rule'[r].next /\ EveryDays[r] = 0 /\ ~rule'[r].active
                /\ \A w \in Runners : ~Holding(run'[w], r)
  <2>1. CASE d < rule[r].next
    BY <2>1
  <2>2. CASE d = rule[r].next /\ \E w \in Runners : Opening(run[w], r)
    BY <2>2
  <2>3. CASE /\ d = rule[r].next /\ EveryDays[r] = 0 /\ ~rule[r].active
             /\ \A w \in Runners : ~Holding(run[w], r)
    BY <2>3
  <2> QED
    BY <1>1, <2>1, <2>2, <2>3 DEF OnceOK
<1> QED
  BY <1>2, <1>3

\* The parts make the invariant.
LEMMA RulesAssemble ==
    ASSUME RuleIInv, WorldTypes',
           run' \in [Runners -> Run], \A v \in Runners : RunTyped(run'[v]),
           TwiceIsExplained', (\A v \in Runners : RunOK(run[v]))',
           (\A r \in Rules : MayBeAt(r, rule[r].next))', (\A r \in Rules : OnceOK(r))'
    PROVE  RuleIInv'
<1>1. RuleTypeOK'
  BY DEF RuleTypeOK, WorldTypes, RunTyped
<1> QED
  BY <1>1 DEF RuleIInv

\* A run goes on or ends without a ticket, and nothing else changes.
LEMMA RunChanges ==
    ASSUME RuleIInv, WorldTypes', UNCHANGED <<rule, opened, failed, since, twice>>,
           excused \subseteq excused',
           NEW w \in Runners, NEW x, RunTyped(x), run' = [run EXCEPT ![w] = x],
           PartOf(x, run[w]), x.pc # "opened",
           \A r \in Rules : Opening(run[w], r) => r \in excused'
    PROVE  RuleIInv'
<1>0. \A r \in Rules : Grows(r)
  BY DEF Grows
<1>1. RunOK(x)'
  <2>1. PICK y : y = run[w]
    OBVIOUS
  <2>2. RunTyped(y) /\ RunOK(y) /\ PartOf(x, y)
    BY <2>1, RuleTypesSplit DEF RuleIInv
  <2>3. x.todo \in Seq(Snapshot)
    BY DEF RunTyped, Run
  <2>4. ASSUME NEW i \in DOMAIN x.todo, ItemOK(x.todo[i]) PROVE ItemOK(x.todo[i])'
    <3>1. PICK c : c = x.todo[i]
      OBVIOUS
    <3>2. c.id \in Rules
      BY <2>3, <3>1, ItemTyped
    <3>3. ItemOK(c)'
      BY <1>0, <2>4, <3>1, <3>2, ItemStays
    <3> QED
      BY <3>1, <3>3
  <2> QED
    BY <2>2, <2>4, PartIsOK
<1>2. /\ run' \in [Runners -> Run] /\ \A v \in Runners : RunTyped(run'[v])
      /\ (\A v \in Runners : RunOK(run[v]))'
      /\ \A v \in Runners : run'[v] = IF v = w THEN x ELSE run[v]
  BY <1>0, <1>1, OneRunChanges
<1>3. ASSUME NEW r \in Rules PROVE OnceOK(r)'
  <2>1. \A v \in Runners : Holding(run'[v], r) => Holding(run[v], r)
    BY <1>2, PartHolds
  <2>2. \A v \in Runners : Opening(run[v], r) /\ r \notin excused' => Opening(run'[v], r)
    BY <1>2
  <2> QED
    BY <2>1, <2>2, OnceStays
<1>4. (\A r \in Rules : MayBeAt(r, rule[r].next))'
  <2>1. ASSUME NEW r \in Rules PROVE MayBeAt(r, rule[r].next)'
    <3>1. PICK n : n = rule[r].next /\ n = rule'[r].next
      OBVIOUS
    <3>2. MayBeAt(r, n)
      BY <3>1 DEF RuleIInv
    <3>3. MayBeAt(r, n)'
      BY <1>0, <3>2, MayStay
    <3> QED
      BY <3>1, <3>3 DEF MayBeAt, Grid
  <2> QED
    BY <2>1
<1>5. TwiceIsExplained'
  BY DEF RuleIInv, TwiceIsExplained
<1> QED
  BY <1>2, <1>3, <1>4, <1>5, RulesAssemble

-----------------------------------------------------------------------------
(* The steps of the runs.                                                     *)

LEMMA SameTodo ==
    ASSUME NEW x, NEW y, RunTyped(y), x.todo = y.todo
    PROVE  PartOf(x, y)
<1>1. DOMAIN y.todo \subseteq Nat /\ \A i \in Nat : i + 0 = i
  BY DEF RunTyped, Run
<1>2. 0 \in Nat
  OBVIOUS
<1> QED
  BY <1>1, <1>2 DEF PartOf

LEMMA Labelled ==
    ASSUME RuleIInv, NEW w \in Runners, run[w].pc # "idle",
           NEW label \in {"rule", "opened", "failed"}
    PROVE  \E x : /\ x = [run[w] EXCEPT !.pc = label]
                  /\ RunTyped(x) /\ x.pc = label /\ x.todo = run[w].todo
                  /\ PartOf(x, run[w])
<1>1. RunTyped(run[w])
  BY RuleTypesSplit DEF RuleIInv
<1>2. PICK x : x = [run[w] EXCEPT !.pc = label]
  OBVIOUS
<1>3. RunTyped(x) /\ x.pc = label /\ x.todo = run[w].todo
  BY <1>1, <1>2 DEF RunTyped, Run
<1> QED
  BY <1>1, <1>2, <1>3, SameTodo

LEMMA UseTyped ==
    ASSUME RuleIInv, \/ used.faults < MaxFaults /\ Use("faults")
                     \/ used.changes < MaxChanges /\ Use("changes")
    PROVE  used' \in [faults: 0..MaxFaults, changes: 0..MaxChanges]
<1>1. used \in [faults: 0..MaxFaults, changes: 0..MaxChanges]
  BY RuleTypesSplit DEF RuleIInv, WorldTypes
<1>2. MaxFaults \in Nat /\ MaxChanges \in Nat
  BY AutoOpenAssumption
<1>3. CASE used.faults < MaxFaults /\ Use("faults")
  BY <1>1, <1>2, <1>3 DEF Use
<1>4. CASE used.changes < MaxChanges /\ Use("changes")
  BY <1>1, <1>2, <1>4 DEF Use
<1> QED
  BY <1>3, <1>4

LEMMA NextIsPart ==
    ASSUME RuleIInv, NEW w \in Runners, run[w].pc # "idle", NEW n \in Nat, NextRule(w, n)
    PROVE  \E x : /\ RunTyped(x) /\ run' = [run EXCEPT ![w] = x]
                  /\ x.pc \in {"idle", "rule"} /\ PartOf(x, run[w])
                  /\ \A i \in DOMAIN x.todo : /\ i + 1 \in DOMAIN run[w].todo
                                              /\ x.todo[i] = run[w].todo[i + 1]
<1>1. PICK x : /\ RunTyped(x) /\ run' = [run EXCEPT ![w] = x]
               /\ x.pc \in {"idle", "rule"}
               /\ \A i \in DOMAIN x.todo : /\ i + 1 \in DOMAIN run[w].todo
                                           /\ x.todo[i] = run[w].todo[i + 1]
  BY NextRuleMoves DEF RuleIInv
<1>2. PartOf(x, run[w])
  <2>1. 1 \in Nat
    OBVIOUS
  <2> QED
    BY <1>1, <2>1 DEF PartOf
<1> QED
  BY <1>1, <1>2

LEMMA RefusedAndFailedSteps ==
    ASSUME RuleIInv, NEW w \in Runners,
           \/ OpenIsRefused(w) \/ AdvanceFails(w)
           \/ OpenFails(w) /\ UNCHANGED <<opened, twice, excused>>
    PROVE  RuleIInv'
<1>1. run[w].pc # "idle" /\ run' = [run EXCEPT ![w].pc = "failed"]
  BY DEF OpenIsRefused, AdvanceFails, OpenFails
<1>2. PICK x : /\ x = [run[w] EXCEPT !.pc = "failed"]
               /\ RunTyped(x) /\ x.pc = "failed" /\ x.todo = run[w].todo
               /\ PartOf(x, run[w])
  BY <1>1, Labelled
<1>3. run' = [run EXCEPT ![w] = x]
  BY <1>1, <1>2
<1>4. /\ UNCHANGED <<clock, broken, rule, opened, failed, since, twice>>
      /\ excused \subseteq excused'
  BY DEF OpenIsRefused, AdvanceFails, OpenFails
<1>5. run[w].pc = "opened" => Current(w).id \in excused'
  BY DEF OpenIsRefused, AdvanceFails, OpenFails
<1>6. WorldTypes /\ RunTyped(run[w])
  BY RuleTypesSplit DEF RuleIInv
<1>7. excused' \subseteq Rules
  <2>1. excused' = excused \/ excused' = excused \cup {Current(w).id}
    BY DEF OpenIsRefused, AdvanceFails, OpenFails
  <2>2. Current(w).id \in Rules
    BY <1>1, <1>6, CurrentItem DEF Current, Snapshot
  <2> QED
    BY <1>6, <2>1, <2>2 DEF WorldTypes
<1>8. used' \in [faults: 0..MaxFaults, changes: 0..MaxChanges]
  <2>1. UNCHANGED used \/ (used.faults < MaxFaults /\ Use("faults"))
    BY DEF OpenIsRefused, AdvanceFails, OpenFails
  <2> QED
    BY <1>6, <2>1, UseTyped DEF WorldTypes
<1>9. WorldTypes'
  BY <1>4, <1>6, <1>7, <1>8 DEF WorldTypes
<1> QED
  BY <1>2, <1>3, <1>4, <1>5, <1>9, RunChanges DEF Opening, Current

LEMMA EndingSteps ==
    ASSUME RuleIInv, NEW w \in Runners, RegisterFails(w) \/ RunDies(w)
    PROVE  RuleIInv'
<1>1. /\ run[w].pc # "idle" /\ used.faults < MaxFaults /\ Use("faults")
      /\ UNCHANGED <<clock, broken, rule, opened, failed, since, twice>>
      /\ excused \subseteq excused'
  BY DEF RegisterFails, RunDies
<1>2. run[w].pc = "opened" => Current(w).id \in excused'
  BY DEF RegisterFails, RunDies
<1>3. WorldTypes /\ RunTyped(run[w])
  BY RuleTypesSplit DEF RuleIInv
<1>4. WorldTypes'
  <2>1. excused' \subseteq Rules
    <3>1. excused' = excused \/ excused' = excused \cup {Current(w).id}
      BY DEF RegisterFails, RunDies
    <3>2. Current(w).id \in Rules
      BY <1>1, <1>3, CurrentItem DEF Current, Snapshot
    <3> QED
      BY <1>3, <3>1, <3>2 DEF WorldTypes
  <2> QED
    BY <1>1, <1>3, <2>1, UseTyped DEF WorldTypes
<1>5. \E x : /\ RunTyped(x) /\ run' = [run EXCEPT ![w] = x]
             /\ x.pc \in {"idle", "rule"} /\ PartOf(x, run[w])
  <2>1. CASE RunDies(w)
    <3>1. PICK x : x = NoRun
      OBVIOUS
    <3>2. run' = [run EXCEPT ![w] = x]
      BY <2>1, <3>1 DEF RunDies
    <3> QED
      BY <3>1, <3>2, NoRunTyped, NoRunIsPart
  <2>2. CASE RegisterFails(w)
    <3>1. run[w].processed \in Nat
      BY <1>3 DEF RunTyped, Run
    <3> QED
      BY <1>1, <2>2, <3>1, NextIsPart DEF RegisterFails
  <2> QED
    BY <2>1, <2>2
<1> QED
  BY <1>1, <1>2, <1>4, <1>5, RunChanges DEF Opening, Current

LEMMA OpeningHolds ==
    ASSUME RuleIInv, NEW v \in Runners, NEW r, Opening(run[v], r)
    PROVE  Holding(run[v], r)
<1>1. RunTyped(run[v]) /\ run[v].pc = "opened" /\ Head(run[v].todo).id = r
  BY RuleTypesSplit DEF RuleIInv, Opening
<1> QED
  BY <1>1, CurrentItem

\* No date is moved and no rule gets two tickets for a date without an excuse.
LEMMA MayStayEverywhere ==
    ASSUME RuleIInv, \A r \in Rules : Grows(r), UNCHANGED <<rule, since>>
    PROVE  (\A r \in Rules : MayBeAt(r, rule[r].next))'
<1>1. ASSUME NEW r \in Rules PROVE MayBeAt(r, rule[r].next)'
  <2>1. PICK n : n = rule[r].next
    OBVIOUS
  <2>2. MayBeAt(r, n)'
    <3>1. MayBeAt(r, n)
      BY <2>1 DEF RuleIInv
    <3> QED
      BY <3>1, MayStay
  <2> QED
    BY <2>1, <2>2 DEF MayBeAt, Grid
<1> QED
  BY <1>1

LEMMA TicketIsMade ==
    ASSUME RuleIInv, NEW w \in Runners, run[w].pc = "rule", MakeTicket(w),
           UNCHANGED <<clock, rule, broken, failed, since>>,
           excused \subseteq excused', excused' \subseteq Rules,
           used' \in [faults: 0..MaxFaults, changes: 0..MaxChanges],
           NEW label \in {"opened", "failed"}, run' = [run EXCEPT ![w].pc = label],
           label = "failed" => Current(w).id \in excused'
    PROVE  RuleIInv'
<1>1. WorldTypes /\ RunTyped(run[w]) /\ RunOK(run[w])
  BY RuleTypesSplit DEF RuleIInv
<1>2. PICK x : /\ x = [run[w] EXCEPT !.pc = label]
               /\ RunTyped(x) /\ x.pc = label /\ x.todo = run[w].todo
               /\ PartOf(x, run[w])
  BY Labelled
<1>3. run' = [run EXCEPT ![w] = x]
  BY <1>2
<1>4. PICK c : /\ c = Current(w) /\ c = run[w].todo[1] /\ c = Head(x.todo)
               /\ c \in Snapshot /\ Holding(run[w], c.id) /\ 1 \in DOMAIN run[w].todo
  BY <1>1, <1>2, CurrentItem DEF Current
<1>5. PICK r0 \in Rules : r0 = c.id
  BY <1>4 DEF Snapshot
<1>6. /\ opened' = [opened EXCEPT ![r0] = @ \cup {c.next}]
      /\ twice' = twice \cup (IF c.next \in opened[r0] THEN {r0} ELSE {})
  BY <1>4, <1>5 DEF MakeTicket
<1>7. ItemOK(c) /\ c.next \in Dates
  BY <1>1, <1>4 DEF RunOK, Snapshot
<1>8. \A r \in Rules : /\ Grows(r)
                       /\ r # r0 => opened'[r] = opened[r]
                       /\ opened'[r] \subseteq Dates
  BY <1>1, <1>6, <1>7 DEF Grows, WorldTypes
<1>9. c.next \in opened'[r0] /\ opened'[r0] = opened[r0] \cup {c.next}
  BY <1>1, <1>6 DEF WorldTypes
<1>10. WorldTypes'
  <2>1. opened' \in [Rules -> SUBSET Dates]
    BY <1>1, <1>6, <1>7 DEF WorldTypes
  <2>2. twice' \subseteq Rules
    BY <1>1, <1>6 DEF WorldTypes
  <2> QED
    BY <1>1, <2>1, <2>2 DEF WorldTypes
<1>11. RunOK(x)'
  <2>1. PICK y : y = run[w]
    OBVIOUS
  <2>2. RunTyped(y) /\ RunOK(y) /\ PartOf(x, y)
    BY <1>1, <1>2, <2>1
  <2>3. ASSUME NEW i \in DOMAIN x.todo, ItemOK(x.todo[i]) PROVE ItemOK(x.todo[i])'
    <3>1. PICK e : e = x.todo[i]
      OBVIOUS
    <3>2. x.todo \in Seq(Snapshot)
      BY <1>2 DEF RunTyped, Run
    <3>3. e.id \in Rules
      BY <3>1, <3>2, ItemTyped
    <3>4. ItemOK(e)'
      BY <1>8, <2>3, <3>1, <3>3, ItemStays
    <3> QED
      BY <3>1, <3>4
  <2>4. x.pc = "opened" => Head(x.todo).next \in opened'[Head(x.todo).id]
    BY <1>4, <1>5, <1>9
  <2> QED
    BY <1>2, <2>2, <2>3, <2>4, PartIsOK
<1>12. /\ run' \in [Runners -> Run] /\ \A v \in Runners : RunTyped(run'[v])
       /\ (\A v \in Runners : RunOK(run[v]))'
       /\ \A v \in Runners : run'[v] = IF v = w THEN x ELSE run[v]
  BY <1>2, <1>3, <1>8, <1>11, OneRunChanges
<1>13. r0 \notin excused => /\ c.next = rule[r0].next
                            /\ \A v \in Runners : ~ Opening(run[v], r0)
  <2> SUFFICES ASSUME r0 \notin excused, NEW v \in Runners
               PROVE  c.next = rule[r0].next /\ ~ Opening(run[v], r0)
    BY <1>5, <1>7 DEF ItemOK
  <2>1. c.next = rule[r0].next
    BY <1>5, <1>7 DEF ItemOK
  <2>2. ASSUME Opening(run[v], r0) PROVE FALSE
    <3>1. Holding(run[v], r0) /\ Holding(run[w], r0)
      BY <1>4, <1>5, <2>2, OpeningHolds
    <3>2. v = w
      BY <3>1 DEF RuleIInv, OnceOK
    <3> QED
      BY <2>2, <3>2 DEF Opening
  <2> QED
    BY <2>1, <2>2
<1>14. TwiceIsExplained'
  <2>1. ASSUME c.next \in opened[r0], r0 \notin excused PROVE FALSE
    <3>1. OnceOK(r0) /\ rule[r0].next \in Nat
      BY <1>1 DEF RuleIInv, WorldTypes, RuleRow, Dates
    <3> QED
      BY <1>4, <1>5, <1>13, <2>1, <3>1 DEF OnceOK
  <2> QED
    BY <1>6, <2>1 DEF TwiceIsExplained, RuleIInv
<1>15. ASSUME NEW r \in Rules PROVE OnceOK(r)'
  <2>1. \A v \in Runners : Holding(run'[v], r) => Holding(run[v], r)
    BY <1>2, <1>12 DEF Holding
  <2>2. CASE r # r0
    <3>1. \A v \in Runners : Opening(run[v], r) => Opening(run'[v], r)
      BY <1>12 DEF Opening
    <3> QED
      BY <1>8, <2>1, <2>2, <3>1, OnceStays
  <2>3. CASE r = r0
    <3> SUFFICES ASSUME r0 \notin excused'
                 PROVE  /\ \A u, v \in Runners :
                              Holding(run'[u], r0) /\ Holding(run'[v], r0) => u = v
                        /\ \A d \in opened'[r0] :
                              d < rule[r0].next
                              \/ (d = rule[r0].next /\ \E v \in Runners : Opening(run'[v], r0))
      BY <2>3 DEF OnceOK, Holding, Opening
    <3>1. r0 \notin excused /\ OnceOK(r0)
      BY DEF RuleIInv
    <3>2. \A u, v \in Runners : Holding(run'[u], r0) /\ Holding(run'[v], r0) => u = v
      BY <2>1, <2>3, <3>1 DEF OnceOK
    <3>3. Opening(run'[w], r0)
      BY <1>2, <1>4, <1>5, <1>12 DEF Opening
    <3>4. \A d \in opened'[r0] : d < rule[r0].next \/ d = rule[r0].next
      BY <1>9, <1>13, <3>1 DEF OnceOK
    <3> QED
      BY <3>2, <3>3, <3>4
  <2> QED
    BY <2>2, <2>3
<1> QED
  BY <1>8, <1>10, <1>12, <1>14, <1>15, MayStayEverywhere, RulesAssemble

LEMMA OpeningSteps ==
    ASSUME RuleIInv, NEW w \in Runners,
           OpenTicket(w) \/ (OpenFails(w) /\ MakeTicket(w) /\ excused' = excused \cup {Current(w).id})
    PROVE  RuleIInv'
<1>1. WorldTypes /\ RunTyped(run[w]) /\ run[w].pc = "rule" /\ MakeTicket(w)
  BY RuleTypesSplit DEF RuleIInv, OpenTicket, OpenFails
<1>2. UNCHANGED <<clock, rule, broken, failed, since>>
  BY DEF OpenTicket, OpenFails
<1>3. CASE OpenTicket(w)
  <2>1. /\ run' = [run EXCEPT ![w].pc = "opened"] /\ UNCHANGED <<excused, used>>
        /\ excused' \subseteq Rules
        /\ used' \in [faults: 0..MaxFaults, changes: 0..MaxChanges]
    BY <1>1, <1>3 DEF OpenTicket, WorldTypes
  <2> QED
    BY <1>1, <1>2, <2>1, TicketIsMade
<1>4. CASE OpenFails(w) /\ excused' = excused \cup {Current(w).id}
  <2>1. Current(w).id \in Rules
    BY <1>1, CurrentItem DEF Current, Snapshot
  <2>2. excused' \subseteq Rules /\ Current(w).id \in excused' /\ excused \subseteq excused'
    BY <1>1, <1>4, <2>1 DEF WorldTypes
  <2>3. used' \in [faults: 0..MaxFaults, changes: 0..MaxChanges]
    BY <1>4, UseTyped DEF OpenFails
  <2>4. run' = [run EXCEPT ![w].pc = "failed"]
    BY <1>4 DEF OpenFails
  <2> QED
    BY <1>1, <1>2, <2>2, <2>3, <2>4, TicketIsMade
<1> QED
  BY <1>3, <1>4

\* Steps that leave rules and runs as they are.
LEMMA NothingMoves ==
    ASSUME RuleIInv, clock' \in 0..((LastDay + 1) * SlotsPerDay - 1),
           UNCHANGED <<rule, broken, run, opened, failed, twice, excused, since, used>>
    PROVE  RuleIInv'
<1>1. WorldTypes' /\ run' = run
  BY RuleTypesSplit DEF RuleIInv, WorldTypes
<1>2. /\ run' \in [Runners -> Run] /\ \A v \in Runners : RunTyped(run'[v])
  BY RuleTypesSplit DEF RuleIInv
<1>3. (\A v \in Runners : RunOK(run[v]))'
  BY DEF RuleIInv, RunOK, ItemOK, MayBeAt, Grid
<1>4. (\A r \in Rules : MayBeAt(r, rule[r].next))' /\ (\A r \in Rules : OnceOK(r))'
  BY DEF RuleIInv, MayBeAt, Grid, OnceOK, Holding, Opening
<1>5. TwiceIsExplained'
  BY DEF RuleIInv, TwiceIsExplained
<1> QED
  BY <1>1, <1>2, <1>3, <1>4, <1>5, RulesAssemble

\* What a query returns is a sequence of different rules.
LEMMA QueryIsSequence ==
    ASSUME NEW S \in SUBSET Rules, NEW q \in Queries(S), q # << >>
    PROVE  /\ \E n \in Nat : n # 0 /\ DOMAIN q = 1..n /\ q \in [1..n -> S]
           /\ \A i, j \in DOMAIN q : q[i] = q[j] => i = j
<1>1. IsFiniteSet(S) /\ Cardinality(S) \in Nat
  BY FS_Subset, FS_CardinalityType, AutoOpenAssumption
<1>2. /\ q \in [1..Cardinality(S) -> S]
      /\ \A i, j \in DOMAIN q : i # j => q[i] # q[j]
  BY DEF Queries
<1>3. Cardinality(S) # 0
  <2> SUFFICES ASSUME Cardinality(S) = 0 PROVE FALSE
    OBVIOUS
  <2>1. q \in Seq(S) /\ Len(q) = 0
    BY <1>1, <1>2
  <2> QED
    BY <2>1
<1> QED
  BY <1>1, <1>2, <1>3

LEMMA StartStep ==
    ASSUME RuleIInv, NEW w \in Runners, StartRun(w)
    PROVE  RuleIInv'
<1>1. /\ run[w].pc = "idle"
      /\ UNCHANGED <<clock, rule, broken, opened, failed, twice, since, used>>
  BY DEF StartRun
<1>2. PICK S \in SUBSET {r \in Rules : IsCandidate(r) /\ DueAt(r, rule[r].next) <= clock} :
      \E due \in Queries(S) :
         /\ due # << >>
         /\ run' = [run EXCEPT ![w] =
               [pc |-> "rule", processed |-> 0,
                todo |-> [i \in DOMAIN due |-> SnapshotOf(due[i])]]]
         /\ excused' = excused \cup (HeldByOther(w) \cap {due[i] : i \in DOMAIN due})
  <2>1. PICK first \in FirstOf(Take, {r \in Rules : IsCandidate(r)}) :
        \E due \in Queries({r \in first : DueAt(r, rule[r].next) <= clock}) :
         /\ due # << >>
         /\ run' = [run EXCEPT ![w] =
               [pc |-> "rule", processed |-> 0,
                todo |-> [i \in DOMAIN due |-> SnapshotOf(due[i])]]]
         /\ excused' = excused \cup (HeldByOther(w) \cap {due[i] : i \in DOMAIN due})
    BY DEF StartRun
  <2>2. PICK S : S = {r \in first : DueAt(r, rule[r].next) <= clock}
    OBVIOUS
  <2>3. first \subseteq {r \in Rules : IsCandidate(r)}
    BY DEF FirstOf
  <2> QED
    BY <2>1, <2>2, <2>3
<1>3. PICK due \in Queries(S) :
         /\ due # << >>
         /\ run' = [run EXCEPT ![w] =
               [pc |-> "rule", processed |-> 0,
                todo |-> [i \in DOMAIN due |-> SnapshotOf(due[i])]]]
         /\ excused' = excused \cup (HeldByOther(w) \cap {due[i] : i \in DOMAIN due})
  BY <1>2
<1>4. PICK n \in Nat : n # 0 /\ DOMAIN due = 1..n /\ due \in [1..n -> S]
  BY <1>2, <1>3, QueryIsSequence
<1>5. \A i, j \in DOMAIN due : due[i] = due[j] => i = j
  BY <1>2, <1>3, QueryIsSequence
<1>6. PICK x : x = [pc |-> "rule", processed |-> 0,
                    todo |-> [i \in DOMAIN due |-> SnapshotOf(due[i])]]
  OBVIOUS
<1>7. run' = [run EXCEPT ![w] = x]
  BY <1>3, <1>6
<1>8. WorldTypes /\ \A r \in S : r \in Rules /\ IsCandidate(r) /\ DueAt(r, rule[r].next) <= clock
  BY <1>2, RuleTypesSplit DEF RuleIInv
<1>9. /\ x.pc = "rule" /\ DOMAIN x.todo = 1..n
      /\ \A i \in 1..n : /\ x.todo[i].id = due[i] /\ due[i] \in S
                         /\ x.todo[i].next = rule[due[i]].next
                         /\ x.todo[i] \in Snapshot
  <2>1. ASSUME NEW i \in 1..n
        PROVE  x.todo[i] = SnapshotOf(due[i]) /\ due[i] \in S
    BY <1>4, <1>6
  <2>2. ASSUME NEW r \in S
        PROVE  /\ SnapshotOf(r).id = r /\ SnapshotOf(r).next = rule[r].next
               /\ SnapshotOf(r) \in Snapshot
    BY <1>8 DEF SnapshotOf, Snapshot, WorldTypes, RuleRow
  <2> QED
    BY <1>4, <1>6, <2>1, <2>2
<1>10. RunTyped(x)
  <2>1. x.todo \in [1..n -> Snapshot]
    BY <1>4, <1>6, <1>9
  <2>2. x.todo \in Seq(Snapshot) /\ Len(x.todo) = n
    BY <2>1
  <2>3. x.todo # << >>
    BY <1>4, <2>2
  <2> QED
    BY <1>6, <2>2, <2>3 DEF RunTyped, Run
<1>11. \A r \in Rules : Grows(r)
  BY <1>1 DEF Grows
<1>12. RunOK(x)'
  <2>1. ASSUME NEW i \in 1..n PROVE ItemOK(x.todo[i])'
    <3>0. PICK r \in Rules, d \in Dates : r = due[i] /\ d = rule[r].next
      <4>1. due[i] \in Rules /\ rule[due[i]].next \in Dates
        BY <1>8, <1>9 DEF WorldTypes, RuleRow
      <4> QED
        BY <4>1
    <3>1. PICK c : c = x.todo[i] /\ r = due[i] /\ d = rule[r].next
      BY <3>0
    <3>2. c.id = r /\ c.next = d /\ r \in S /\ DueAt(r, d) <= clock
      BY <1>8, <1>9, <3>1
    <3>3. d <= LastDay
      BY <3>2, DueIsInTime DEF RuleIInv
    <3>4. MayBeAt(r, d)
      BY <3>1 DEF RuleIInv
    <3>5. MayBeAt(r, d)'
      BY <1>1, <1>11, <3>4, MayStay
    <3>6. ItemOK(c)'
      BY <1>1, <3>1, <3>2, <3>3, <3>5 DEF ItemOK, MayBeAt, Grid
    <3> QED
      BY <3>1, <3>6
  <2>2. \A i, j \in DOMAIN x.todo : x.todo[i].id = x.todo[j].id => i = j
    BY <1>4, <1>5, <1>9
  <2> QED
    BY <1>9, <2>1, <2>2 DEF RunOK
<1>13. excused \subseteq excused' /\ excused' \subseteq Rules
  BY <1>3, <1>8 DEF HeldByOther, WorldTypes
<1>14. /\ run' \in [Runners -> Run] /\ \A v \in Runners : RunTyped(run'[v])
       /\ (\A v \in Runners : RunOK(run[v]))'
       /\ \A v \in Runners : run'[v] = IF v = w THEN x ELSE run[v]
  BY <1>1, <1>7, <1>10, <1>11, <1>12, <1>13, OneRunChanges
<1>15. ASSUME NEW r \in Rules, Holding(x, r)
       PROVE  /\ rule[r].active
              /\ \A v \in Runners : v # w /\ Holding(run[v], r) => r \in excused'
  <2>1. PICK i \in 1..n : due[i] = r
    BY <1>9, <1>15 DEF Holding
  <2>2. rule[r].active
    BY <1>8, <1>9, <2>1 DEF IsCandidate
  <2>3. \A v \in Runners : v # w /\ Holding(run[v], r) => r \in excused'
    BY <1>3, <1>4, <2>1 DEF HeldByOther, Holding
  <2> QED
    BY <2>2, <2>3
<1>16. ASSUME NEW r \in Rules PROVE OnceOK(r)'
  <2> SUFFICES ASSUME r \notin excused'
               PROVE  /\ \A u, v \in Runners : Holding(run'[u], r) /\ Holding(run'[v], r) => u = v
                      /\ \A d \in opened[r] :
                            \/ d < rule[r].next
                            \/ d = rule[r].next /\ \E v \in Runners : Opening(run'[v], r)
                            \/ /\ d = rule[r].next /\ EveryDays[r] = 0 /\ ~rule[r].active
                               /\ \A v \in Runners : ~Holding(run'[v], r)
    BY <1>1 DEF OnceOK, Holding, Opening
  <2>1. r \notin excused /\ OnceOK(r)
    BY <1>13 DEF RuleIInv
  <2>2. \A u, v \in Runners : Holding(run'[u], r) /\ Holding(run'[v], r) => u = v
    <3> SUFFICES ASSUME NEW u \in Runners, NEW v \in Runners,
                        Holding(run'[u], r), Holding(run'[v], r), u # v
                 PROVE  FALSE
      OBVIOUS
    <3>1. CASE u = w
      BY <1>14, <1>15, <3>1
    <3>2. CASE v = w
      BY <1>14, <1>15, <3>2
    <3>3. CASE u # w /\ v # w
      BY <1>14, <2>1, <3>3 DEF OnceOK
    <3> QED
      BY <3>1, <3>2, <3>3
  <2>3. ASSUME NEW v \in Runners, Opening(run[v], r) PROVE Opening(run'[v], r)
    BY <1>1, <1>14, <2>3 DEF Opening
  <2>4. ~rule[r].active => \A v \in Runners : Holding(run'[v], r) => Holding(run[v], r)
    BY <1>14, <1>15
  <2>5. \A d \in opened[r] :
            \/ d < rule[r].next
            \/ d = rule[r].next /\ \E v \in Runners : Opening(run'[v], r)
            \/ /\ d = rule[r].next /\ EveryDays[r] = 0 /\ ~rule[r].active
               /\ \A v \in Runners : ~Holding(run'[v], r)
    BY <2>1, <2>3, <2>4 DEF OnceOK
  <2> QED
    BY <2>2, <2>5
<1>17. WorldTypes'
  BY <1>1, <1>8, <1>13 DEF WorldTypes
<1>18. TwiceIsExplained'
  BY <1>1, <1>13 DEF RuleIInv, TwiceIsExplained
<1>19. (\A r \in Rules : MayBeAt(r, rule[r].next))'
  BY <1>1, <1>11, MayStayEverywhere
<1> QED
  BY <1>14, <1>16, <1>17, <1>18, <1>19, RulesAssemble

-----------------------------------------------------------------------------
(* The administrator's changes.                                               *)

\* A rule is switched on, off or removed.
LEMMA SwitchingSteps ==
    ASSUME RuleIInv, NEW r \in Rules, (\E active \in BOOLEAN : SetActive(r, active)) \/ RemoveRule(r)
    PROVE  RuleIInv'
<1>1. /\ UNCHANGED <<clock, broken, run, opened, failed, twice, since>>
      /\ used.changes < MaxChanges /\ Use("changes")
  BY DEF SetActive, RemoveRule
<1>2. WorldTypes /\ rule \in [Rules -> RuleRow]
  BY RuleTypesSplit DEF RuleIInv, WorldTypes
<1>3. PICK row \in RuleRow : rule' = [rule EXCEPT ![r] = row] /\ row.next = rule[r].next
  <2>1. CASE \E active \in BOOLEAN : SetActive(r, active)
    <3>1. PICK active \in BOOLEAN : rule' = [rule EXCEPT ![r].active = active]
      BY <2>1 DEF SetActive
    <3>2. PICK row : row = [rule[r] EXCEPT !.active = active]
      OBVIOUS
    <3>3. row \in RuleRow /\ row.next = rule[r].next
      BY <1>2, <3>2 DEF RuleRow
    <3> QED
      BY <3>1, <3>2, <3>3
  <2>2. CASE RemoveRule(r)
    <3>1. rule' = [rule EXCEPT ![r].deleted = TRUE, ![r].active = FALSE]
      BY <2>2 DEF RemoveRule
    <3>2. PICK row : row = [rule[r] EXCEPT !.deleted = TRUE, !.active = FALSE]
      OBVIOUS
    <3>3. row \in RuleRow /\ row.next = rule[r].next
      BY <1>2, <3>2 DEF RuleRow
    <3>4. rule' = [rule EXCEPT ![r] = row]
      BY <1>2, <3>1, <3>2
    <3> QED
      BY <3>3, <3>4
  <2> QED
    BY <2>1, <2>2
<1>4. /\ rule' \in [Rules -> RuleRow]
      /\ \A q \in Rules : rule'[q].next = rule[q].next
      /\ \A q \in Rules : q # r => rule'[q] = rule[q]
  BY <1>2, <1>3
<1>5. excused \subseteq excused' /\ excused' \subseteq Rules
  BY <1>2 DEF SetActive, RemoveRule, WorldTypes
<1>6. rule'[r].active => rule[r].active \/ EveryDays[r] # 0 \/ r \in excused'
  <2>1. ASSUME NEW active \in BOOLEAN, SetActive(r, active)
        PROVE  rule'[r].active => EveryDays[r] # 0 \/ r \in excused'
    <3>1. rule'[r].active = active
      BY <1>2, <2>1 DEF SetActive, RuleRow
    <3> QED
      BY <2>1, <3>1 DEF SetActive
  <2>2. ASSUME RemoveRule(r) PROVE ~rule'[r].active
    BY <1>2, <2>2 DEF RemoveRule, RuleRow
  <2> QED
    BY <2>1, <2>2
<1>7. WorldTypes'
  BY <1>1, <1>2, <1>4, <1>5, UseTyped DEF WorldTypes
<1>8. \A q \in Rules : OnceOK(q)'
  <2>1. ASSUME NEW q \in Rules PROVE OnceOK(q)'
    <3>1. \A v \in Runners : /\ Holding(run'[v], q) => Holding(run[v], q)
                             /\ Opening(run[v], q) => Opening(run'[v], q)
      BY <1>1
    <3>2. rule'[q].active => rule[q].active \/ EveryDays[q] # 0 \/ q \in excused'
      BY <1>4, <1>6
    <3> QED
      BY <1>1, <1>4, <1>5, <3>1, <3>2, OnceStays
  <2> QED
    BY <2>1
<1>9. (\A v \in Runners : RunOK(run[v]))'
  <2>1. ASSUME NEW v \in Runners PROVE RunOK(run[v])'
    <3>1. PICK y : y = run[v] /\ y = run'[v]
      BY <1>1
    <3>2. RunTyped(y) /\ RunOK(y) /\ y.todo \in Seq(Snapshot)
      BY <3>1, RuleTypesSplit DEF RuleIInv, RunTyped, Run
    <3>3. ASSUME NEW i \in DOMAIN y.todo PROVE ItemOK(y.todo[i])'
      <4>1. PICK c : c = y.todo[i]
        OBVIOUS
      <4>2. c.id \in Rules /\ ItemOK(c)
        BY <3>2, <4>1, ItemTyped DEF RunOK
      <4>3. ItemOK(c)'
        BY <1>1, <1>4, <1>5, <4>2, ItemStays DEF Grows
      <4> QED
        BY <4>1, <4>3
    <3>4. RunOK(y)'
      BY <1>1, <3>2, <3>3 DEF RunOK
    <3> QED
      BY <3>1, <3>4 DEF RunOK
  <2> QED
    BY <2>1
<1>10. (\A q \in Rules : MayBeAt(q, rule[q].next))'
  <2>1. ASSUME NEW q \in Rules PROVE MayBeAt(q, rule[q].next)'
    <3>1. MayBeAt(q, rule[q].next)
      BY DEF RuleIInv
    <3> QED
      BY <1>1, <1>4, <3>1 DEF MayBeAt, Grid
  <2> QED
    BY <2>1
<1>11. TwiceIsExplained'
  BY <1>1, <1>5 DEF RuleIInv, TwiceIsExplained
<1>12. run' \in [Runners -> Run] /\ \A v \in Runners : RunTyped(run'[v])
  BY <1>1, RuleTypesSplit DEF RuleIInv
<1> QED
  BY <1>7, <1>8, <1>9, <1>10, <1>11, <1>12, RulesAssemble

\* A rule that gets another date, and its runs that read the one before.
LEMMA UpdateStep ==
    ASSUME RuleIInv, NEW r \in Rules, NEW day \in Days, NEW active \in BOOLEAN,
           UpdateRule(r, day, active)
    PROVE  RuleIInv'
<1>1. /\ UNCHANGED <<clock, broken, run, opened, failed, twice>>
      /\ used.changes < MaxChanges /\ Use("changes")
      /\ excused' = excused \cup {r}
      /\ since' = [since EXCEPT ![r] = IF Held(r) THEN LastDay + 2 ELSE day]
      /\ rule' = [rule EXCEPT ![r].next = day, ![r].active = active]
  BY DEF UpdateRule
<1>2. WorldTypes /\ rule \in [Rules -> RuleRow] /\ LastDay \in Nat /\ day \in Dates
  BY RuleTypesSplit, AutoOpenAssumption DEF RuleIInv, WorldTypes, Days, Dates
<1>3. PICK row : row = [rule[r] EXCEPT !.next = day, !.active = active]
  OBVIOUS
<1>4. row \in RuleRow /\ row.next = day
  BY <1>2, <1>3 DEF RuleRow
<1>5. rule' = [rule EXCEPT ![r] = row]
  BY <1>1, <1>2, <1>3
<1>6. /\ rule' \in [Rules -> RuleRow] /\ rule'[r].next = day
      /\ \A q \in Rules : q # r => rule'[q] = rule[q] /\ since'[q] = since[q]
      /\ since'[r] = IF Held(r) THEN LastDay + 2 ELSE day
  BY <1>1, <1>2, <1>4, <1>5 DEF WorldTypes
<1>7. WorldTypes'
  <2>1. PICK s : s = IF Held(r) THEN LastDay + 2 ELSE day
    OBVIOUS
  <2>2. s \in Dates \cup {LastDay + 2} /\ since' = [since EXCEPT ![r] = s]
    BY <1>1, <1>2, <2>1
  <2>3. since' \in [Rules -> Dates \cup {LastDay + 2}]
    BY <1>2, <2>2 DEF WorldTypes
  <2> QED
    BY <1>1, <1>2, <1>6, <2>3, UseTyped DEF WorldTypes
<1>8. ASSUME NEW q \in Rules, q # r, NEW n, MayBeAt(q, n) PROVE MayBeAt(q, n)'
  <2>1. Grows(q)
    BY <1>1 DEF Grows
  <2> QED
    BY <1>6, <1>8, <2>1, MayStay
<1>9. Held(r) => \A n : MayBeAt(r, n)'
  BY <1>2, <1>6 DEF MayBeAt
<1>10. ~Held(r) => MayBeAt(r, day)'
  <2> HAVE ~Held(r)
  <2> DEFINE E == EveryDays[r]
  <2>1. E \in Nat /\ since'[r] = day /\ day \in Nat
    BY <1>2, <1>6, AutoOpenAssumption DEF Dates
  <2>2. E # 0 => (day - day) % E = 0
    <3>1. E # 0 => 0 % E = 0
      BY <2>1
    <3> QED
      BY <2>1, <3>1
  <2>3. Grid(r, day)' = {}
    BY <2>1 DEF Grid, Dates
  <2> QED
    BY <2>1, <2>2, <2>3 DEF MayBeAt
<1>11. (\A q \in Rules : MayBeAt(q, rule[q].next))'
  <2>1. ASSUME NEW q \in Rules PROVE MayBeAt(q, rule[q].next)'
    <3>1. CASE q # r
      <4>1. PICK n : n = rule[q].next /\ n = rule'[q].next
        BY <1>6, <3>1
      <4>2. MayBeAt(q, n)
        BY <4>1 DEF RuleIInv
      <4>3. MayBeAt(q, n)'
        BY <1>8, <3>1, <4>2
      <4> QED
        BY <4>1, <4>3 DEF MayBeAt, Grid
    <3>2. CASE q = r
      BY <1>6, <1>9, <1>10, <3>2 DEF MayBeAt, Grid
    <3> QED
      BY <3>1, <3>2
  <2> QED
    BY <2>1
<1>12. (\A v \in Runners : RunOK(run[v]))'
  <2>1. ASSUME NEW v \in Runners PROVE RunOK(run[v])'
    <3>1. PICK y : y = run[v] /\ y = run'[v]
      BY <1>1
    <3>2. RunTyped(y) /\ RunOK(y) /\ y.todo \in Seq(Snapshot)
      BY <3>1, RuleTypesSplit DEF RuleIInv, RunTyped, Run
    <3>3. ASSUME NEW i \in DOMAIN y.todo PROVE ItemOK(y.todo[i])'
      <4>1. PICK c : c = y.todo[i]
        OBVIOUS
      <4>2. c.id \in Rules /\ ItemOK(c)
        BY <3>2, <4>1, ItemTyped DEF RunOK
      <4>3. ASSUME c.id = r PROVE ItemOK(c)'
        <5>1. Held(r)
          BY <3>1, <4>1, <4>3 DEF Held
        <5>2. MayBeAt(c.id, c.next)'
          BY <1>9, <4>3, <5>1 DEF MayBeAt, Grid
        <5> QED
          BY <1>1, <4>2, <4>3, <5>2 DEF ItemOK
      <4>4. ASSUME c.id # r PROVE ItemOK(c)'
        BY <1>1, <1>6, <4>2, <4>4, ItemStays DEF Grows
      <4>5. ItemOK(c)'
        BY <4>3, <4>4
      <4> QED
        BY <4>1, <4>5
    <3>4. RunOK(y)'
      BY <1>1, <3>2, <3>3 DEF RunOK
    <3> QED
      BY <3>1, <3>4 DEF RunOK
  <2> QED
    BY <2>1
<1>13. \A q \in Rules : OnceOK(q)'
  <2>1. ASSUME NEW q \in Rules PROVE OnceOK(q)'
    <3>1. CASE q # r
      BY <1>1, <1>6, <3>1, OnceStays
    <3>2. CASE q = r
      BY <1>1, <3>2 DEF OnceOK
    <3> QED
      BY <3>1, <3>2
  <2> QED
    BY <2>1
<1>14. TwiceIsExplained'
  BY <1>1 DEF RuleIInv, TwiceIsExplained
<1>15. run' \in [Runners -> Run] /\ \A v \in Runners : RunTyped(run'[v])
  BY <1>1, RuleTypesSplit DEF RuleIInv
<1> QED
  BY <1>7, <1>11, <1>12, <1>13, <1>14, <1>15, RulesAssemble

-----------------------------------------------------------------------------
(* The steps that write a rule back.                                          *)

\* A run writes the row of the rule it is at and goes on: the rule may be at its new
\* date, and its tickets are of dates before that one, or it is off for good.
LEMMA RowIsWritten ==
    ASSUME RuleIInv, NEW w \in Runners, run[w].pc # "idle", NEW n \in Nat, NextRule(w, n),
           NEW r \in Rules, r = Current(w).id, NEW row \in RuleRow,
           rule' = [rule EXCEPT ![r] = row],
           UNCHANGED <<clock, broken, opened, twice, excused, since, used>>,
           \A q \in Rules : Grows(q), failed' \in [Rules -> SUBSET Dates],
           MayBeAt(r, row.next)',
           r \notin excused =>
               \A d \in opened[r] : \/ d < row.next
                                    \/ d = row.next /\ EveryDays[r] = 0 /\ ~row.active
    PROVE  RuleIInv'
<1>1. WorldTypes /\ RunTyped(run[w]) /\ RunOK(run[w])
  BY RuleTypesSplit DEF RuleIInv
<1>2. PICK x : /\ RunTyped(x) /\ run' = [run EXCEPT ![w] = x]
               /\ x.pc \in {"idle", "rule"} /\ PartOf(x, run[w])
               /\ \A i \in DOMAIN x.todo : /\ i + 1 \in DOMAIN run[w].todo
                                           /\ x.todo[i] = run[w].todo[i + 1]
  BY NextIsPart
<1>3. r = run[w].todo[1].id /\ 1 \in DOMAIN run[w].todo /\ Holding(run[w], r)
  BY <1>1, CurrentItem DEF Current
<1>4. /\ rule' \in [Rules -> RuleRow] /\ rule'[r] = row
      /\ \A q \in Rules : q # r => rule'[q] = rule[q]
  BY <1>1 DEF WorldTypes
<1>5. ~Holding(x, r)
  <2> SUFFICES ASSUME NEW i \in DOMAIN x.todo, x.todo[i].id = r PROVE FALSE
    BY DEF Holding
  <2>1. i + 1 \in DOMAIN run[w].todo /\ run[w].todo[i + 1].id = run[w].todo[1].id
    BY <1>2, <1>3
  <2>2. i + 1 = 1
    BY <1>1, <1>3, <2>1 DEF RunOK
  <2>3. i \in Nat /\ i > 0
    BY <1>2 DEF RunTyped, Run
  <2> QED
    BY <2>2, <2>3
<1>6. ASSUME NEW v \in Runners, v # w, Holding(run[v], r) PROVE r \in excused
  BY <1>3, <1>6 DEF RuleIInv, OnceOK
<1>7. RunOK(x)'
  <2>1. PICK y : y = run[w]
    OBVIOUS
  <2>2. RunTyped(y) /\ RunOK(y) /\ PartOf(x, y)
    BY <1>1, <1>2, <2>1
  <2>3. ASSUME NEW i \in DOMAIN x.todo, ItemOK(x.todo[i]) PROVE ItemOK(x.todo[i])'
    <3>1. PICK e : e = x.todo[i]
      OBVIOUS
    <3>2. x.todo \in Seq(Snapshot)
      BY <1>2 DEF RunTyped, Run
    <3>3. e.id \in Rules /\ e.id # r
      BY <1>5, <3>1, <3>2, ItemTyped DEF Holding
    <3>4. ItemOK(e)'
      BY <1>4, <2>3, <3>1, <3>3, ItemStays
    <3> QED
      BY <3>1, <3>4
  <2> QED
    BY <1>2, <2>2, <2>3, PartIsOK
<1>8. ASSUME NEW v \in Runners, v # w, NEW i \in DOMAIN run[v].todo,
             run[v].todo[i].id \notin excused'
      PROVE  rule'[run[v].todo[i].id].next = rule[run[v].todo[i].id].next
  <2>1. RunTyped(run[v]) /\ run[v].todo \in Seq(Snapshot)
    BY RuleTypesSplit DEF RuleIInv, RunTyped, Run
  <2>2. run[v].todo[i].id \in Rules
    BY <2>1, ItemTyped
  <2>3. run[v].todo[i].id # r
    BY <1>6, <1>8 DEF Holding
  <2> QED
    BY <1>4, <2>2, <2>3
<1>9. /\ run' \in [Runners -> Run] /\ \A v \in Runners : RunTyped(run'[v])
      /\ (\A v \in Runners : RunOK(run[v]))'
      /\ \A v \in Runners : run'[v] = IF v = w THEN x ELSE run[v]
  BY <1>2, <1>7, <1>8, OneRunChanges
<1>10. WorldTypes'
  BY <1>1, <1>4 DEF WorldTypes
<1>11. (\A q \in Rules : MayBeAt(q, rule[q].next))'
  <2>1. ASSUME NEW q \in Rules PROVE MayBeAt(q, rule[q].next)'
    <3>1. CASE q # r
      <4>1. PICK m : m = rule[q].next /\ m = rule'[q].next
        BY <1>4, <3>1
      <4>2. MayBeAt(q, m)
        BY <4>1 DEF RuleIInv
      <4>3. MayBeAt(q, m)'
        BY <4>2, MayStay
      <4> QED
        BY <4>1, <4>3 DEF MayBeAt, Grid
    <3>2. CASE q = r
      BY <1>4, <3>2 DEF MayBeAt, Grid
    <3> QED
      BY <3>1, <3>2
  <2> QED
    BY <2>1
<1>12. (\A q \in Rules : OnceOK(q))'
  <2>1. ASSUME NEW q \in Rules PROVE OnceOK(q)'
    <3>0. \A v \in Runners : Holding(run'[v], q) => Holding(run[v], q)
      BY <1>2, <1>9, PartHolds
    <3>1. CASE q # r
      <4>1. \A v \in Runners : Opening(run[v], q) => Opening(run'[v], q)
        <5>1. ~Opening(run[w], q)
          BY <3>1 DEF Opening, Current
        <5> QED
          BY <1>9, <5>1
      <4> QED
        BY <1>4, <3>0, <3>1, <4>1, OnceStays
    <3>2. CASE q = r
      <4> SUFFICES ASSUME r \notin excused
                   PROVE  /\ \A u, v \in Runners : Holding(run'[u], r) /\ Holding(run'[v], r) => u = v
                          /\ \A d \in opened[r] :
                                \/ d < row.next
                                \/ /\ d = row.next /\ EveryDays[r] = 0 /\ ~row.active
                                   /\ \A v \in Runners : ~Holding(run'[v], r)
        BY <1>4, <3>2 DEF OnceOK, Holding, Opening
      <4>1. \A v \in Runners : ~Holding(run'[v], r)
        BY <1>5, <1>6, <1>9
      <4> QED
        BY <4>1
    <3> QED
      BY <3>1, <3>2
  <2> QED
    BY <2>1
<1>13. TwiceIsExplained'
  BY DEF RuleIInv, TwiceIsExplained
<1> QED
  BY <1>9, <1>10, <1>11, <1>12, <1>13, RulesAssemble

\* What a run that is past the ticket knows of a rule without an excuse.
LEMMA HeldRule ==
    ASSUME RuleIInv, NEW w \in Runners, run[w].pc # "idle", NEW c, c = Current(w)
    PROVE  /\ c \in Snapshot /\ c.id \in Rules /\ c.next \in Dates /\ c.next <= LastDay
           /\ MayBeAt(c.id, c.next)
           /\ run[w].pc = "opened" => c.next \in opened[c.id]
           /\ c.id \notin excused =>
                 /\ c.next = rule[c.id].next
                 /\ \A d \in opened[c.id] :
                       d < c.next \/ (d = c.next /\ run[w].pc = "opened")
<1>1. /\ WorldTypes /\ RunTyped(run[w]) /\ RunOK(run[w])
  BY RuleTypesSplit DEF RuleIInv
<1>2. /\ c = run[w].todo[1] /\ 1 \in DOMAIN run[w].todo /\ c \in Snapshot
      /\ c = Head(run[w].todo) /\ Holding(run[w], c.id)
  BY <1>1, CurrentItem DEF Current
<1>3. ItemOK(c) /\ c.id \in Rules /\ c.next \in Dates
  BY <1>1, <1>2 DEF RunOK, Snapshot
<1>4. ASSUME c.id \notin excused, NEW d \in opened[c.id]
      PROVE  d < c.next \/ (d = c.next /\ run[w].pc = "opened")
  <2>1. OnceOK(c.id) /\ c.next = rule[c.id].next
    BY <1>3, <1>4 DEF RuleIInv, ItemOK
  <2>2. ASSUME NEW v \in Runners, Opening(run[v], c.id) PROVE run[w].pc = "opened"
    <3>1. Holding(run[v], c.id)
      BY <2>2, OpeningHolds
    <3>2. v = w
      BY <1>2, <1>4, <2>1, <3>1 DEF OnceOK
    <3> QED
      BY <2>2, <3>2 DEF Opening
  <2> QED
    BY <1>2, <1>4, <2>1, <2>2 DEF OnceOK
<1> QED
  BY <1>1, <1>2, <1>3, <1>4 DEF RunOK, ItemOK

LEMMA AdvanceStep ==
    ASSUME RuleIInv, NEW w \in Runners, AdvanceRule(w)
    PROVE  RuleIInv'
<1>1. /\ run[w].pc = "opened"
      /\ UNCHANGED <<clock, broken, opened, failed, twice, excused, since, used>>
      /\ NextRule(w, run[w].processed + 1)
  BY DEF AdvanceRule
<1>2. PICK c : c = Current(w)
  OBVIOUS
<1>3. /\ c \in Snapshot /\ c.id \in Rules /\ c.next \in Dates /\ c.next <= LastDay
      /\ MayBeAt(c.id, c.next) /\ c.next \in opened[c.id]
      /\ c.id \notin excused =>
            /\ c.next = rule[c.id].next
            /\ \A d \in opened[c.id] : d < c.next \/ d = c.next
  BY <1>1, <1>2, HeldRule
<1>4. WorldTypes /\ RunTyped(run[w]) /\ rule[c.id] \in RuleRow
  BY <1>3, RuleTypesSplit DEF RuleIInv, WorldTypes
<1>5. PICK row : row = AfterTicket(rule[c.id], c)
  OBVIOUS
<1>6. rule' = [rule EXCEPT ![c.id] = row]
  BY <1>2, <1>4, <1>5 DEF AdvanceRule, WorldTypes
<1>7. AdvanceDate(c.id, c.next) \in Dates
  BY <1>3, AdvanceType
<1>8. row \in RuleRow
  BY <1>4, <1>5, <1>7 DEF AfterTicket, RuleRow
<1>9. \A q \in Rules : Grows(q)
  BY <1>1 DEF Grows
<1>10. MayBeAt(c.id, row.next)'
  <2>1. CASE EveryDays[c.id] = 0
    BY <2>1 DEF MayBeAt
  <2>2. CASE EveryDays[c.id] # 0
    <3>1. row.next = AdvanceDate(c.id, c.next)
      BY <1>4, <1>5, <2>2 DEF AfterTicket, RuleRow
    <3>2. MayBeAt(c.id, AdvanceDate(c.id, c.next))'
      BY <1>1, <1>3, <1>9, MayAdvance DEF RuleIInv
    <3> QED
      BY <3>1, <3>2
  <2> QED
    BY <2>1, <2>2
<1>11. ASSUME c.id \notin excused, NEW d \in opened[c.id]
       PROVE  d < row.next \/ (d = row.next /\ EveryDays[c.id] = 0 /\ ~row.active)
  <2>1. d \in Nat /\ c.next \in Nat
    BY <1>3, <1>4 DEF WorldTypes, Dates
  <2>2. CASE EveryDays[c.id] = 0
    <3>1. row.next = rule[c.id].next /\ ~row.active
      BY <1>4, <1>5, <2>2 DEF AfterTicket, RuleRow
    <3> QED
      BY <1>3, <1>11, <2>2, <3>1
  <2>3. CASE EveryDays[c.id] # 0
    <3>1. row.next = AdvanceDate(c.id, c.next)
      BY <1>4, <1>5, <2>3 DEF AfterTicket, RuleRow
    <3>2. c.next < row.next /\ row.next \in Nat
      BY <1>3, <1>7, <2>3, <3>1, AdvanceType DEF Dates
    <3> QED
      BY <1>3, <1>11, <2>1, <3>2
  <2> QED
    BY <2>2, <2>3
<1>12. run[w].processed + 1 \in Nat /\ failed' \in [Rules -> SUBSET Dates] /\ run[w].pc # "idle"
  BY <1>1, <1>4 DEF RunTyped, Run, WorldTypes
<1>13. PICK n \in Nat : NextRule(w, n)
  BY <1>1, <1>12
<1>14. PICK r \in Rules : r = Current(w).id /\ r = c.id
  BY <1>2, <1>3
<1> QED
  BY <1>1, <1>6, <1>8, <1>9, <1>10, <1>11, <1>12, <1>13, <1>14, RowIsWritten DEF MayBeAt, Grid

LEMMA RegisterStep ==
    ASSUME RuleIInv, NEW w \in Runners, RegisterRuleFailure(w)
    PROVE  RuleIInv'
<1>1. /\ run[w].pc = "failed"
      /\ UNCHANGED <<clock, broken, opened, twice, excused, since, used>>
      /\ NextRule(w, run[w].processed)
  BY DEF RegisterRuleFailure
<1>2. PICK c : c = Current(w)
  OBVIOUS
<1>3. /\ c \in Snapshot /\ c.id \in Rules /\ c.next \in Dates /\ c.next <= LastDay
      /\ MayBeAt(c.id, c.next)
      /\ c.id \notin excused =>
            /\ c.next = rule[c.id].next
            /\ \A d \in opened[c.id] : d < c.next
  BY <1>1, <1>2, HeldRule
<1>4. WorldTypes /\ RunTyped(run[w]) /\ rule[c.id] \in RuleRow /\ c.failures \in Nat
  BY <1>3, RuleTypesSplit DEF RuleIInv, WorldTypes, Snapshot
<1>5. PICK row : row = AfterFailure(rule[c.id], c)
  OBVIOUS
<1>6. /\ rule' = [rule EXCEPT ![c.id] = row]
      /\ failed' = [failed EXCEPT ![c.id] = @ \cup {c.next}]
  BY <1>2, <1>4, <1>5 DEF RegisterRuleFailure, WorldTypes
<1>7. AdvanceDate(c.id, c.next) \in Dates
  BY <1>3, AdvanceType
<1>8. /\ row \in RuleRow
      /\ row.next = rule[c.id].next \/ row.next = AdvanceDate(c.id, c.next)
  <2>1. PICK m \in Dates, k \in Nat, old \in RuleRow :
           m = AdvanceDate(c.id, c.next) /\ k = c.failures + 1 /\ old = rule[c.id]
    BY <1>4, <1>7
  <2>2. CASE c.failures + 1 >= MaxFailures
    <3>1. row = [old EXCEPT !.active = FALSE, !.failures = k]
      BY <1>5, <2>1, <2>2 DEF AfterFailure
    <3>2. row \in RuleRow /\ row.next = old.next
      BY <2>1, <3>1 DEF RuleRow
    <3> QED
      BY <2>1, <3>2
  <2>3. CASE ~ (c.failures + 1 >= MaxFailures)
    <3>1. row = [old EXCEPT !.next = m, !.failures = k]
      BY <1>5, <2>1, <2>3 DEF AfterFailure
    <3>2. row \in RuleRow /\ row.next = m
      BY <2>1, <3>1 DEF RuleRow
    <3> QED
      BY <2>1, <3>2
  <2> QED
    BY <2>2, <2>3
<1>9. /\ \A q \in Rules : Grows(q)
      /\ failed' \in [Rules -> SUBSET Dates] /\ c.next \in failed'[c.id]
  BY <1>1, <1>3, <1>4, <1>6 DEF Grows, WorldTypes
<1>10. MayBeAt(c.id, row.next)'
  <2>1. CASE row.next = rule[c.id].next
    <3>1. MayBeAt(c.id, row.next)
      BY <1>3, <2>1 DEF RuleIInv
    <3> QED
      BY <1>1, <1>3, <1>9, <3>1, MayStay
  <2>2. CASE row.next = AdvanceDate(c.id, c.next)
    <3>1. MayBeAt(c.id, AdvanceDate(c.id, c.next))'
      BY <1>1, <1>3, <1>9, MayAdvance DEF RuleIInv
    <3> QED
      BY <2>2, <3>1
  <2> QED
    BY <1>8, <2>1, <2>2
<1>11. ASSUME c.id \notin excused, NEW d \in opened[c.id] PROVE d < row.next
  <2>1. d \in Nat /\ c.next \in Nat /\ d < c.next
    BY <1>3, <1>4, <1>11 DEF WorldTypes, Dates
  <2>2. c.next <= AdvanceDate(c.id, c.next) /\ AdvanceDate(c.id, c.next) \in Nat
    BY <1>3, <1>7, <2>1, AdvanceType DEF Dates
  <2> QED
    BY <1>3, <1>8, <1>11, <2>1, <2>2
<1>12. run[w].processed \in Nat /\ run[w].pc # "idle"
  BY <1>1, <1>4 DEF RunTyped, Run
<1>13. PICK n \in Nat : NextRule(w, n)
  BY <1>1, <1>12
<1>14. PICK r \in Rules : r = Current(w).id /\ r = c.id
  BY <1>2, <1>3
<1> QED
  BY <1>1, <1>6, <1>8, <1>9, <1>10, <1>11, <1>12, <1>13, <1>14, RowIsWritten DEF MayBeAt, Grid

-----------------------------------------------------------------------------
(* What holds of the rules.                                                   *)

LEMMA RuleInvariantHoldsAtFirst ==
    ASSUME RuleInit PROVE RuleIInv
<1>1. WorldTypes
  <2>1. (LastDay + 1) * SlotsPerDay - 1 \in Nat
    <3>1. SlotsPerDay \in Nat /\ SlotsPerDay >= 1 /\ LastDay \in Nat
      BY AutoOpenAssumption
    <3>2. LastDay * SlotsPerDay >= 0 /\ LastDay * SlotsPerDay \in Int
      BY <3>1
    <3>3. (LastDay + 1) * SlotsPerDay = LastDay * SlotsPerDay + SlotsPerDay
      BY <3>1
    <3> QED
      BY <3>1, <3>2, <3>3
  <2>2. clock \in 0..((LastDay + 1) * SlotsPerDay - 1)
    BY <2>1 DEF RuleInit
  <2>3. 0 \in Dates /\ MaxFaults \in Nat /\ MaxChanges \in Nat
    BY AutoOpenAssumption DEF Dates
  <2> QED
    BY <2>2, <2>3 DEF RuleInit, WorldTypes, RuleRow
<1>2. run \in [Runners -> Run] /\ \A w \in Runners : run[w] = NoRun /\ RunTyped(run[w])
  BY NoRunTyped DEF RuleInit, RunTyped
<1>3. RuleTypeOK
  BY <1>1, <1>2, RuleTypesSplit
<1>4. \A w \in Runners : RunOK(run[w])
  <2>1. DOMAIN NoRun.todo = {} /\ NoRun.pc = "idle"
    BY NoRunTyped
  <2> QED
    BY <1>2, <2>1 DEF RunOK
<1>5. ASSUME NEW r \in Rules PROVE MayBeAt(r, rule[r].next) /\ OnceOK(r)
  <2>1. rule[r].next = 0 /\ since[r] = 0 /\ opened[r] = {} /\ EveryDays[r] \in Nat
    BY AutoOpenAssumption DEF RuleInit
  <2>2. MayBeAt(r, 0)
    <3>1. Grid(r, 0) = {} /\ since[r] <= 0
      BY <2>1 DEF Grid, Dates
    <3>2. EveryDays[r] # 0 => 0 % EveryDays[r] = 0
      BY <2>1
    <3>3. 0 - since[r] = 0
      BY <2>1
    <3> QED
      BY <3>1, <3>2, <3>3 DEF MayBeAt
  <2>3. \A w \in Runners : ~Holding(run[w], r)
    <3>1. DOMAIN NoRun.todo = {}
      BY NoRunTyped
    <3> QED
      BY <1>2, <3>1 DEF Holding
  <2> QED
    BY <2>1, <2>2, <2>3 DEF OnceOK
<1>6. TwiceIsExplained
  BY DEF RuleInit, TwiceIsExplained
<1> QED
  BY <1>3, <1>4, <1>5, <1>6 DEF RuleIInv

LEMMA RuleInvariantIsKept ==
    ASSUME RuleIInv, RuleNext PROVE RuleIInv'
<1>1. CASE TimePasses
  <2>1. clock' \in 0..((LastDay + 1) * SlotsPerDay - 1)
    <3>1. PICK L : L = (LastDay + 1) * SlotsPerDay - 1 /\ L \in Int
      BY AutoOpenAssumption
    <3>2. clock \in 0..L /\ clock < L /\ clock' = clock + 1
      BY <1>1, <3>1, RuleTypesSplit DEF RuleIInv, WorldTypes, TimePasses
    <3>3. clock' \in 0..L
      BY <3>1, <3>2
    <3> QED
      BY <3>1, <3>3
  <2>2. UNCHANGED <<rule, broken, run, opened, failed, twice, excused, since, used>>
    BY <1>1 DEF TimePasses
  <2> QED
    BY <2>1, <2>2, NothingMoves
<1>2. ASSUME NEW w \in Runners, StartRun(w) PROVE RuleIInv'
  BY <1>2, StartStep
<1>3. ASSUME NEW w \in Runners, RunStep(w) PROVE RuleIInv'
  BY <1>3, OpeningSteps, RefusedAndFailedSteps, AdvanceStep, RegisterStep DEF RunStep
<1>4. ASSUME NEW w \in Runners, OpenFails(w) PROVE RuleIInv'
  <2>1. \/ UNCHANGED <<opened, twice, excused>>
        \/ MakeTicket(w) /\ excused' = excused \cup {Current(w).id}
    BY <1>4 DEF OpenFails
  <2> QED
    BY <1>4, <2>1, OpeningSteps, RefusedAndFailedSteps
<1>5. ASSUME NEW w \in Runners, AdvanceFails(w) PROVE RuleIInv'
  BY <1>5, RefusedAndFailedSteps
<1>6. ASSUME NEW w \in Runners, RegisterFails(w) \/ RunDies(w) PROVE RuleIInv'
  BY <1>6, EndingSteps
<1>7. ASSUME NEW r \in Rules, NEW day \in Days, NEW active \in BOOLEAN,
             UpdateRule(r, day, active)
      PROVE  RuleIInv'
  BY <1>7, UpdateStep
<1>8. ASSUME NEW r \in Rules, (\E active \in BOOLEAN : SetActive(r, active)) \/ RemoveRule(r)
      PROVE  RuleIInv'
  BY <1>8, SwitchingSteps
<1> QED
  BY <1>1, <1>2, <1>3, <1>4, <1>5, <1>6, <1>7, <1>8 DEF RuleNext

RulesSpec == RuleInit /\ [][RuleNext]_ruleVars

LEMMA RuleInvariant == RulesSpec => []RuleIInv
<1>1. RuleInit => RuleIInv
  BY RuleInvariantHoldsAtFirst
<1>2. RuleIInv /\ [RuleNext]_ruleVars => RuleIInv'
  <2> SUFFICES ASSUME RuleIInv, [RuleNext]_ruleVars PROVE RuleIInv'
    OBVIOUS
  <2>1. CASE RuleNext
    BY <2>1, RuleInvariantIsKept
  <2>2. CASE UNCHANGED ruleVars
    <3>1. UNCHANGED <<clock, rule, broken, run, opened, failed, twice, excused, since, used>>
      BY <2>2 DEF ruleVars
    <3>2. clock' \in 0..((LastDay + 1) * SlotsPerDay - 1)
      BY <3>1, RuleTypesSplit DEF RuleIInv, WorldTypes
    <3> QED
      BY <3>1, <3>2, NothingMoves
  <2> QED
    BY <2>1, <2>2
<1> QED
  BY <1>1, <1>2, PTL DEF RulesSpec

\* Whatever runs overlap, fail or die, and whatever administrators change meanwhile, every
\* row, run and date is of its type: a run past its end never goes on.
THEOREM RuleTypes == RulesSpec => []RuleTypeOK
<1>1. RuleIInv => RuleTypeOK
  BY DEF RuleIInv
<1> QED
  BY <1>1, RuleInvariant, PTL

\* A rule moves past none of its dates without a ticket or a recorded failure, and a date
\* gets two tickets only with a cause: for any rules, runs and limits.
THEOREM DatesAreKept == RulesSpec => []EveryDateOnce
<1>1. RuleIInv => EveryDateOnce
  <2> SUFFICES ASSUME RuleIInv PROVE EveryDateOnce
    OBVIOUS
  <2>1. ASSUME NEW r \in Rules, NEW d \in DatesBefore(r) PROVE d \in opened[r] \cup failed[r]
    <3>1. d \in Grid(r, rule[r].next) /\ EveryDays[r] # 0
      BY <2>1 DEF DatesBefore, Grid
    <3>2. since[r] <= LastDay + 1
      <4>1. LastDay \in Nat /\ d \in Dates /\ since[r] <= d
        BY <2>1, AutoOpenAssumption DEF DatesBefore
      <4>2. since[r] \in Dates \cup {LastDay + 2}
        BY DEF RuleIInv, RuleTypeOK
      <4> QED
        BY <4>1, <4>2 DEF Dates
    <3> QED
      BY <3>1, <3>2 DEF RuleIInv, MayBeAt
  <2> QED
    BY <2>1 DEF RuleIInv, EveryDateOnce, NoDateIsSkipped
<1> QED
  BY <1>1, RuleInvariant, PTL

-----------------------------------------------------------------------------
(* The invariant of the tickets and of the rule for idle ones.                *)

\* A call is about a ticket that is there, and knows when it was created; it moves only
\* one that it had read open.
CallOK(c) ==
    /\ c.pc # "idle" => ticket[c.of].exists
    /\ c.pc \in {"stage", "update"} =>
          c.seen.exists /\ c.seen.created = ticket[c.of].created
    /\ c.pc = "stage" => c.dto.stage \in Stages /\ ~c.seen.closed

\* The idle rule is at work on the ticket.
ActsOn(t) == job.pc = "act" /\ Head(job.todo).of = t

\* What the rule has acted on it has recorded since the ticket entered any stage, unless
\* it is still at work or something went wrong.
RecordedOK(t) ==
    t \in acted \ explained /\ ~ActsOn(t) =>
        /\ lastRun[t] >= ticket[t].created
        /\ \A s \in Stages : lastRun[t] >= entered[t][s]

TicketIInv ==
    /\ TicketTypeOK
    /\ ActedAgainIsExplained
    /\ \A p \in Callers : CallOK(call[p])
    /\ \A i \in DOMAIN job.todo : ticket[job.todo[i].of].exists
    /\ \A t \in acted : ticket[t].exists
    /\ \A t \in TicketIds : /\ ticket[t].created <= now
                            /\ \A s \in Stages : entered[t][s] <= now
                            /\ RecordedOK(t)

LEMMA TicketConstants ==
    /\ NoDto \in Dto /\ NoTicket \in Row /\ NoCall \in Call /\ NoCall.pc = "idle"
    /\ NoJob \in JobRun /\ NoJob.pc = "idle" /\ NoJob.todo = << >>
    /\ Len(IdleActions) \in Nat
<1>1. (CHOOSE t \in TicketIds : TRUE) \in TicketIds
  BY TicketsAssumption
<1>2. Len(IdleActions) \in Nat
  BY ActionsAssumption
<1>3. NoDto \in Dto
  BY DEF NoDto, Dto
<1>4. NoTicket \in Row
  BY TicketsAssumption DEF NoTicket, Row, Times
<1>5. NoCall \in Call /\ NoCall.pc = "idle"
  BY <1>1, <1>3, <1>4 DEF NoCall, Call
<1>6. NoJob \in JobRun /\ NoJob.pc = "idle" /\ NoJob.todo = << >>
  BY <1>2 DEF NoJob, JobRun
<1> QED
  BY <1>2, <1>3, <1>4, <1>5, <1>6

LEMMA SpendTyped ==
    ASSUME TicketTypeOK, Spend PROVE spent' \in 0..MaxSpent
  BY TicketsAssumption DEF TicketTypeOK, Spend

LEMMA CandidateTyped ==
    ASSUME NEW s \in Seq(Candidate), NEW i \in DOMAIN s
    PROVE  s[i] \in Candidate /\ s[i].of \in TicketIds
<1>1. s[i] \in Candidate
  OBVIOUS
<1> QED
  BY <1>1 DEF Candidate

\* The candidate the job is at.
LEMMA JobIsAt ==
    ASSUME TicketTypeOK, job.pc # "idle"
    PROVE  /\ 1 \in DOMAIN job.todo /\ Head(job.todo) = job.todo[1]
           /\ Head(job.todo) \in Candidate /\ Head(job.todo).of \in TicketIds
<1>1. job.todo \in Seq(Candidate) /\ job.todo # << >>
  BY DEF TicketTypeOK, JobRun
<1>2. 1 \in DOMAIN job.todo /\ Head(job.todo) = job.todo[1] /\ job.todo[1] \in Candidate
  BY <1>1
<1> QED
  BY <1>2 DEF Candidate

\* The job leaves the candidate it is at.
LEMMA JobGoesOn ==
    ASSUME TicketTypeOK, job.pc # "idle", NextCandidate
    PROVE  /\ job' \in JobRun /\ job'.pc \in {"idle", "check"}
           /\ job'.pc # "idle" => job'.todo # << >>
           /\ \A i \in DOMAIN job'.todo : /\ i + 1 \in DOMAIN job.todo
                                          /\ job'.todo[i] = job.todo[i + 1]
<1>1. job.todo \in Seq(Candidate) /\ job.todo # << >>
  BY DEF TicketTypeOK, JobRun
<1>2. CASE Len(job.todo) = 1
  <2>1. job' = NoJob /\ DOMAIN NoJob.todo = {}
    BY <1>2, TicketConstants DEF NextCandidate
  <2> QED
    BY <2>1, TicketConstants
<1>3. CASE Len(job.todo) # 1
  <2>1. PICK rest : rest = Tail(job.todo)
    OBVIOUS
  <2>2. job' = [pc |-> "check", action |-> 1, todo |-> rest]
    BY <1>3, <2>1 DEF NextCandidate
  <2>3. /\ rest \in Seq(Candidate) /\ rest # << >>
        /\ \A i \in DOMAIN rest : i + 1 \in DOMAIN job.todo /\ rest[i] = job.todo[i + 1]
    BY <1>1, <1>3, <2>1, TailOf
  <2> QED
    BY <2>2, <2>3, TicketConstants DEF JobRun
<1> QED
  BY <1>2, <1>3

\* One call changes, the tickets do not.
LEMMA OneCallChanges ==
    ASSUME TicketIInv, NEW p \in Callers, NEW c \in Call, call' = [call EXCEPT ![p] = c],
           UNCHANGED ticket, CallOK(c)
    PROVE  /\ call' \in [Callers -> Call] /\ call'[p] = c
           /\ \A q \in Callers : q # p => call'[q] = call[q]
           /\ (\A q \in Callers : CallOK(call[q]))'
<1>1. /\ call \in [Callers -> Call]
      /\ \A q \in Callers : CallOK(call[q])
  BY DEF TicketIInv, TicketTypeOK
<1>2. /\ call' \in [Callers -> Call] /\ call'[p] = c
      /\ \A q \in Callers : q # p => call'[q] = call[q]
  BY <1>1
<1>3. ASSUME NEW q \in Callers PROVE CallOK(call'[q])
  BY <1>1, <1>2
<1> QED
  BY <1>2, <1>3 DEF CallOK

LEMMA RecordStays ==
    ASSUME NEW t, RecordedOK(t), ticket'[t].created = ticket[t].created, lastRun'[t] = lastRun[t],
           entered'[t] = entered[t],
           t \in acted' \ explained' => t \in acted \ explained,
           t \notin explained' /\ ActsOn(t) => ActsOn(t)'
    PROVE  RecordedOK(t)'
  BY DEF RecordedOK

-----------------------------------------------------------------------------
(* The steps of the calls.                                                    *)

\* A call writes the row of its ticket.
LEMMA RowOfTicketIsWritten ==
    ASSUME TicketIInv, NEW p \in Callers, call[p].pc # "idle", NEW t \in TicketIds,
           t = call[p].of, NEW new \in Row, new.exists, new.created = ticket[t].created,
           WriteRow(t, new), call' = [call EXCEPT ![p].pc = "event"],
           UNCHANGED <<now, entered, lastRun, job, again, explained, spent>>
    PROVE  TicketIInv'
<1>1. TicketTypeOK /\ call \in [Callers -> Call] /\ call[p] \in Call
  BY DEF TicketIInv, TicketTypeOK
<1>2. /\ ticket' \in [TicketIds -> Row] /\ ticket'[t] = new
      /\ \A u \in TicketIds : u # t => ticket'[u] = ticket[u]
      /\ acted' \subseteq acted
  BY <1>1 DEF WriteRow, TicketTypeOK
<1>3. PICK c : c = [call[p] EXCEPT !.pc = "event"]
  OBVIOUS
<1>4. c \in Call /\ c.pc = "event" /\ c.of = t
  BY <1>1, <1>3 DEF Call
<1>5. call' = [call EXCEPT ![p] = c]
  BY <1>1, <1>3
<1>6. /\ call' \in [Callers -> Call] /\ call'[p] = c
      /\ \A q \in Callers : q # p => call'[q] = call[q]
  BY <1>1, <1>4, <1>5
<1>7. ticket[t].exists
  BY DEF TicketIInv, CallOK
<1>8. \A u \in TicketIds : /\ ticket[u].exists => ticket'[u].exists
                           /\ ticket'[u].created = ticket[u].created
  BY <1>2, <1>7
<1>9. TicketTypeOK'
  <2>1. call'[Job].pc # "idle" => job'.pc = "act"
    BY <1>6, <1>1 DEF TicketTypeOK, Callers
  <2> QED
    BY <1>1, <1>2, <1>6, <2>1 DEF TicketTypeOK
<1>10. (\A q \in Callers : CallOK(call[q]))'
  <2>1. ASSUME NEW q \in Callers PROVE CallOK(call[q])'
    <3>1. CASE q = p
      BY <1>2, <1>4, <1>6, <3>1 DEF CallOK
    <3>2. CASE q # p
      <4>1. call'[q] = call[q] /\ CallOK(call[q]) /\ call[q].of \in TicketIds
        BY <1>1, <1>6, <3>2 DEF TicketIInv, Call
      <4> QED
        BY <1>8, <4>1 DEF CallOK
    <3> QED
      BY <3>1, <3>2
  <2> QED
    BY <2>1
<1>11. \A i \in DOMAIN job'.todo : ticket'[job'.todo[i].of].exists
  <2>1. job.todo \in Seq(Candidate) /\ job' = job
    BY <1>1 DEF TicketTypeOK, JobRun
  <2>2. \A i \in DOMAIN job.todo : job.todo[i].of \in TicketIds
    BY <2>1, CandidateTyped
  <2> QED
    BY <1>8, <2>1, <2>2 DEF TicketIInv
<1>12. \A u \in acted' : ticket'[u].exists
  BY <1>1, <1>2, <1>8 DEF TicketIInv, TicketTypeOK
<1>13. ASSUME NEW u \in TicketIds PROVE RecordedOK(u)'
  <2>1. ActsOn(u) => ActsOn(u)'
    BY DEF ActsOn
  <2> QED
    BY <1>2, <1>8, <2>1, RecordStays DEF TicketIInv
<1>14. \A u \in TicketIds : /\ ticket'[u].created <= now'
                            /\ \A s \in Stages : entered'[u][s] <= now'
  BY <1>8 DEF TicketIInv
<1>15. ActedAgainIsExplained'
  BY DEF TicketIInv, ActedAgainIsExplained
<1> QED
  BY <1>9, <1>10, <1>11, <1>12, <1>13, <1>14, <1>15 DEF TicketIInv

\* A call changes and the tickets, the history and the rule do not.
LEMMA OnlyACallChanges ==
    ASSUME TicketIInv, NEW p \in Callers, NEW c \in Call, call' = [call EXCEPT ![p] = c],
           p = Job /\ c.pc # "idle" => call[p].pc # "idle", CallOK(c),
           UNCHANGED <<now, ticket, entered, lastRun, job, acted, again, explained>>,
           spent' \in 0..MaxSpent
    PROVE  TicketIInv'
<1>1. /\ call' \in [Callers -> Call] /\ call'[p] = c
      /\ \A q \in Callers : q # p => call'[q] = call[q]
      /\ (\A q \in Callers : CallOK(call[q]))'
  BY OneCallChanges
<1>2. TicketTypeOK'
  <2>1. call'[Job].pc # "idle" => job'.pc = "act"
    BY <1>1 DEF TicketIInv, TicketTypeOK, Callers
  <2> QED
    BY <1>1, <2>1 DEF TicketIInv, TicketTypeOK
<1>3. ASSUME NEW t \in TicketIds PROVE RecordedOK(t)'
  BY RecordStays DEF TicketIInv, ActsOn
<1> QED
  BY <1>1, <1>2, <1>3 DEF TicketIInv, ActedAgainIsExplained

LEMMA WriteStageStep ==
    ASSUME TicketIInv, NEW p \in Callers, WriteStage(p)
    PROVE  TicketIInv'
<1>1. PICK c \in Call : c = call[p]
  BY DEF TicketIInv, TicketTypeOK
<1>2. c.pc = "stage" /\ CallOK(c) /\ c.of \in TicketIds
  BY <1>1 DEF WriteStage, TicketIInv, Call
<1>3. UNCHANGED <<now, entered, lastRun, job, again, explained, spent>>
  BY DEF WriteStage
<1>4. CASE call' = [call EXCEPT ![p] = NoCall] /\ UNCHANGED <<ticket, acted>>
  <2>1. CallOK(NoCall) /\ NoCall \in Call
    BY TicketConstants DEF CallOK
  <2>2. spent' \in 0..MaxSpent
    BY <1>3 DEF TicketIInv, TicketTypeOK
  <2>3. PICK n \in Call : n = NoCall /\ CallOK(n)
    BY <2>1
  <2>4. call' = [call EXCEPT ![p] = n]
    BY <1>4, <2>3
  <2> QED
    BY <1>1, <1>2, <1>3, <1>4, <2>2, <2>3, <2>4, TicketConstants, OnlyACallChanges
<1>5. CASE /\ WriteRow(c.of, [ticket[c.of] EXCEPT !.stage = c.dto.stage,
                                 !.closed = c.dto.stage \in LastStages, !.updated = now])
           /\ call' = [call EXCEPT ![p].pc = "event"]
  <2>1. PICK old \in Row : old = ticket[c.of]
    BY <1>2 DEF TicketIInv, TicketTypeOK
  <2>0. PICK closes \in BOOLEAN : closes = (c.dto.stage \in LastStages)
    <3>1. (c.dto.stage \in LastStages) \in BOOLEAN
      OBVIOUS
    <3> QED
      BY <3>1
  <2>2. PICK new : new = [old EXCEPT !.stage = c.dto.stage, !.closed = closes, !.updated = now]
    OBVIOUS
  <2>3. c.dto.stage \in Stages /\ now \in Times /\ old.exists
    BY <1>2, <2>1 DEF CallOK, TicketIInv, TicketTypeOK
  <2>4. new \in Row /\ new.exists /\ new.created = old.created
    BY <2>2, <2>3 DEF Row
  <2>5. WriteRow(c.of, new)
    BY <1>5, <2>0, <2>1, <2>2
  <2> QED
    BY <1>1, <1>2, <1>3, <1>5, <2>1, <2>4, <2>5, RowOfTicketIsWritten
<1> QED
  BY <1>1, <1>4, <1>5 DEF WriteStage

LEMMA NewStageTyped ==
    ASSUME NEW c \in Call PROVE NewStage(c) \in Stages
<1>1. c.dto.stage \in Stages \cup {Keep} /\ c.seen.stage \in Stages /\ Novo \in Stages
  BY TicketsAssumption DEF Call, Dto, Row
<1> QED
  BY <1>1 DEF NewStage, Given

LEMMA WriteUpdateStep ==
    ASSUME TicketIInv, NEW p \in Callers, WriteUpdate(p)
    PROVE  TicketIInv'
<1>1. PICK c \in Call : c = call[p]
  BY DEF TicketIInv, TicketTypeOK
<1>2. c.pc = "update" /\ CallOK(c) /\ c.of \in TicketIds /\ c.dto \in Dto /\ c.seen \in Row
  BY <1>1 DEF WriteUpdate, TicketIInv, Call
<1>3. UNCHANGED <<now, entered, lastRun, job, again, explained, spent>>
  BY DEF WriteUpdate
<1>4. PICK stage, closed, responsible :
         /\ stage = NewStage(c) /\ closed = Given(c.dto.closed, c.seen.closed)
         /\ responsible = Given(c.dto.responsible, c.seen.responsible)
  OBVIOUS
<1>5. stage \in Stages
  BY <1>4, NewStageTyped
<1>6. closed \in BOOLEAN
  BY <1>2, <1>4 DEF Given, Dto, Row
<1>7. responsible \in Responsibles \cup {Nobody}
  BY <1>2, <1>4 DEF Given, Dto, Row
<1>8. PICK new : new = [c.seen EXCEPT !.stage = stage, !.closed = closed,
                           !.responsible = responsible, !.updated = now]
  OBVIOUS
<1>9. WriteRow(c.of, new) /\ call' = [call EXCEPT ![p].pc = "event"]
  BY <1>1, <1>2, <1>4, <1>8 DEF WriteUpdate
<1>10. now \in Times /\ c.seen.exists /\ c.seen.created = ticket[c.of].created
  BY <1>2 DEF CallOK, TicketIInv, TicketTypeOK
<1>11. new \in Row /\ new.exists /\ new.created = c.seen.created
  BY <1>2, <1>5, <1>6, <1>7, <1>8, <1>10 DEF Row
<1> QED
  BY <1>1, <1>2, <1>3, <1>9, <1>10, <1>11, RowOfTicketIsWritten

\* What a call becomes after its event.
LEMMA AfterEventTyped ==
    ASSUME TicketIInv, NEW p \in Callers, call[p].pc = "event", call' = AfterEvent(p)
    PROVE  \E c \in Call : /\ call' = [call EXCEPT ![p] = c] /\ CallOK(c)
                           /\ p = Job => c.pc = "idle"
<1>1. PICK old \in Call : old = call[p] /\ CallOK(old) /\ call \in [Callers -> Call]
  BY DEF TicketIInv, TicketTypeOK
<1>2. CASE p # Job /\ call[p].kind = "stage"
  <2>1. PICK c : c = [old EXCEPT !.pc = "automation"]
    OBVIOUS
  <2>2. c \in Call /\ c.pc = "automation" /\ c.of = old.of
    BY <1>1, <2>1 DEF Call
  <2>3. call' = [call EXCEPT ![p] = c]
    BY <1>1, <1>2, <2>1 DEF AfterEvent
  <2>4. CallOK(c)
    BY <1>1, <2>2 DEF CallOK
  <2> QED
    BY <1>2, <2>2, <2>3, <2>4
<1>3. CASE ~(p # Job /\ call[p].kind = "stage")
  <2>1. call' = [call EXCEPT ![p] = NoCall]
    BY <1>3 DEF AfterEvent
  <2>2. NoCall \in Call /\ NoCall.pc = "idle" /\ CallOK(NoCall)
    BY TicketConstants DEF CallOK
  <2> QED
    BY <2>1, <2>2
<1> QED
  BY <1>2, <1>3

LEMMA EventIsLostStep ==
    ASSUME TicketIInv, NEW p \in Callers, EventIsLost(p)
    PROVE  TicketIInv'
<1>1. /\ call[p].pc = "event" /\ call' = AfterEvent(p) /\ Spend
      /\ UNCHANGED <<now, ticket, entered, lastRun, job, acted, again, explained>>
  BY DEF EventIsLost
<1>2. PICK c \in Call : /\ call' = [call EXCEPT ![p] = c] /\ CallOK(c)
                        /\ p = Job => c.pc = "idle"
  BY <1>1, AfterEventTyped
<1>3. spent' \in 0..MaxSpent
  BY <1>1, SpendTyped DEF TicketIInv
<1> QED
  BY <1>1, <1>2, <1>3, OnlyACallChanges

LEMMA RecordEventStep ==
    ASSUME TicketIInv, NEW p \in Callers, RecordEvent(p)
    PROVE  TicketIInv'
<1>1. /\ call[p].pc = "event" /\ call' = AfterEvent(p)
      /\ UNCHANGED <<now, ticket, lastRun, job, acted, again, spent>>
  BY DEF RecordEvent
<1>2. PICK c \in Call : /\ call' = [call EXCEPT ![p] = c] /\ CallOK(c)
                        /\ p = Job => c.pc = "idle"
  BY <1>1, AfterEventTyped
<1>3. /\ call' \in [Callers -> Call] /\ call'[p] = c
      /\ \A q \in Callers : q # p => call'[q] = call[q]
      /\ (\A q \in Callers : CallOK(call[q]))'
  BY <1>1, <1>2, OneCallChanges
<1>t. PICK t \in TicketIds : t = call[p].of
  BY DEF TicketIInv, TicketTypeOK, Call
<1>s. PICK stage : stage = EventStage(call[p])
  OBVIOUS
<1>4. \/ /\ entered' = [entered EXCEPT ![t][stage] = now]
         /\ explained' = IF t \in acted THEN explained \cup {t} ELSE explained
      \/ UNCHANGED <<entered, explained>>
  BY <1>t, <1>s DEF RecordEvent
<1>5. /\ entered \in [TicketIds -> [Stages -> Times \cup {Never}]] /\ now \in Times
      /\ explained \subseteq TicketIds
      /\ \A u \in TicketIds, s \in Stages : entered[u][s] <= now
  BY DEF TicketIInv, TicketTypeOK
<1>6. /\ entered' \in [TicketIds -> [Stages -> Times \cup {Never}]]
      /\ explained' \subseteq TicketIds /\ explained \subseteq explained'
      /\ \A u \in TicketIds, s \in Stages : entered'[u][s] <= now
      /\ \A u \in TicketIds : entered'[u] = entered[u] \/ (u \in acted => u \in explained')
  <2>1. CASE UNCHANGED <<entered, explained>>
    BY <1>5, <2>1
  <2>2. CASE /\ entered' = [entered EXCEPT ![t][stage] = now]
             /\ explained' = IF t \in acted THEN explained \cup {t} ELSE explained
    <3>1. PICK f : f = [entered[t] EXCEPT ![stage] = now]
      OBVIOUS
    <3>2. f \in [Stages -> Times \cup {Never}] /\ \A s \in Stages : f[s] <= now
      <4>1. entered[t] \in [Stages -> Times \cup {Never}] /\ now <= now
        BY <1>5 DEF Times
      <4> QED
        BY <1>5, <3>1, <4>1
    <3>3. entered' = [entered EXCEPT ![t] = f]
      BY <1>5, <2>2, <3>1
    <3> QED
      BY <1>5, <2>2, <3>2, <3>3
  <2> QED
    BY <1>4, <2>1, <2>2
<1>7. TicketTypeOK'
  <2>1. call'[Job].pc # "idle" => job'.pc = "act"
    BY <1>1, <1>2, <1>3 DEF TicketIInv, TicketTypeOK, Callers
  <2> QED
    BY <1>1, <1>3, <1>6, <2>1 DEF TicketIInv, TicketTypeOK
<1>8. ASSUME NEW u \in TicketIds PROVE RecordedOK(u)'
  <2>1. CASE entered'[u] = entered[u]
    BY <1>1, <1>6, <2>1, RecordStays DEF TicketIInv, ActsOn
  <2>2. CASE u \in acted => u \in explained'
    BY <1>1, <2>2 DEF RecordedOK
  <2> QED
    BY <1>6, <2>1, <2>2
<1>9. ActedAgainIsExplained'
  BY <1>1, <1>6 DEF TicketIInv, ActedAgainIsExplained
<1> QED
  BY <1>1, <1>3, <1>6, <1>7, <1>8, <1>9 DEF TicketIInv

\* A call that begins on a ticket that is there.
LEMMA CallBegins ==
    ASSUME TicketIInv, NEW t \in TicketIds, ticket[t].exists,
           NEW kind \in {"stage", "update"}, NEW dto \in Dto,
           kind = "stage" => dto.stage \in Stages /\ ~RefusesStage(t)
    PROVE  Started(kind, t, dto) \in Call /\ CallOK(Started(kind, t, dto))
<1>1. PICK row \in Row : row = ticket[t]
  BY DEF TicketIInv, TicketTypeOK
<1>2. PICK c : c = [pc |-> kind, of |-> t, dto |-> dto, seen |-> row, kind |-> kind]
  OBVIOUS
<1>3. c \in Call
  BY <1>1, <1>2 DEF Call
<1>4. CallOK(c)
  BY <1>1, <1>2 DEF CallOK, RefusesStage
<1> QED
  BY <1>1, <1>2, <1>3, <1>4 DEF Started

LEMMA AutomateStep ==
    ASSUME TicketIInv, NEW p \in Callers, Automate(p)
    PROVE  TicketIInv'
<1>1. PICK t \in TicketIds : t = call[p].of /\ ticket[t].exists
  BY DEF Automate, TicketIInv, TicketTypeOK, Call, CallOK
<1>2. NoCall \in Call /\ CallOK(NoCall)
  BY TicketConstants DEF CallOK
<1>3. Started("update", t, EventDto) \in Call /\ CallOK(Started("update", t, EventDto))
  BY <1>1, CallBegins, ActionsAssumption
<1>4. PICK c \in Call : call' = [call EXCEPT ![p] = c] /\ CallOK(c)
  BY <1>1, <1>2, <1>3 DEF Automate
<1>5. /\ UNCHANGED <<now, ticket, entered, lastRun, job, acted, again, explained, spent>>
      /\ call[p].pc # "idle" /\ spent' \in 0..MaxSpent
  BY DEF Automate, TicketIInv, TicketTypeOK
<1> QED
  BY <1>4, <1>5, OnlyACallChanges

LEMMA CallStageStep ==
    ASSUME TicketIInv, NEW u \in Users, NEW t \in TicketIds, NEW stage \in Stages,
           CallStage(u, t, stage)
    PROVE  TicketIInv'
<1>1. PICK dto : dto = [NoDto EXCEPT !.stage = stage]
  OBVIOUS
<1>2. dto \in Dto /\ dto.stage = stage
  BY <1>1 DEF NoDto, Dto
<1>3. Started("stage", t, dto) \in Call /\ CallOK(Started("stage", t, dto))
  <2>1. ticket[t].exists /\ ~RefusesStage(t)
    BY DEF CallStage
  <2> QED
    BY <1>2, <2>1, CallBegins
<1>4. PICK c \in Call : call' = [call EXCEPT ![u] = c] /\ CallOK(c)
  BY <1>1, <1>3 DEF CallStage
<1>5. /\ UNCHANGED <<now, ticket, entered, lastRun, job, acted, again, explained>>
      /\ u \in Callers /\ u # Job /\ spent' \in 0..MaxSpent
  BY SpendTyped, TicketsAssumption DEF CallStage, TicketIInv, Callers
<1> QED
  BY <1>4, <1>5, OnlyACallChanges

LEMMA CallUpdateStep ==
    ASSUME TicketIInv, NEW u \in Users, NEW t \in TicketIds, NEW dto \in Requests,
           CallUpdate(u, t, dto)
    PROVE  TicketIInv'
<1>1. dto \in Dto
  BY DEF Requests, NoDto, Dto
<1>2. Started("update", t, dto) \in Call /\ CallOK(Started("update", t, dto))
  <2>1. ticket[t].exists
    BY DEF CallUpdate
  <2> QED
    BY <1>1, <2>1, CallBegins
<1>3. PICK c \in Call : call' = [call EXCEPT ![u] = c] /\ CallOK(c)
  BY <1>2 DEF CallUpdate
<1>4. /\ UNCHANGED <<now, ticket, entered, lastRun, job, acted, again, explained>>
      /\ u \in Callers /\ u # Job /\ spent' \in 0..MaxSpent
  BY SpendTyped, TicketsAssumption DEF CallUpdate, TicketIInv, Callers
<1> QED
  BY <1>3, <1>4, OnlyACallChanges

LEMMA CreateTicketStep ==
    ASSUME TicketIInv, NEW u \in Users, NEW t \in TicketIds,
           NEW responsible \in Responsibles \cup {Nobody}, NEW ok \in BOOLEAN,
           CreateTicket(u, t, responsible, ok)
    PROVE  TicketIInv'
<1>1. /\ call[u].pc = "idle" /\ ~ticket[t].exists
      /\ UNCHANGED <<now, entered, lastRun, job, acted, again, explained>>
      /\ u \in Callers /\ u # Job
  BY TicketsAssumption DEF CreateTicket, Callers
<1>2. PICK row : row = [NoTicket EXCEPT !.exists = TRUE, !.responsible = responsible,
                           !.created = now, !.updated = now]
  OBVIOUS
<1>3. row \in Row /\ row.exists /\ row.created = now
  <2>1. NoTicket \in Row /\ now \in Times
    BY TicketConstants DEF TicketIInv, TicketTypeOK
  <2> QED
    BY <1>2, <2>1 DEF Row
<1>4. /\ ticket' \in [TicketIds -> Row] /\ ticket'[t] = row
      /\ \A q \in TicketIds : q # t => ticket'[q] = ticket[q]
  BY <1>2, <1>3 DEF CreateTicket, TicketIInv, TicketTypeOK
<1>5. PICK c \in Call : /\ c.of = t /\ c.pc = "automation"
                        /\ c = [NoCall EXCEPT !.pc = "automation", !.of = t]
  <2>1. PICK c : c = [NoCall EXCEPT !.pc = "automation", !.of = t]
    OBVIOUS
  <2>2. c \in Call /\ c.of = t /\ c.pc = "automation"
    BY <2>1, TicketConstants DEF Call
  <2> QED
    BY <2>1, <2>2
<1>6. /\ \/ call' = call
         \/ call' = [call EXCEPT ![u] = c]
      /\ spent' \in 0..MaxSpent
  BY <1>5, SpendTyped DEF CreateTicket, TicketIInv, TicketTypeOK
<1>7. /\ call \in [Callers -> Call] /\ call' \in [Callers -> Call]
      /\ \A q \in Callers : call'[q] = call[q] \/ (q = u /\ call'[q] = c)
  BY <1>1, <1>6 DEF TicketIInv, TicketTypeOK
<1>8. TicketTypeOK'
  <2>1. call'[Job].pc # "idle" => job'.pc = "act"
    BY <1>1, <1>7 DEF TicketIInv, TicketTypeOK, Callers
  <2> QED
    BY <1>1, <1>4, <1>6, <1>7, <2>1 DEF TicketIInv, TicketTypeOK
<1>9. \A q \in TicketIds : ticket[q].exists => q # t /\ ticket'[q] = ticket[q]
  BY <1>1, <1>4
<1>10. (\A q \in Callers : CallOK(call[q]))'
  <2>1. ASSUME NEW q \in Callers PROVE CallOK(call[q])'
    <3>1. CASE call'[q] = call[q]
      <4>1. CallOK(call[q]) /\ call[q].of \in TicketIds
        BY <1>7 DEF TicketIInv, Call
      <4>2. call[q].pc # "idle" => ticket'[call[q].of] = ticket[call[q].of]
        BY <1>9, <4>1 DEF CallOK
      <4> QED
        BY <3>1, <4>1, <4>2 DEF CallOK
    <3>2. CASE call'[q] = c
      BY <1>3, <1>4, <1>5, <3>2 DEF CallOK
    <3> QED
      BY <1>7, <3>1, <3>2
  <2> QED
    BY <2>1
<1>11. \A i \in DOMAIN job'.todo : ticket'[job'.todo[i].of].exists
  <2>1. job.todo \in Seq(Candidate) /\ job' = job
    BY <1>1 DEF TicketIInv, TicketTypeOK, JobRun
  <2>2. \A i \in DOMAIN job.todo : job.todo[i].of \in TicketIds
    BY <2>1, CandidateTyped
  <2> QED
    BY <1>9, <2>1, <2>2 DEF TicketIInv
<1>12. t \notin acted /\ \A q \in acted' : ticket'[q].exists
  BY <1>1, <1>9 DEF TicketIInv, TicketTypeOK
<1>13. ASSUME NEW q \in TicketIds PROVE RecordedOK(q)'
  <2>1. CASE q = t
    BY <1>1, <1>12, <2>1 DEF RecordedOK
  <2>2. CASE q # t
    BY <1>1, <1>4, <2>2, RecordStays DEF TicketIInv, ActsOn
  <2> QED
    BY <2>1, <2>2
<1>14. \A q \in TicketIds : /\ ticket'[q].created <= now'
                            /\ \A s \in Stages : entered'[q][s] <= now'
  <2>1. now <= now
    BY DEF TicketIInv, TicketTypeOK, Times
  <2> QED
    BY <1>1, <1>3, <1>4, <2>1 DEF TicketIInv
<1>15. ActedAgainIsExplained'
  BY <1>1 DEF TicketIInv, ActedAgainIsExplained
<1> QED
  BY <1>8, <1>10, <1>11, <1>12, <1>13, <1>14, <1>15 DEF TicketIInv

LEMMA TimeStep ==
    ASSUME TicketIInv, now' \in Times, now <= now',
           UNCHANGED <<ticket, entered, lastRun, call, job, acted, again, explained, spent>>
    PROVE  TicketIInv'
<1>1. TicketTypeOK'
  BY DEF TicketIInv, TicketTypeOK
<1>2. (\A q \in Callers : CallOK(call[q]))'
  BY DEF TicketIInv, CallOK
<1>3. ASSUME NEW t \in TicketIds PROVE RecordedOK(t)'
  BY RecordStays DEF TicketIInv, ActsOn
<1>4. \A t \in TicketIds : /\ ticket'[t].created <= now'
                           /\ \A s \in Stages : entered'[t][s] <= now'
  <2>1. ASSUME NEW t \in TicketIds, NEW s \in Stages
        PROVE  ticket[t].created \in Int /\ entered[t][s] \in Int /\ now \in Int /\ now' \in Int
    <3>1. ticket[t] \in Row /\ entered[t] \in [Stages -> Times \cup {Never}]
      BY DEF TicketIInv, TicketTypeOK
    <3> QED
      BY <3>1 DEF Row, Times, Never, TicketIInv, TicketTypeOK
  <2>2. Stages # {}
    BY TicketsAssumption
  <2> QED
    BY <2>1, <2>2 DEF TicketIInv
<1> QED
  BY <1>1, <1>2, <1>3, <1>4 DEF TicketIInv, ActedAgainIsExplained

-----------------------------------------------------------------------------
(* The steps of the job.                                                      *)

\* The job changes, and perhaps its call; the tickets and their history do not.
LEMMA OnlyTheJobChanges ==
    ASSUME TicketIInv, job' \in JobRun, job'.pc # "idle" => job'.todo # << >>,
           \A i \in DOMAIN job'.todo : ticket[job'.todo[i].of].exists,
           UNCHANGED <<now, ticket, entered>>,
           call' \in [Callers -> Call], (\A q \in Callers : CallOK(call[q]))',
           call'[Job].pc # "idle" => job'.pc = "act",
           acted' \subseteq TicketIds, \A t \in acted' : ticket[t].exists,
           again' \subseteq explained', explained' \subseteq TicketIds,
           lastRun' \in [TicketIds -> Times \cup {Never}], spent' \in 0..MaxSpent,
           \A t \in TicketIds : RecordedOK(t)'
    PROVE  TicketIInv'
<1>1. TicketTypeOK'
  BY DEF TicketIInv, TicketTypeOK, ActedAgainIsExplained
<1> QED
  BY <1>1 DEF TicketIInv, ActedAgainIsExplained

LEMMA SameCalls ==
    ASSUME TicketIInv, UNCHANGED <<ticket, call>>
    PROVE  call' \in [Callers -> Call] /\ (\A q \in Callers : CallOK(call[q]))'
  BY DEF TicketIInv, TicketTypeOK, CallOK

\* What the job still has to do is about tickets that are there.
LEMMA RestExists ==
    ASSUME TicketIInv, job.pc # "idle", NextCandidate
    PROVE  \A i \in DOMAIN job'.todo : ticket[job'.todo[i].of].exists
  BY JobGoesOn DEF TicketIInv

LEMMA StartJobStep ==
    ASSUME TicketIInv, StartJob
    PROVE  TicketIInv'
<1>1. /\ job.pc = "idle"
      /\ UNCHANGED <<now, ticket, entered, lastRun, call, acted, again, explained, spent>>
  BY DEF StartJob
<1>2. PICK S \in SUBSET TicketIds : S = {t \in TicketIds : IsIdleCandidate(t)}
  OBVIOUS
<1>3. PICK q \in OldestFirst(S) :
         /\ q # << >>
         /\ job' = [pc |-> "check", action |-> 1,
                    todo |-> [i \in 1..(IF Len(q) < Window THEN Len(q) ELSE Window) |->
                                [of |-> q[i], stage |-> ticket[q[i]].stage]]]
  BY <1>2 DEF StartJob
<1>4. PICK m \in Nat : m = Cardinality(S) /\ q \in [1..m -> S]
  <2>1. IsFiniteSet(S) /\ Cardinality(S) \in Nat
    BY <1>2, FS_Subset, FS_CardinalityType, TicketsAssumption
  <2> QED
    BY <1>3, <2>1 DEF OldestFirst
<1>5. q \in Seq(S) /\ Len(q) = m /\ m # 0
  <2>1. q \in Seq(S) /\ Len(q) = m
    BY <1>4
  <2> QED
    BY <1>3, <2>1
<1>6. PICK n \in Nat : n = (IF Len(q) < Window THEN Len(q) ELSE Window) /\ n # 0 /\ n <= m
  <2>1. Window \in Nat \ {0}
    BY TicketsAssumption
  <2> QED
    BY <1>5, <2>1
<1>7. PICK todo : todo = [i \in 1..n |-> [of |-> q[i], stage |-> ticket[q[i]].stage]]
  OBVIOUS
<1>8. \A i \in 1..n : /\ todo[i] \in Candidate /\ todo[i].of \in S
  <2>1. ASSUME NEW i \in 1..n PROVE todo[i] \in Candidate /\ todo[i].of \in S
    <3>1. PICK t \in S : t = q[i]
      BY <1>4, <1>6
    <3>2. t \in TicketIds /\ ticket[t].stage \in Stages
      BY <1>2 DEF TicketIInv, TicketTypeOK, Row
    <3> QED
      BY <1>7, <3>1, <3>2 DEF Candidate
  <2> QED
    BY <2>1
<1>9. todo \in Seq(Candidate) /\ Len(todo) = n /\ DOMAIN todo = 1..n
  <2>1. todo \in [1..n -> Candidate]
    BY <1>7, <1>8
  <2> QED
    BY <2>1
<1>10. job' = [pc |-> "check", action |-> 1, todo |-> todo]
  BY <1>3, <1>6, <1>7
<1>11. job' \in JobRun /\ job'.todo # << >> /\ job'.pc = "check"
  <2>1. todo # << >>
    BY <1>6, <1>9
  <2> QED
    BY <1>9, <1>10, <2>1, TicketConstants DEF JobRun
<1>12. \A i \in DOMAIN job'.todo : ticket[job'.todo[i].of].exists
  <2>1. \A t \in S : ticket[t].exists
    BY <1>2 DEF IsIdleCandidate
  <2> QED
    BY <1>8, <1>9, <1>10, <2>1
<1>13. ASSUME NEW t \in TicketIds PROVE RecordedOK(t)'
  BY <1>1, RecordStays DEF TicketIInv, ActsOn
<1>14. call' \in [Callers -> Call] /\ (\A p \in Callers : CallOK(call[p]))'
  BY <1>1, SameCalls
<1>15. call'[Job].pc = "idle"
  BY <1>1 DEF TicketIInv, TicketTypeOK
<1> QED
  BY <1>1, <1>11, <1>12, <1>13, <1>14, <1>15, OnlyTheJobChanges
     DEF TicketIInv, TicketTypeOK, ActedAgainIsExplained

LEMMA CheckCandidateStep ==
    ASSUME TicketIInv, CheckCandidate
    PROVE  TicketIInv'
<1>1. /\ job.pc = "check"
      /\ UNCHANGED <<now, ticket, entered, lastRun, call, explained, spent>>
  BY DEF CheckCandidate
<1>2. PICK c \in Candidate : /\ c = Head(job.todo) /\ c = job.todo[1] /\ 1 \in DOMAIN job.todo
                             /\ c.of \in TicketIds
  BY <1>1, JobIsAt DEF TicketIInv
<1>3. c.stage \in Stages
  BY DEF Candidate
<1>4. call' \in [Callers -> Call] /\ (\A q \in Callers : CallOK(call[q]))'
  BY <1>1, SameCalls
<1>5. call'[Job].pc = "idle"
  BY <1>1 DEF TicketIInv, TicketTypeOK
<1>6. ASSUME NEW t \in TicketIds, t \in acted, t \notin explained
      PROVE  lastRun[t] >= ticket[t].created /\ \A s \in Stages : lastRun[t] >= entered[t][s]
  BY <1>1, <1>6 DEF TicketIInv, RecordedOK, ActsOn
<1>7. CASE /\ IsIdle(c.of, c.stage) /\ job' = [job EXCEPT !.pc = "act"]
           /\ again' = (IF c.of \in acted THEN again \cup {c.of} ELSE again)
           /\ acted' = acted \cup {c.of}
  <2>1. c.of \in acted => c.of \in explained
    <3> SUFFICES ASSUME c.of \in acted, c.of \notin explained PROVE FALSE
      OBVIOUS
    <3>1. Handled(c.of, c.stage)
      BY <1>2, <1>3, <1>6 DEF Handled, StageEnteredAt
    <3> QED
      BY <1>7, <3>1 DEF IsIdle
  <2>2. again' \subseteq explained'
    BY <1>1, <1>7, <2>1 DEF TicketIInv, ActedAgainIsExplained
  <2>3. job' \in JobRun /\ job'.todo = job.todo /\ job'.pc = "act" /\ job.todo # << >>
    BY <1>1, <1>7 DEF TicketIInv, TicketTypeOK, JobRun
  <2>4. acted' \subseteq TicketIds /\ \A t \in acted' : ticket[t].exists
    BY <1>2, <1>7 DEF TicketIInv, TicketTypeOK
  <2>5. ASSUME NEW t \in TicketIds PROVE RecordedOK(t)'
    <3>1. CASE t = c.of
      BY <1>2, <2>3, <3>1 DEF RecordedOK, ActsOn
    <3>2. CASE t # c.of
      BY <1>1, <1>7, <3>2, RecordStays DEF TicketIInv, ActsOn
    <3> QED
      BY <3>1, <3>2
  <2>6. \A i \in DOMAIN job'.todo : ticket[job'.todo[i].of].exists
    BY <2>3 DEF TicketIInv
  <2> QED
    BY <1>1, <1>4, <1>5, <2>2, <2>3, <2>4, <2>5, <2>6, OnlyTheJobChanges
       DEF TicketIInv, TicketTypeOK
<1>8. CASE NextCandidate /\ UNCHANGED <<again, acted>>
  <2>1. /\ job' \in JobRun /\ (job'.pc # "idle" => job'.todo # << >>)
        /\ \A i \in DOMAIN job'.todo : ticket[job'.todo[i].of].exists
    BY <1>1, <1>8, JobGoesOn, RestExists DEF TicketIInv
  <2>2. ASSUME NEW t \in TicketIds PROVE RecordedOK(t)'
    BY <1>1, <1>8, RecordStays DEF TicketIInv, ActsOn
  <2> QED
    BY <1>1, <1>4, <1>5, <1>8, <2>1, <2>2, OnlyTheJobChanges
       DEF TicketIInv, TicketTypeOK, ActedAgainIsExplained
<1> QED
  BY <1>2, <1>7, <1>8 DEF CheckCandidate

LEMMA RecordRunStep ==
    ASSUME TicketIInv, RecordRun
    PROVE  TicketIInv'
<1>1. /\ job.pc = "act" /\ call[Job].pc = "idle" /\ NextCandidate
      /\ UNCHANGED <<now, ticket, entered, call, acted, again, explained, spent>>
  BY DEF RecordRun, Acting
<1>2. PICK t \in TicketIds : t = Head(job.todo).of
  BY <1>1, JobIsAt DEF TicketIInv
<1>3. /\ lastRun' \in [TicketIds -> Times \cup {Never}] /\ lastRun'[t] = now
      /\ \A q \in TicketIds : q # t => lastRun'[q] = lastRun[q]
  BY <1>2 DEF RecordRun, TicketIInv, TicketTypeOK
<1>4. /\ job' \in JobRun /\ (job'.pc # "idle" => job'.todo # << >>)
      /\ \A i \in DOMAIN job'.todo : ticket[job'.todo[i].of].exists
  BY <1>1, JobGoesOn, RestExists DEF TicketIInv
<1>5. ASSUME NEW q \in TicketIds PROVE RecordedOK(q)'
  <2>1. CASE q = t
    BY <1>1, <1>3, <2>1 DEF RecordedOK, TicketIInv
  <2>2. CASE q # t
    <3>1. ~ActsOn(q)
      BY <1>2, <2>2 DEF ActsOn
    <3> QED
      BY <1>1, <1>3, <2>2, <3>1, RecordStays DEF TicketIInv
  <2> QED
    BY <2>1, <2>2
<1>6. call' \in [Callers -> Call] /\ (\A q \in Callers : CallOK(call[q]))'
  BY <1>1, SameCalls
<1>7. call'[Job].pc = "idle"
  BY <1>1
<1> QED
  BY <1>1, <1>3, <1>4, <1>5, <1>6, <1>7, OnlyTheJobChanges
     DEF TicketIInv, TicketTypeOK, ActedAgainIsExplained

\* A run that fails on its ticket: the failure explains what comes.
LEMMA FailedRun ==
    ASSUME TicketIInv, job.pc = "act", NEW t \in TicketIds, t = Head(job.todo).of, RunFails(t),
           call[Job].pc = "idle",
           UNCHANGED <<now, ticket, entered, lastRun, call, acted, again>>,
           spent' \in 0..MaxSpent
    PROVE  TicketIInv'
<1>1. /\ NextCandidate /\ explained' = explained \cup {t}
  BY DEF RunFails
<1>2. /\ job' \in JobRun /\ (job'.pc # "idle" => job'.todo # << >>)
      /\ \A i \in DOMAIN job'.todo : ticket[job'.todo[i].of].exists
  BY <1>1, JobGoesOn, RestExists DEF TicketIInv
<1>3. ASSUME NEW q \in TicketIds PROVE RecordedOK(q)'
  <2>1. CASE q = t
    BY <1>1, <2>1 DEF RecordedOK
  <2>2. CASE q # t
    <3>1. ~ActsOn(q)
      BY <2>2 DEF ActsOn
    <3> QED
      BY <1>1, <2>2, <3>1, RecordStays DEF TicketIInv
  <2> QED
    BY <2>1, <2>2
<1>4. call' \in [Callers -> Call] /\ (\A q \in Callers : CallOK(call[q]))'
  BY SameCalls
<1> QED
  BY <1>1, <1>2, <1>3, <1>4, OnlyTheJobChanges
     DEF TicketIInv, TicketTypeOK, ActedAgainIsExplained

LEMMA ActionFailsStep ==
    ASSUME TicketIInv, ActionFails
    PROVE  TicketIInv'
<1>1. /\ job.pc = "act" /\ call[Job].pc = "idle" /\ Spend /\ RunFails(Head(job.todo).of)
      /\ UNCHANGED <<now, ticket, entered, lastRun, call, acted, again>>
  BY DEF ActionFails, Acting
<1>2. Head(job.todo).of \in TicketIds /\ spent' \in 0..MaxSpent
  BY <1>1, JobIsAt, SpendTyped DEF TicketIInv
<1> QED
  BY <1>1, <1>2, FailedRun

\* The job goes on to its next action, perhaps with a call.
LEMMA NextActionStep ==
    ASSUME TicketIInv, job.pc = "act", job.action <= Len(IdleActions), NextAction,
           call' \in [Callers -> Call], (\A q \in Callers : CallOK(call[q]))',
           UNCHANGED <<now, ticket, entered, lastRun, acted, again, explained, spent>>
    PROVE  TicketIInv'
<1>1. job \in JobRun /\ job.action \in Nat /\ Len(IdleActions) \in Nat
  BY TicketConstants DEF TicketIInv, TicketTypeOK, JobRun
<1>2. PICK k \in 1..(Len(IdleActions) + 1) : k = job.action + 1
  BY <1>1 DEF JobRun
<1>3. job' = [job EXCEPT !.action = k]
  BY <1>1, <1>2 DEF NextAction, JobRun
<1>4. job' \in JobRun /\ job'.pc = "act" /\ job'.todo = job.todo
  BY <1>1, <1>3 DEF JobRun
<1>5. ASSUME NEW q \in TicketIds PROVE RecordedOK(q)'
  BY <1>4, RecordStays DEF TicketIInv, ActsOn
<1> QED
  BY <1>4, <1>5, OnlyTheJobChanges DEF TicketIInv, TicketTypeOK, ActedAgainIsExplained

LEMMA ActNextStep ==
    ASSUME TicketIInv, ActNext
    PROVE  TicketIInv'
<1>1. /\ job.pc = "act" /\ call[Job].pc = "idle" /\ job.action <= Len(IdleActions)
      /\ UNCHANGED <<now, ticket, entered, lastRun, acted, again, spent>>
      /\ spent' \in 0..MaxSpent
  BY DEF ActNext, Acting, TicketIInv, TicketTypeOK
<1>2. PICK t \in TicketIds : t = Head(job.todo).of /\ ticket[t].exists
  BY <1>1, JobIsAt DEF TicketIInv
<1>3. PICK action : action = IdleActions[job.action]
  OBVIOUS
<1>4. /\ action.dto \in Dto
      /\ action.type = "SET_STAGE" => action.dto.stage \in Stages
  <2>1. job.action \in DOMAIN IdleActions
    BY <1>1, ActionsAssumption DEF TicketIInv, TicketTypeOK, JobRun
  <2>2. IdleActions[job.action] \in [type: STRING, dto: Dto]
    <3>1. IdleActions \in Seq([type: STRING, dto: Dto])
      BY ActionsAssumption
    <3> QED
      BY <2>1, <3>1, ElementOf
  <2>3. action.dto \in Dto
    BY <1>3, <2>2
  <2> QED
    BY <1>3, <2>1, <2>3, ActionsAssumption
<1>5. CASE action.type = "NOTIFY"
  <2>1. NextAction /\ UNCHANGED <<call, explained>>
    BY <1>3, <1>5 DEF ActNext
  <2>2. call' \in [Callers -> Call] /\ (\A q \in Callers : CallOK(call[q]))'
    BY <1>1, <2>1, SameCalls
  <2> QED
    BY <1>1, <2>1, <2>2, NextActionStep
<1>6. PICK refused \in BOOLEAN :
         refused = (IF action.type = "SET_STAGE" THEN RefusesStage(t)
                    ELSE RefusesUpdate(t, action.dto))
  <2>1. RefusesStage(t) \in BOOLEAN
    BY DEF RefusesStage, TicketIInv, TicketTypeOK, Row
  <2>2. RefusesUpdate(t, action.dto) \in BOOLEAN
    BY DEF RefusesUpdate
  <2> QED
    BY <2>1, <2>2
<1>7. CASE action.type # "NOTIFY" /\ refused
  <2>1. RunFails(t) /\ UNCHANGED call
    BY <1>2, <1>3, <1>6, <1>7 DEF ActNext
  <2> QED
    BY <1>1, <1>2, <2>1, FailedRun
<1>8. CASE action.type # "NOTIFY" /\ ~refused
  <2>1. PICK kind \in {"stage", "update"} :
           kind = IF action.type = "SET_STAGE" THEN "stage" ELSE "update"
    OBVIOUS
  <2>2. /\ NextAction /\ UNCHANGED explained
        /\ call' = [call EXCEPT ![Job] = Started(kind, t, action.dto)]
    BY <1>2, <1>3, <1>6, <1>8, <2>1 DEF ActNext
  <2>3. kind = "stage" => action.dto.stage \in Stages /\ ~RefusesStage(t)
    BY <1>4, <1>6, <1>8, <2>1
  <2>4. Started(kind, t, action.dto) \in Call /\ CallOK(Started(kind, t, action.dto))
    BY <1>2, <1>4, <2>3, CallBegins
  <2>5. PICK c \in Call : call' = [call EXCEPT ![Job] = c] /\ CallOK(c)
    BY <2>2, <2>4
  <2>6. call' \in [Callers -> Call] /\ (\A q \in Callers : CallOK(call[q]))'
    BY <1>1, <2>5, OneCallChanges DEF Callers
  <2> QED
    BY <1>1, <2>2, <2>6, NextActionStep
<1> QED
  BY <1>5, <1>7, <1>8

LEMMA JobDiesStep ==
    ASSUME TicketIInv, JobDies
    PROVE  TicketIInv'
<1>1. /\ job.pc = "act" /\ Spend /\ job' = NoJob /\ call' = [call EXCEPT ![Job] = NoCall]
      /\ explained' = explained \cup {Head(job.todo).of}
      /\ UNCHANGED <<now, ticket, entered, lastRun, acted, again>>
  BY DEF JobDies
<1>2. Head(job.todo).of \in TicketIds /\ spent' \in 0..MaxSpent
  BY <1>1, JobIsAt, SpendTyped DEF TicketIInv
<1>3. PICK c \in Call : c = NoCall /\ c.pc = "idle" /\ CallOK(c)
  BY TicketConstants DEF CallOK
<1>4. /\ call' \in [Callers -> Call] /\ call'[Job] = c
      /\ (\A q \in Callers : CallOK(call[q]))'
  BY <1>1, <1>3, OneCallChanges DEF Callers
<1>5. job' \in JobRun /\ job'.pc = "idle" /\ DOMAIN job'.todo = {}
  BY <1>1, TicketConstants
<1>6. ASSUME NEW q \in TicketIds PROVE RecordedOK(q)'
  <2>1. CASE q = Head(job.todo).of
    BY <1>1, <2>1 DEF RecordedOK
  <2>2. CASE q # Head(job.todo).of
    BY <1>1, <2>2, RecordStays DEF TicketIInv, ActsOn
  <2> QED
    BY <2>1, <2>2
<1> QED
  BY <1>1, <1>2, <1>3, <1>4, <1>5, <1>6, OnlyTheJobChanges
     DEF TicketIInv, TicketTypeOK, ActedAgainIsExplained

-----------------------------------------------------------------------------
(* What holds of the tickets.                                                 *)

LEMMA TicketInvariantHoldsAtFirst ==
    ASSUME TicketInit PROVE TicketIInv
<1>1. 0 \in Times /\ MaxSpent \in Nat
  BY TicketsAssumption DEF Times
<1>2. TicketTypeOK
  <2>1. call[Job].pc = "idle"
    BY TicketConstants DEF TicketInit, Callers
  <2> QED
    BY <1>1, <2>1, TicketConstants DEF TicketInit, TicketTypeOK
<1>3. \A p \in Callers : CallOK(call[p])
  BY TicketConstants DEF TicketInit, CallOK
<1>4. DOMAIN job.todo = {}
  BY TicketConstants DEF TicketInit
<1>5. \A t \in TicketIds : /\ ticket[t].created <= now
                           /\ \A s \in Stages : entered[t][s] <= now
  <2>1. now = 0 /\ \A t \in TicketIds : ticket[t].created = 0
    BY DEF TicketInit, NoTicket
  <2>2. \A t \in TicketIds, s \in Stages : entered[t][s] = -1
    BY DEF TicketInit, Never
  <2> QED
    BY <2>1, <2>2
<1> QED
  BY <1>2, <1>3, <1>4, <1>5 DEF TicketInit, TicketIInv, ActedAgainIsExplained, RecordedOK

LEMMA TicketInvariantIsKept ==
    ASSUME TicketIInv, TicketNext PROVE TicketIInv'
<1>1. ASSUME MinutePasses PROVE TicketIInv'
  <2>1. now \in Times /\ MaxTime \in Nat
    BY TicketsAssumption DEF TicketIInv, TicketTypeOK
  <2>2. now' \in Times /\ now <= now'
    BY <1>1, <2>1 DEF MinutePasses, Times
  <2> QED
    BY <1>1, <2>2, TimeStep DEF MinutePasses
<1>2. ASSUME NEW p \in Callers, CallStep(p) \/ EventIsLost(p) PROVE TicketIInv'
  BY <1>2, WriteStageStep, WriteUpdateStep, RecordEventStep, AutomateStep, EventIsLostStep
     DEF CallStep
<1>3. ASSUME NEW u \in Users, NEW t \in TicketIds, NEW r \in Responsibles \cup {Nobody},
             NEW ok \in BOOLEAN, CreateTicket(u, t, r, ok)
      PROVE  TicketIInv'
  BY <1>3, CreateTicketStep
<1>4. ASSUME NEW u \in Users, NEW t \in TicketIds, NEW s \in Stages, CallStage(u, t, s)
      PROVE  TicketIInv'
  BY <1>4, CallStageStep
<1>5. ASSUME NEW u \in Users, NEW t \in TicketIds, NEW dto \in Requests, CallUpdate(u, t, dto)
      PROVE  TicketIInv'
  BY <1>5, CallUpdateStep
<1>6. ASSUME \/ StartJob \/ CheckCandidate \/ ActNext \/ RecordRun \/ ActionFails \/ JobDies
      PROVE  TicketIInv'
  BY <1>6, StartJobStep, CheckCandidateStep, ActNextStep, RecordRunStep, ActionFailsStep,
     JobDiesStep
<1> QED
  BY <1>1, <1>2, <1>3, <1>4, <1>5, <1>6 DEF TicketNext

TicketsSpec == TicketInit /\ [][TicketNext]_ticketVars

LEMMA TicketInvariant == TicketsSpec => []TicketIInv
<1>1. TicketInit => TicketIInv
  BY TicketInvariantHoldsAtFirst
<1>2. TicketIInv /\ [TicketNext]_ticketVars => TicketIInv'
  <2> SUFFICES ASSUME TicketIInv, [TicketNext]_ticketVars PROVE TicketIInv'
    OBVIOUS
  <2>1. CASE TicketNext
    BY <2>1, TicketInvariantIsKept
  <2>2. CASE UNCHANGED ticketVars
    <3>1. now' \in Times /\ now <= now'
      BY <2>2 DEF ticketVars, TicketIInv, TicketTypeOK, Times
    <3> QED
      BY <2>2, <3>1, TimeStep DEF ticketVars
  <2> QED
    BY <2>1, <2>2
<1> QED
  BY <1>1, <1>2, PTL DEF TicketsSpec

\* Whatever calls overlap, every row, call and run of the job is of its type: a call of
\* the job is in flight only while the job acts.
THEOREM TicketTypes == TicketsSpec => []TicketTypeOK
<1>1. TicketIInv => TicketTypeOK
  BY DEF TicketIInv
<1> QED
  BY <1>1, TicketInvariant, PTL

\* The idle rule acts on a ticket again in one stay only if something went wrong: for any
\* tickets, stages, actions of the rule, window of the job and requests meanwhile.
THEOREM IdleRuleActsOnce == TicketsSpec => []ActedAgainIsExplained
<1>1. TicketIInv => ActedAgainIsExplained
  BY DEF TicketIInv
<1> QED
  BY <1>1, TicketInvariant, PTL

-----------------------------------------------------------------------------
(* What may change a ticket.                                                  *)

\* What ChangesAreAskedFor says of one step.
AskedFor ==
    \A t \in TicketIds : ticket[t].exists /\ ticket'[t] # ticket[t] =>
          \E p \in Callers :
             /\ call[p].of = t /\ call[p].pc \in {"stage", "update"}
             /\ Asks(call[p], ticket'[t]) \/ call[p].seen # ticket[t]
             /\ ticket[t].closed /\ ~ticket'[t].closed =>
                   ~call[p].seen.closed \/ call[p].dto.closed = FALSE

LEMMA StageIsAskedFor ==
    ASSUME TicketIInv, NEW p \in Callers, WriteStage(p)
    PROVE  AskedFor
<1>1. PICK c \in Call : c = call[p] /\ CallOK(c) /\ c.pc = "stage" /\ c.of \in TicketIds
  BY DEF TicketIInv, TicketTypeOK, WriteStage, Call
<1>2. PICK old \in Row : old = ticket[c.of] /\ ticket \in [TicketIds -> Row]
  BY <1>1 DEF TicketIInv, TicketTypeOK
<1>3. CASE UNCHANGED ticket
  BY <1>3 DEF AskedFor
<1>4. CASE WriteRow(c.of, [ticket[c.of] EXCEPT !.stage = c.dto.stage,
                              !.closed = c.dto.stage \in LastStages, !.updated = now])
  <2>1. PICK new : new = [old EXCEPT !.stage = c.dto.stage,
                             !.closed = c.dto.stage \in LastStages, !.updated = now]
    OBVIOUS
  <2>2. new.stage = c.dto.stage /\ new.closed = (c.dto.stage \in LastStages)
    BY <2>1 DEF Row
  <2>3. ticket'[c.of] = new /\ \A t \in TicketIds : t # c.of => ticket'[t] = ticket[t]
    BY <1>1, <1>2, <1>4, <2>1 DEF WriteRow
  <2>4. Asks(c, new)
    BY <1>1, <2>2 DEF Asks
  <2>5. ~c.seen.closed
    BY <1>1 DEF CallOK
  <2>6. ASSUME NEW t \in TicketIds, ticket'[t] # ticket[t]
        PROVE  /\ call[p].of = t /\ call[p].pc \in {"stage", "update"}
               /\ Asks(call[p], ticket'[t])
               /\ ~call[p].seen.closed
    <3>1. t = c.of
      BY <2>3, <2>6
    <3> QED
      BY <1>1, <2>3, <2>4, <2>5, <3>1
  <2> QED
    BY <2>6 DEF AskedFor
<1> QED
  BY <1>1, <1>3, <1>4 DEF WriteStage

LEMMA UpdateIsAskedFor ==
    ASSUME TicketIInv, NEW p \in Callers, WriteUpdate(p)
    PROVE  AskedFor
<1>1. PICK c \in Call : c = call[p] /\ c.pc = "update" /\ c.of \in TicketIds /\ c.seen \in Row
  BY DEF TicketIInv, TicketTypeOK, WriteUpdate, Call
<1>2. PICK old \in Row : old = ticket[c.of] /\ ticket \in [TicketIds -> Row]
  BY <1>1 DEF TicketIInv, TicketTypeOK
<1>3. PICK stage, closed, responsible :
         /\ stage = NewStage(c) /\ closed = Given(c.dto.closed, c.seen.closed)
         /\ responsible = Given(c.dto.responsible, c.seen.responsible)
  OBVIOUS
<1>4. PICK new : new = [c.seen EXCEPT !.stage = stage, !.closed = closed,
                           !.responsible = responsible, !.updated = now]
  OBVIOUS
<1>5. WriteRow(c.of, new)
  BY <1>1, <1>3, <1>4 DEF WriteUpdate
<1>6. new.stage = stage /\ new.closed = closed /\ new.responsible = responsible
  BY <1>1, <1>4 DEF Row
<1>7. ticket'[c.of] = new /\ \A t \in TicketIds : t # c.of => ticket'[t] = ticket[t]
  BY <1>1, <1>2, <1>5 DEF WriteRow
<1>8. Asks(c, new) \/ c.seen # old
  <2> SUFFICES ASSUME c.seen = old PROVE Asks(c, new)
    OBVIOUS
  <2>1. stage \in {c.dto.stage, old.stage} \/ (Reopens(c) /\ stage = Novo)
    BY <1>3 DEF NewStage, Given
  <2>2. closed \in {c.dto.closed, old.closed}
    BY <1>3 DEF Given
  <2>3. responsible \in {c.dto.responsible, old.responsible}
    BY <1>3 DEF Given
  <2> QED
    BY <1>1, <1>2, <1>6, <2>1, <2>2, <2>3 DEF Asks
<1>9. ~new.closed => ~c.seen.closed \/ c.dto.closed = FALSE
  <2>1. c.dto.closed \in BOOLEAN \cup {Keep}
    BY DEF Call, Dto
  <2> QED
    BY <1>3, <1>6, <2>1 DEF Given
<1>10. ASSUME NEW t \in TicketIds, ticket'[t] # ticket[t]
       PROVE  /\ call[p].of = t /\ call[p].pc \in {"stage", "update"}
              /\ Asks(call[p], ticket'[t]) \/ call[p].seen # ticket[t]
              /\ ~ticket'[t].closed => ~call[p].seen.closed \/ call[p].dto.closed = FALSE
  <2>1. t = c.of
    BY <1>7, <1>10
  <2> QED
    BY <1>1, <1>2, <1>7, <1>8, <1>9, <2>1
<1> QED
  BY <1>10 DEF AskedFor

\* A ticket gets the stage, the responsible or the state somebody asks for and nothing
\* else, unless the call had read the row before another wrote it; it is opened again only
\* by a call that asks for it or had read it open.
THEOREM ChangesHaveACause == TicketsSpec => ChangesAreAskedFor
<1>1. TicketIInv /\ [TicketNext]_ticketVars => [AskedFor]_ticketVars
  <2> SUFFICES ASSUME TicketIInv, TicketNext PROVE AskedFor
    OBVIOUS
  <2>1. ASSUME UNCHANGED ticket PROVE AskedFor
    BY <2>1 DEF AskedFor
  <2>2. ASSUME NEW p \in Callers, CallStep(p) PROVE AskedFor
    <3>1. CASE WriteStage(p)
      BY <3>1, StageIsAskedFor
    <3>2. CASE WriteUpdate(p)
      BY <3>2, UpdateIsAskedFor
    <3>3. CASE RecordEvent(p) \/ Automate(p)
      BY <2>1, <3>3 DEF RecordEvent, Automate
    <3> QED
      BY <2>2, <3>1, <3>2, <3>3 DEF CallStep
  <2>3. ASSUME NEW u \in Users, NEW t \in TicketIds, NEW r, NEW ok, CreateTicket(u, t, r, ok)
        PROVE  AskedFor
    <3>1. ~ticket[t].exists /\ \A q \in TicketIds : q # t => ticket'[q] = ticket[q]
      BY <2>3 DEF CreateTicket, TicketIInv, TicketTypeOK
    <3> QED
      BY <3>1 DEF AskedFor
  <2>4. CASE \E p \in Callers : EventIsLost(p)
    BY <2>1, <2>4 DEF EventIsLost
  <2>5. ASSUME NEW u \in Users, NEW t \in TicketIds, NEW x, CallStage(u, t, x) \/ CallUpdate(u, t, x)
        PROVE  AskedFor
    BY <2>1, <2>5 DEF CallStage, CallUpdate
  <2>6. CASE MinutePasses \/ StartJob \/ CheckCandidate \/ ActNext
    BY <2>1, <2>6 DEF MinutePasses, StartJob, CheckCandidate, ActNext
  <2>7. CASE RecordRun \/ ActionFails \/ JobDies
    BY <2>1, <2>7 DEF RecordRun, ActionFails, JobDies
  <2> QED
    BY <2>2, <2>3, <2>4, <2>5, <2>6, <2>7 DEF TicketNext
<1>2. TicketsSpec => [][AskedFor]_ticketVars
  BY <1>1, TicketInvariant, PTL DEF TicketsSpec
<1> QED
  BY <1>2 DEF AskedFor, ChangesAreAskedFor

-----------------------------------------------------------------------------
(* The calendar of the rules: days and months are counted as promised.        *)

\* The month after another.
After(y, m) == [y |-> IF m = 12 THEN y + 1 ELSE y, m |-> (m % 12) + 1, d |-> 1]

\* Months have 28 to 31 days, and the next one begins when they are over.
LEMMA MonthsFollow ==
    ASSUME NEW y \in Int, NEW m \in 1..12
    PROVE  /\ DaysInMonth(y, m) \in 28..31
           /\ After(y, m).y \in Int /\ After(y, m).m \in 1..12
           /\ MonthNumber(After(y, m)) = 12 * y + m + 1
           /\ DayNumber(After(y, m)) = DayNumber([y |-> y, m |-> m, d |-> 1]) + DaysInMonth(y, m)
<1>1. DaysInMonth(y, m) \in 28..31
  BY DEF DaysInMonth
<1>2. After(y, m).y \in Int /\ After(y, m).m \in 1..12 /\ MonthNumber(After(y, m)) = 12 * y + m + 1
  BY DEF After, MonthNumber
<1>3. CASE m = 2
  <2>1. /\ After(y, m).y = y /\ After(y, m).m = 3 /\ After(y, m).d = 1
    BY <1>3 DEF After
  <2>2. /\ DayNumber(After(y, m)) = 365 * y + y \div 4 - y \div 100 + y \div 400
        /\ DayNumber([y |-> y, m |-> m, d |-> 1])
             = 365 * (y - 1) + (y - 1) \div 4 - (y - 1) \div 100 + (y - 1) \div 400 + 337
    BY <1>3, <2>1 DEF DayNumber
  <2>3. y \div 4 - (y - 1) \div 4 = IF y % 4 = 0 THEN 1 ELSE 0
    OBVIOUS
  <2>4. y \div 100 - (y - 1) \div 100 = IF y % 100 = 0 THEN 1 ELSE 0
    OBVIOUS
  <2>5. y \div 400 - (y - 1) \div 400 = IF y % 400 = 0 THEN 1 ELSE 0
    OBVIOUS
  <2>6. /\ y % 400 = 0 => y % 100 = 0
        /\ y % 100 = 0 => y % 4 = 0
    OBVIOUS
  <2>7. DaysInMonth(y, m) = IF (y % 4 = 0 /\ y % 100 # 0) \/ y % 400 = 0 THEN 29 ELSE 28
    BY <1>3 DEF DaysInMonth, IsLeapYear
  <2>8. PICK q4, q100, q400, p4, p100, p400 \in Int :
            /\ q4 = y \div 4 /\ q100 = y \div 100 /\ q400 = y \div 400
            /\ p4 = (y - 1) \div 4 /\ p100 = (y - 1) \div 100 /\ p400 = (y - 1) \div 400
    OBVIOUS
  <2> QED
    BY <1>1, <1>2, <2>2, <2>3, <2>4, <2>5, <2>6, <2>7, <2>8
<1>4. CASE m # 2
  <2>1. PICK k \in Int : \A d \in Int : DayNumber([y |-> y, m |-> m, d |-> d])
                                          = k + (153 * ((m + 9) % 12) + 2) \div 5 + d - 1
    BY DEF DayNumber
  <2> QED
    BY <1>1, <1>2, <1>4 DEF After, DayNumber, DaysInMonth
<1> QED
  BY <1>3, <1>4

\* A day at most 28 days after one its month has spills into the next month at most.
LEMMA SpillsOver ==
    ASSUME NEW y \in Int, NEW m \in 1..12, NEW d \in 1..59, d <= DaysInMonth(y, m) + 28
    PROVE  /\ IsDate(Normalized(y, m, d))
           /\ DayNumber(Normalized(y, m, d)) = DayNumber([y |-> y, m |-> m, d |-> d])
           /\ \/ /\ d <= DaysInMonth(y, m) /\ Normalized(y, m, d).d = d
                 /\ MonthNumber(Normalized(y, m, d)) = 12 * y + m
              \/ /\ d > DaysInMonth(y, m) /\ Normalized(y, m, d).d = d - DaysInMonth(y, m)
                 /\ MonthNumber(Normalized(y, m, d)) = 12 * y + m + 1
<1>1. DaysInMonth(y, m) \in 28..31
  BY MonthsFollow
<1>2. CASE d <= DaysInMonth(y, m)
  <2>1. Normalized(y, m, d) = [y |-> y, m |-> m, d |-> d]
    BY <1>1, <1>2 DEF Normalized
  <2> QED
    BY <1>1, <1>2, <2>1 DEF IsDate, MonthNumber
<1>3. CASE d > DaysInMonth(y, m)
  <2> DEFINE over == d - DaysInMonth(y, m)
             y2 == After(y, m).y
             m2 == After(y, m).m
  <2>1. /\ y2 \in Int /\ m2 \in 1..12 /\ MonthNumber(After(y, m)) = 12 * y + m + 1
        /\ DayNumber(After(y, m)) = DayNumber([y |-> y, m |-> m, d |-> 1]) + DaysInMonth(y, m)
        /\ After(y, m) = [y |-> y2, m |-> m2, d |-> 1]
    BY MonthsFollow DEF After
  <2>2. Normalized(y, m, d) = [y |-> y2, m |-> m2, d |-> over]
    BY <1>1, <1>3 DEF Normalized, After
  <2>3. over \in 1..28
    BY <1>1, <1>3
  <2>4. MonthNumber(After(y, m)) = 12 * y2 + m2
    BY DEF MonthNumber
  <2> HIDE DEF y2, m2, over
  <2>5. DaysInMonth(y2, m2) \in 28..31
    BY <2>1, MonthsFollow
  <2>6. IsDate(Normalized(y, m, d))
    BY <2>1, <2>2, <2>3, <2>5 DEF IsDate
  <2>7. DayNumber([y |-> y2, m |-> m2, d |-> over]) = DayNumber([y |-> y2, m |-> m2, d |-> 1]) + over - 1
    BY <2>1, <2>3 DEF DayNumber
  <2>8. /\ DayNumber([y |-> y, m |-> m, d |-> d]) = DayNumber([y |-> y, m |-> m, d |-> 1]) + d - 1
        /\ DayNumber([y |-> y, m |-> m, d |-> 1]) \in Int
    BY DEF DayNumber
  <2>9. DayNumber(Normalized(y, m, d)) = DayNumber([y |-> y, m |-> m, d |-> d])
    BY <1>1, <2>1, <2>2, <2>7, <2>8 DEF over
  <2>10. /\ Normalized(y, m, d).d = d - DaysInMonth(y, m)
         /\ MonthNumber(Normalized(y, m, d)) = 12 * y + m + 1
    BY <2>1, <2>2, <2>4 DEF over, MonthNumber
  <2> QED
    BY <1>3, <2>6, <2>9, <2>10
<1> QED
  BY <1>1, <1>2, <1>3

\* A step of some days.
LEMMA DaysLater ==
    ASSUME NEW dt, IsDate(dt), NEW n \in 0..28
    PROVE  IsDate(PlusDays(dt, n)) /\ DayNumber(PlusDays(dt, n)) = DayNumber(dt) + n
           /\ DayNumber(dt) \in Int
<1> DEFINE y == dt.y
           m == dt.m
           d == dt.d
<1>1. /\ y \in Int /\ m \in 1..12 /\ d \in 1..31 /\ d <= DaysInMonth(y, m)
      /\ dt = [y |-> y, m |-> m, d |-> d]
  BY DEF IsDate
<1>2. PlusDays(dt, n) = Normalized(y, m, d + n)
  BY DEF PlusDays
<1>3. DayNumber(dt) \in Int /\ DayNumber([y |-> y, m |-> m, d |-> d + n]) = DayNumber(dt) + n
  BY <1>1 DEF DayNumber
<1> HIDE DEF y, m, d
<1>4. DaysInMonth(y, m) \in 28..31
  BY <1>1, MonthsFollow
<1>5. PICK e \in 1..59 : e = d + n /\ e <= DaysInMonth(y, m) + 28
  BY <1>1, <1>4
<1>6. /\ IsDate(Normalized(y, m, e))
      /\ DayNumber(Normalized(y, m, e)) = DayNumber([y |-> y, m |-> m, d |-> e])
  BY <1>1, <1>5, SpillsOver
<1> QED
  BY <1>2, <1>3, <1>5, <1>6

\* A step of some months: the same day of the month that is meant, or one of the
\* first of the month after.
LEMMA MonthsLater ==
    ASSUME NEW dt, IsDate(dt), NEW n \in 1..12
    PROVE  /\ IsDate(PlusMonths(dt, n)) /\ MonthNumber(dt) \in Int
           /\ \/ /\ MonthNumber(PlusMonths(dt, n)) = MonthNumber(dt) + n
                 /\ PlusMonths(dt, n).d = dt.d
              \/ /\ MonthNumber(PlusMonths(dt, n)) = MonthNumber(dt) + n + 1
                 /\ dt.d > 28 /\ PlusMonths(dt, n).d <= 3
<1>1. dt.y \in Int /\ dt.m \in 1..12 /\ dt.d \in 1..31
  BY DEF IsDate
<1>2. PICK y \in Int, m \in 1..12 : /\ 12 * y + m = 12 * dt.y + dt.m + n
                                    /\ PlusMonths(dt, n) = Normalized(y, m, dt.d)
  <2>1. PICK b \in Int, c \in Int : b = dt.y /\ c = dt.m
    BY <1>1
  <2> DEFINE k == c - 1 + n
  <2>2. PICK v \in Int, w \in 0..11 : v = k \div 12 /\ w = k % 12 /\ k = 12 * v + w
    OBVIOUS
  <2>3. PICK y \in Int, m \in 1..12 : y = b + v /\ m = w + 1
    OBVIOUS
  <2>4. 12 * y + m = 12 * b + c + n
    BY <2>2, <2>3
  <2>5. PlusMonths(dt, n) = Normalized(y, m, dt.d)
    BY <2>1, <2>2, <2>3 DEF PlusMonths
  <2>6. 12 * y + m = 12 * dt.y + dt.m + n
    BY <2>1, <2>4
  <2> QED
    BY <2>5, <2>6
<1>3. DaysInMonth(y, m) \in 28..31
  BY MonthsFollow
<1>4. PICK d \in 1..59 : d = dt.d /\ d <= DaysInMonth(y, m) + 28
  BY <1>1, <1>3
<1>5. /\ IsDate(Normalized(y, m, d))
      /\ \/ /\ d <= DaysInMonth(y, m) /\ Normalized(y, m, d).d = d
            /\ MonthNumber(Normalized(y, m, d)) = 12 * y + m
         \/ /\ d > DaysInMonth(y, m) /\ Normalized(y, m, d).d = d - DaysInMonth(y, m)
            /\ MonthNumber(Normalized(y, m, d)) = 12 * y + m + 1
  BY <1>4, SpillsOver
<1>6. MonthNumber(dt) = 12 * dt.y + dt.m
  BY DEF MonthNumber
<1> QED
  BY <1>1, <1>2, <1>3, <1>4, <1>5, <1>6

\* The next working day: it is at most three days away, and those between are of
\* a weekend.
LEMMA NextWorkingDay ==
    ASSUME NEW dt, IsDate(dt)
    PROVE  \E n \in 1..3 :
              /\ AdvanceToNextWeekday(dt) = PlusDays(dt, n)
              /\ (DayNumber(dt) + n + 3) % 7 \notin {0, 6}
              /\ \A j \in 1..(n - 1) : (DayNumber(dt) + j + 3) % 7 \in {0, 6}
<1> DEFINE IsNext(k) == /\ ~IsWeekend(PlusDays(dt, k))
                        /\ \A j \in 1..(k - 1) : IsWeekend(PlusDays(dt, j))
           n == CHOOSE k \in 1..3 : IsNext(k)
<1>1. ASSUME NEW k \in 1..3
      PROVE  IsWeekend(PlusDays(dt, k)) <=> (DayNumber(dt) + k + 3) % 7 \in {0, 6}
  <2>1. PICK e \in 0..28 : e = k
    OBVIOUS
  <2>2. DayNumber(PlusDays(dt, e)) = DayNumber(dt) + e
    BY DaysLater
  <2> QED
    BY <2>1, <2>2 DEF IsWeekend, Weekday
<1>2. DayNumber(dt) \in Int
  <2>1. \A k \in {0} : DayNumber(dt) \in Int
    BY DaysLater
  <2> QED
    BY <2>1
<1>3. \E k \in 1..3 : IsNext(k)
  <2>1. \/ (DayNumber(dt) + 1 + 3) % 7 \notin {0, 6}
        \/ /\ (DayNumber(dt) + 1 + 3) % 7 \in {0, 6}
           /\ (DayNumber(dt) + 2 + 3) % 7 \notin {0, 6}
        \/ /\ (DayNumber(dt) + 1 + 3) % 7 \in {0, 6}
           /\ (DayNumber(dt) + 2 + 3) % 7 \in {0, 6}
           /\ (DayNumber(dt) + 3 + 3) % 7 \notin {0, 6}
    BY <1>2
  <2>2. \/ ~IsWeekend(PlusDays(dt, 1))
        \/ IsWeekend(PlusDays(dt, 1)) /\ ~IsWeekend(PlusDays(dt, 2))
        \/ /\ IsWeekend(PlusDays(dt, 1)) /\ IsWeekend(PlusDays(dt, 2))
           /\ ~IsWeekend(PlusDays(dt, 3))
    BY <1>1, <2>1
  <2>3. /\ 1..(1 - 1) = {} /\ 1..(2 - 1) = {1} /\ 1..(3 - 1) = {1, 2}
    OBVIOUS
  <2> QED
    BY <2>2, <2>3
<1>4. n \in 1..3 /\ IsNext(n)
  <2> HIDE DEF IsNext
  <2> QED
    BY <1>3
<1>5. AdvanceToNextWeekday(dt) = PlusDays(dt, n)
  BY DEF AdvanceToNextWeekday
<1> HIDE DEF n
<1>6. (DayNumber(dt) + n + 3) % 7 \notin {0, 6}
  BY <1>1, <1>4
<1>7. ASSUME NEW j \in 1..(n - 1) PROVE (DayNumber(dt) + j + 3) % 7 \in {0, 6}
  <2>1. IsWeekend(PlusDays(dt, j)) /\ j \in 1..3
    BY <1>4, <1>7
  <2> QED
    BY <1>1, <2>1
<1> QED
  BY <1>4, <1>5, <1>6, <1>7

-----------------------------------------------------------------------------
(* The dates of a rule.                                                       *)

SeriesSpec == SeriesInit /\ [][SeriesNext]_seriesVars

\* A rule of working days has had one date on each of them, weekends apart.
WorkingDaysOK ==
    periodicity = "DAILY_WEEKDAYS" =>
        /\ DayNumber(firstDate) <= DayNumber(date)
        /\ Cardinality(WorkingDaysSinceFirst) = advances
        /\ advances > 0 => ~IsWeekend(date)

SeriesIInv ==
    /\ IsDate(firstDate) /\ IsDate(date) /\ advances \in Nat /\ periodicity \in Periodicities
    /\ WorkingDaysOK
    /\ periodicity \in DOMAIN DaysOf =>
          DayNumber(date) = DayNumber(firstDate) + DaysOf[periodicity] * advances
    /\ periodicity \in DOMAIN MonthsOf =>
          \/ MonthNumber(date) = Expected /\ date.d = firstDate.d
          \/ MonthNumber(date) = Expected + 1 /\ firstDate.d > 28 /\ date.d <= 3

LEMMA StepsOf ==
    /\ DOMAIN DaysOf = {"DAILY", "WEEKLY", "BIWEEKLY"}
    /\ DOMAIN MonthsOf = {"MONTHLY", "BIMONTHLY", "QUARTERLY", "SEMIANNUAL", "YEARLY"}
    /\ \A p \in DOMAIN DaysOf : DaysOf[p] \in {1, 7, 14}
    /\ \A p \in DOMAIN MonthsOf : MonthsOf[p] \in {1, 2, 3, 6, 12}
  BY DEF DaysOf, MonthsOf

LEMMA OnceMore ==
    ASSUME NEW k \in Int, NEW n \in Nat PROVE k * n \in Int /\ k * (n + 1) = k * n + k
  OBVIOUS

LEMMA NumbersOf ==
    ASSUME NEW dt, IsDate(dt) PROVE DayNumber(dt) \in Int /\ MonthNumber(dt) \in Int
  BY DEF IsDate, DayNumber, MonthNumber

LEMMA SeriesBegins == ASSUME SeriesInit PROVE SeriesIInv
<1>1. /\ IsDate(firstDate) /\ date = firstDate /\ periodicity \in Periodicities /\ advances = 0
  BY FirstDatesAssumption DEF SeriesInit
<1>2. DayNumber(firstDate) \in Int /\ MonthNumber(firstDate) \in Int
  BY <1>1, NumbersOf
<1>3. WorkingDaysOK
  <2>1. (DayNumber(firstDate) + 1)..DayNumber(date) = {}
    BY <1>1, <1>2
  <2>2. WorkingDaysSinceFirst = {}
    BY <2>1 DEF WorkingDaysSinceFirst
  <2>3. Cardinality({}) = 0
    BY FS_EmptySet
  <2> QED
    BY <1>1, <1>2, <2>2, <2>3 DEF WorkingDaysOK
<1>4. periodicity \in DOMAIN DaysOf =>
          DayNumber(date) = DayNumber(firstDate) + DaysOf[periodicity] * advances
  BY <1>1, <1>2, StepsOf
<1>5. periodicity \in DOMAIN MonthsOf => MonthNumber(date) = Expected /\ date.d = firstDate.d
  BY <1>1, <1>2, StepsOf DEF Expected
<1> QED
  BY <1>1, <1>3, <1>4, <1>5 DEF SeriesIInv

WorkingDays(first, last) == {k \in (first + 1)..last : (k + 3) % 7 \notin {0, 6}}

\* The working day after a day is n days later.
WorksAfter(last, n) == /\ (last + n + 3) % 7 \notin {0, 6}
                       /\ \A j \in 1..(n - 1) : (last + j + 3) % 7 \in {0, 6}

\* The next working day is one working day more.
LEMMA OneWorkingDayMore ==
    ASSUME NEW first \in Int, NEW last \in Int, first <= last, NEW n \in 1..3,
           WorksAfter(last, n)
    PROVE  Cardinality(WorkingDays(first, last + n)) = Cardinality(WorkingDays(first, last)) + 1
<1> DEFINE S == WorkingDays(first, last)
           T == WorkingDays(first, last + n)
<1>1. IsFiniteSet(S) /\ Cardinality(S) \in Nat
  <2>1. IsFiniteSet((first + 1)..last)
    BY FS_Interval
  <2>2. S \subseteq (first + 1)..last
    BY DEF WorkingDays
  <2> QED
    BY <2>1, <2>2, FS_Subset, FS_CardinalityType
<1>2. T = S \cup {last + n}
  <2>1. ASSUME NEW k \in T PROVE k \in S \cup {last + n}
    <3>1. k \in Int /\ first + 1 <= k /\ k <= last + n /\ (k + 3) % 7 \notin {0, 6}
      BY <2>1 DEF WorkingDays
    <3>2. CASE k <= last
      BY <3>1, <3>2 DEF WorkingDays
    <3>3. CASE last < k /\ k < last + n
      <4>1. PICK j \in 1..(n - 1) : k = last + j
        BY <3>1, <3>3
      <4> QED
        BY <3>1, <4>1 DEF WorksAfter
    <3> QED
      BY <3>1, <3>2, <3>3
  <2>2. ASSUME NEW k \in S \cup {last + n} PROVE k \in T
    BY <2>2 DEF WorkingDays, WorksAfter
  <2> QED
    BY <2>1, <2>2
<1>3. last + n \notin S
  BY DEF WorkingDays
<1> QED
  BY <1>1, <1>2, <1>3, FS_AddElement

LEMMA SeriesGoesOn == ASSUME SeriesIInv, [SeriesNext]_seriesVars PROVE SeriesIInv'
<1>1. CASE UNCHANGED seriesVars
  BY <1>1 DEF seriesVars, SeriesIInv, WorkingDaysOK, WorkingDaysSinceFirst, Expected
<1>2. CASE SeriesNext
  <2>1. /\ firstDate' = firstDate /\ periodicity' = periodicity /\ periodicity # "ONCE"
        /\ date' = AdvanceScheduledDate(date, periodicity)
        /\ advances \in Nat /\ advances' = advances + 1
        /\ IsDate(firstDate) /\ IsDate(date) /\ periodicity \in Periodicities
    BY <1>2 DEF SeriesNext, SeriesIInv
  <2>2. PICK f \in Int, t \in Int : f = DayNumber(firstDate) /\ t = DayNumber(date)
    BY <2>1, NumbersOf
  <2>3. CASE periodicity = "DAILY_WEEKDAYS"
    <3>1. date' = AdvanceToNextWeekday(date)
      BY <2>1, <2>3, StepsOf DEF AdvanceScheduledDate
    <3>2. PICK n \in 1..3 : AdvanceToNextWeekday(date) = PlusDays(date, n) /\ WorksAfter(t, n)
      BY <2>1, <2>2, NextWorkingDay DEF WorksAfter
    <3>3. IsDate(date') /\ DayNumber(date') = t + n
      <4>1. PICK k \in 0..28 : k = n
        OBVIOUS
      <4>2. IsDate(PlusDays(date, k)) /\ DayNumber(PlusDays(date, k)) = t + k
        BY <2>1, <2>2, DaysLater
      <4> QED
        BY <3>1, <3>2, <4>1, <4>2
    <3>4. f <= t /\ Cardinality(WorkingDaysSinceFirst) = advances
      BY <2>2, <2>3 DEF SeriesIInv, WorkingDaysOK
    <3>5. WorkingDaysSinceFirst = WorkingDays(f, t) /\ WorkingDaysSinceFirst' = WorkingDays(f, t + n)
      BY <2>1, <2>2, <3>3 DEF WorkingDaysSinceFirst, WorkingDays
    <3>6. Cardinality(WorkingDays(f, t + n)) = Cardinality(WorkingDays(f, t)) + 1
      BY <3>2, <3>4, OneWorkingDayMore
    <3>7. ~IsWeekend(date')
      BY <3>2, <3>3 DEF IsWeekend, Weekday, WorksAfter
    <3>8. WorkingDaysOK'
      BY <2>1, <2>2, <3>2, <3>3, <3>4, <3>5, <3>6, <3>7 DEF WorkingDaysOK
    <3>9. periodicity \notin DOMAIN DaysOf /\ periodicity \notin DOMAIN MonthsOf
      BY <2>3, StepsOf
    <3> QED
      BY <2>1, <3>3, <3>8, <3>9 DEF SeriesIInv
  <2>4. CASE periodicity \in DOMAIN DaysOf
    <3>1. periodicity # "DAILY_WEEKDAYS" /\ periodicity \notin DOMAIN MonthsOf
      BY <2>4, StepsOf
    <3>2. PICK k \in 0..28 : k = DaysOf[periodicity]
      BY <2>4, StepsOf
    <3>3. date' = PlusDays(date, k)
      BY <2>1, <2>4, <3>1, <3>2 DEF AdvanceScheduledDate
    <3>4. IsDate(date') /\ DayNumber(date') = t + k
      BY <2>1, <2>2, <3>3, DaysLater
    <3>5. t = f + k * advances
      BY <2>2, <2>4, <3>2 DEF SeriesIInv
    <3>6. DayNumber(date') = f + k * (advances + 1)
      BY <2>1, <3>4, <3>5, OnceMore
    <3>7. WorkingDaysOK'
      BY <2>1, <3>1 DEF WorkingDaysOK
    <3> QED
      BY <2>1, <2>2, <3>1, <3>2, <3>4, <3>6, <3>7 DEF SeriesIInv
  <2>5. CASE periodicity \in DOMAIN MonthsOf
    <3>1. periodicity # "DAILY_WEEKDAYS" /\ periodicity \notin DOMAIN DaysOf
      BY <2>5, StepsOf
    <3>2. PICK k \in 1..12 : k = MonthsOf[periodicity]
      BY <2>5, StepsOf
    <3>3. date' = PlusMonths(date, k)
      BY <2>1, <2>5, <3>1, <3>2 DEF AdvanceScheduledDate
    <3>4. /\ IsDate(date')
          /\ \/ MonthNumber(date') = MonthNumber(date) + k /\ date'.d = date.d
             \/ MonthNumber(date') = MonthNumber(date) + k + 1 /\ date.d > 28 /\ date'.d <= 3
      BY <2>1, <3>3, MonthsLater
    <3>5. PICK b \in Int, c \in Int : b = Expected /\ c = MonthNumber(date)
      <4>1. MonthNumber(firstDate) \in Int /\ MonthNumber(date) \in Int /\ k * advances \in Int
        BY <2>1, NumbersOf
      <4> QED
        BY <3>2, <4>1 DEF Expected
    <3>6. Expected' = b + k
      <4>1. MonthNumber(firstDate) \in Int /\ k * advances \in Int
            /\ k * (advances + 1) = k * advances + k
        BY <2>1, NumbersOf, OnceMore
      <4> QED
        BY <2>1, <3>2, <3>5, <4>1 DEF Expected
    <3>7. \/ c = b /\ date.d = firstDate.d
          \/ c = b + 1 /\ firstDate.d > 28 /\ date.d <= 3
      BY <2>5, <3>5 DEF SeriesIInv
    <3>8. date.d \in Int /\ firstDate.d \in Int
      BY <2>1 DEF IsDate
    <3>9. \/ MonthNumber(date') = Expected' /\ date'.d = firstDate.d
          \/ MonthNumber(date') = Expected' + 1 /\ firstDate.d > 28 /\ date'.d <= 3
      BY <3>4, <3>5, <3>6, <3>7, <3>8
    <3>10. WorkingDaysOK'
      BY <2>1, <3>1 DEF WorkingDaysOK
    <3> QED
      BY <2>1, <3>1, <3>4, <3>9, <3>10 DEF SeriesIInv
  <2> QED
    BY <2>1, <2>3, <2>4, <2>5, PeriodicitiesAssumption
<1> QED
  BY <1>1, <1>2

\* However long a rule runs, its dates are the ones its periodicity promises: so many
\* days exactly, every working day and no other, or the same day of every so many
\* months but for one month left out, whatever its first date is
\* (advanceScheduledDate, ticket-auto-open.helper.ts).
THEOREM DatesAreAsPromised == SeriesSpec => []SeriesIsSound
<1>1. SeriesInit => SeriesIInv
  BY SeriesBegins
<1>2. SeriesIInv /\ [SeriesNext]_seriesVars => SeriesIInv'
  BY SeriesGoesOn
<1>3. SeriesIInv => SeriesIsSound
  BY DEF SeriesIInv, SeriesIsSound, WorkingDaysOK
<1> QED
  BY <1>1, <1>2, <1>3, PTL DEF SeriesSpec
=============================================================================
