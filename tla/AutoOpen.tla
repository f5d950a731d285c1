------------------------------- MODULE AutoOpen -------------------------------
(***************************************************************************)
(* The rules that open tickets by themselves, translated from              *)
(* ticket-auto-open.service.ts and ticket-auto-open.job.ts: the runs of    *)
(* processDueRules, by the cron and by an administrator, and the           *)
(* administrator's changes to the rules.                                   *)
(*                                                                         *)
(* A run works on the rows it read at its start, one rule after the other, *)
(* and writes each rule back by its id.  Nothing keeps two runs apart but  *)
(* the flag of the cron's own process.  Time goes in slots of a day; the   *)
(* calendar of RuleCalendar is abstracted to a number of days per rule.    *)
(***************************************************************************)
EXTENDS Integers, Sequences, FiniteSets

CONSTANTS
    Rules,
    EveryDays,      \* days between the tickets of a rule, 0 for periodicity ONCE
    SlotOf,         \* scheduleTime of a rule, as a slot of the day
    SlotsPerDay,
    LastDay,        \* bound: days
    Runners,        \* who calls processDueRules: the cron, an administrator
    RunLimit,       \* the limit each of them passes (10 for the cron, else 20)
    Take,           \* rules a run looks at (100)
    MaxFailures,    \* MAX_FALHAS_SEGUIDAS (5)
    MaxFaults,      \* bound: errors of a moment, and runs that die half way
    MaxChanges      \* bound: changes by administrators

ASSUME AutoOpenAssumption ==
    /\ SlotsPerDay \in Nat \ {0} /\ LastDay \in Nat
    /\ EveryDays \in [Rules -> Nat] /\ SlotOf \in [Rules -> 0..(SlotsPerDay - 1)]
    /\ RunLimit \in [Runners -> Nat \ {0}] /\ Take \in Nat \ {0}
    /\ MaxFailures \in Nat \ {0} /\ MaxFaults \in Nat /\ MaxChanges \in Nat
    /\ IsFiniteSet(Rules)

VARIABLES
    clock,      \* the time, in slots
    rule,       \* the rows of ticket_auto_open_rules
    broken,     \* the rules whose tickets createTicket always refuses
    run,        \* the runs in flight
    opened,     \* the dates a rule has opened a ticket for
    failed,     \* the dates a failure of the rule was recorded at
    twice,      \* rules that have opened two tickets for one date
    excused,    \* rules whose ticket may have been opened twice
    since,      \* the date from which a rule may miss no ticket
    used        \* what the bounds count

ruleVars == <<clock, rule, broken, run, opened, failed, twice, excused, since, used>>

-----------------------------------------------------------------------------
Days == 0..LastDay
Dates == 0..(LastDay + 1)     \* the day after the last is never due

RuleRow == [active: BOOLEAN, deleted: BOOLEAN, next: Dates, failures: Nat]

Snapshot == [id: Rules, next: Dates, failures: Nat]

Run == [pc: {"idle", "rule", "opened", "failed"}, todo: Seq(Snapshot), processed: Nat]

RuleTypeOK ==
    /\ clock \in 0..((LastDay + 1) * SlotsPerDay - 1)
    /\ rule \in [Rules -> RuleRow]
    /\ broken \subseteq Rules
    /\ run \in [Runners -> Run]
    /\ \A w \in Runners : run[w].pc # "idle" => run[w].todo # << >>
    /\ opened \in [Rules -> SUBSET Dates] /\ failed \in [Rules -> SUBSET Dates]
    /\ twice \subseteq Rules /\ excused \subseteq Rules
    /\ since \in [Rules -> Dates \cup {LastDay + 2}]
    /\ used \in [faults: 0..MaxFaults, changes: 0..MaxChanges]

NoRun == [pc |-> "idle", todo |-> << >>, processed |-> 0]

RuleInit ==
    /\ clock = 0
    /\ rule = [r \in Rules |-> [active |-> TRUE, deleted |-> FALSE, next |-> 0, failures |-> 0]]
    /\ broken \in SUBSET Rules
    /\ run = [w \in Runners |-> NoRun]
    /\ opened = [r \in Rules |-> {}] /\ failed = [r \in Rules |-> {}]
    /\ twice = {} /\ excused = {}
    /\ since = [r \in Rules |-> 0]
    /\ used = [faults |-> 0, changes |-> 0]

-----------------------------------------------------------------------------
IsCandidate(r) == rule[r].active /\ ~rule[r].deleted

DueAt(r, date) == date * SlotsPerDay + SlotOf[r]

\* advanceScheduledDate; dates after the last day are all one.
AdvanceDate(r, date) ==
    IF date + EveryDays[r] > LastDay THEN IF EveryDays[r] = 0 THEN date ELSE LastDay + 1
    ELSE date + EveryDays[r]

SnapshotOf(r) == [id |-> r, next |-> rule[r].next, failures |-> rule[r].failures]

\* The first n of a query ordered by date: the rules of the earliest dates, those of
\* one date in any order.
FirstOf(n, rules) ==
    {first \in SUBSET rules :
        /\ Cardinality(first) = IF n < Cardinality(rules) THEN n ELSE Cardinality(rules)
        /\ \A r \in first, other \in rules \ first : rule[r].next <= rule[other].next}

Queries(rules) ==
    {q \in [1..Cardinality(rules) -> rules] :
        /\ \A i, j \in DOMAIN q : i # j => q[i] # q[j]
        /\ \A i, j \in DOMAIN q : i < j => rule[q[i]].next <= rule[q[j]].next}

Current(w) == Head(run[w].todo)

\* A rule that another run read before and has not come to yet.
HeldByOther(w) ==
    {r \in Rules : \E v \in Runners \ {w} : \E i \in DOMAIN run[v].todo : run[v].todo[i].id = r}

Held(r) == \E w \in Runners : \E i \in DOMAIN run[w].todo : run[w].todo[i].id = r

Use(what) == used' = [used EXCEPT ![what] = @ + 1]

\* The run goes on to its next rule, unless it has reached its limit.
\* Mutant: it does not see the end of its list.
NextRule_NoEnd(w, processed) ==
    run' = [run EXCEPT ![w] =
        IF processed >= RunLimit[w] THEN NoRun
        ELSE [pc |-> "rule", todo |-> Tail(@.todo), processed |-> processed]]

NextRule(w, processed) ==
    run' = [run EXCEPT ![w] =
        IF Len(@.todo) = 1 \/ processed >= RunLimit[w] THEN NoRun
        ELSE [pc |-> "rule", todo |-> Tail(@.todo), processed |-> processed]]

\* The ticket of the rule's date is made.
MakeTicket(w) ==
    LET c == Current(w)
    IN /\ opened' = [opened EXCEPT ![c.id] = @ \cup {c.next}]
       /\ twice' = twice \cup (IF c.next \in opened[c.id] THEN {c.id} ELSE {})

-----------------------------------------------------------------------------
\* processDueRules reads its candidates; those that are not due are passed over.
StartRun(w) ==
    /\ run[w].pc = "idle"
    /\ \E first \in FirstOf(Take, {r \in Rules : IsCandidate(r)}) :
          \E due \in Queries({r \in first : DueAt(r, rule[r].next) <= clock}) :
             /\ due # << >>
             /\ run' = [run EXCEPT ![w] =
                   [pc |-> "rule", processed |-> 0,
                    todo |-> [i \in DOMAIN due |-> SnapshotOf(due[i])]]]
             /\ excused' = excused \cup (HeldByOther(w) \cap {due[i] : i \in DOMAIN due})
    /\ UNCHANGED <<clock, rule, broken, opened, failed, twice, since, used>>

OpenTicket(w) ==
    /\ run[w].pc = "rule" /\ Current(w).id \notin broken
    /\ MakeTicket(w)
    /\ run' = [run EXCEPT ![w].pc = "opened"]
    /\ UNCHANGED <<clock, rule, broken, failed, excused, since, used>>

\* createTicket refuses: a bad description, no author, a classification that
\* is no leaf any more.
OpenIsRefused(w) ==
    /\ run[w].pc = "rule" /\ Current(w).id \in broken
    /\ run' = [run EXCEPT ![w].pc = "failed"]
    /\ UNCHANGED <<clock, rule, broken, opened, failed, twice, excused, since, used>>

\* createTicket throws for a moment's reason, before the ticket exists or,
\* when it saves the description, after.
OpenFails(w) ==
    /\ run[w].pc = "rule" /\ Current(w).id \notin broken /\ used.faults < MaxFaults
    /\ \/ UNCHANGED <<opened, twice, excused>>
       \/ MakeTicket(w) /\ excused' = excused \cup {Current(w).id}
    /\ run' = [run EXCEPT ![w].pc = "failed"]
    /\ Use("faults")
    /\ UNCHANGED <<clock, rule, broken, failed, since>>

\* The row of a rule after its ticket: moved on from the date that was read,
\* or off for good.
\* Mutants: it is moved on from the date it has by now; a rule of one ticket
\* stays active.
AfterTicket_FromRow(row, c) ==
    IF EveryDays[c.id] = 0 THEN [row EXCEPT !.active = FALSE, !.failures = 0]
    ELSE [row EXCEPT !.next = AdvanceDate(c.id, row.next), !.failures = 0]

AfterTicket_StaysActive(row, c) ==
    [row EXCEPT !.next = AdvanceDate(c.id, c.next), !.failures = 0]

AfterTicket(row, c) ==
    IF EveryDays[c.id] = 0 THEN [row EXCEPT !.active = FALSE, !.failures = 0]
    ELSE [row EXCEPT !.next = AdvanceDate(c.id, c.next), !.failures = 0]

AdvanceRule(w) ==
    LET c == Current(w) IN
    /\ run[w].pc = "opened"
    /\ rule' = [rule EXCEPT ![c.id] = AfterTicket(@, c)]
    /\ NextRule(w, run[w].processed + 1)
    /\ UNCHANGED <<clock, broken, opened, failed, twice, excused, since, used>>

\* That write fails: the catch takes it for a failure of the rule.
AdvanceFails(w) ==
    /\ run[w].pc = "opened" /\ used.faults < MaxFaults
    /\ run' = [run EXCEPT ![w].pc = "failed"]
    /\ excused' = excused \cup {Current(w).id}
    /\ Use("faults")
    /\ UNCHANGED <<clock, rule, broken, opened, failed, twice, since>>

\* The row of a rule after a failure: on to its next date, or switched off where
\* it is.
\* Mutant: the failure is only recorded, and the rule fails in every run.
AfterFailure_StaysDue(row, c) == [row EXCEPT !.failures = 1]

AfterFailure(row, c) ==
    IF c.failures + 1 >= MaxFailures
    THEN [row EXCEPT !.active = FALSE, !.failures = c.failures + 1]
    ELSE [row EXCEPT !.next = AdvanceDate(c.id, c.next), !.failures = c.failures + 1]

\* registerRuleFailure
RegisterRuleFailure(w) ==
    LET c == Current(w)
    IN /\ run[w].pc = "failed"
       /\ rule' = [rule EXCEPT ![c.id] = AfterFailure(@, c)]
       /\ failed' = [failed EXCEPT ![c.id] = @ \cup {c.next}]
       /\ NextRule(w, run[w].processed)
       /\ UNCHANGED <<clock, broken, opened, twice, excused, since, used>>

\* Its own failure is swallowed: the rule stays due.
RegisterFails(w) ==
    /\ run[w].pc = "failed" /\ used.faults < MaxFaults
    /\ NextRule(w, run[w].processed)
    /\ Use("faults")
    /\ UNCHANGED <<clock, rule, broken, opened, failed, twice, excused, since>>

RunDies(w) ==
    /\ run[w].pc # "idle" /\ used.faults < MaxFaults
    /\ run' = [run EXCEPT ![w] = NoRun]
    /\ excused' = excused \cup (IF run[w].pc = "opened" THEN {Current(w).id} ELSE {})
    /\ Use("faults")
    /\ UNCHANGED <<clock, rule, broken, opened, failed, twice, since>>

-----------------------------------------------------------------------------
\* An administrator gives the rule another date: its tickets are due again
\* from there on.  A run that holds the rule may write its own date over it.
UpdateRule(r, date, active) ==
    /\ ~rule[r].deleted /\ used.changes < MaxChanges
    /\ rule' = [rule EXCEPT ![r].next = date, ![r].active = active]
    /\ since' = [since EXCEPT ![r] = IF Held(r) THEN LastDay + 2 ELSE date]
    /\ excused' = excused \cup {r}
    /\ Use("changes")
    /\ UNCHANGED <<clock, broken, run, opened, failed, twice>>

SetActive(r, active) ==
    /\ ~rule[r].deleted /\ used.changes < MaxChanges
    /\ rule' = [rule EXCEPT ![r].active = active]
    /\ excused' = excused \cup (IF active /\ EveryDays[r] = 0 THEN {r} ELSE {})
    /\ Use("changes")
    /\ UNCHANGED <<clock, broken, run, opened, failed, twice, since>>

RemoveRule(r) ==
    /\ ~rule[r].deleted /\ used.changes < MaxChanges
    /\ rule' = [rule EXCEPT ![r].deleted = TRUE, ![r].active = FALSE]
    /\ Use("changes")
    /\ UNCHANGED <<clock, broken, run, opened, failed, twice, excused, since>>

TimePasses ==
    /\ clock < (LastDay + 1) * SlotsPerDay - 1
    /\ clock' = clock + 1
    /\ UNCHANGED <<rule, broken, run, opened, failed, twice, excused, since, used>>

-----------------------------------------------------------------------------
RunStep(w) == OpenTicket(w) \/ OpenIsRefused(w) \/ AdvanceRule(w) \/ RegisterRuleFailure(w)

RuleNext ==
    \/ TimePasses
    \/ \E w \in Runners : \/ StartRun(w) \/ RunStep(w) \/ OpenFails(w) \/ AdvanceFails(w)
                          \/ RegisterFails(w) \/ RunDies(w)
    \/ \E r \in Rules : \/ \E date \in Days, active \in BOOLEAN : UpdateRule(r, date, active)
                        \/ \E active \in BOOLEAN : SetActive(r, active)
                        \/ RemoveRule(r)

-----------------------------------------------------------------------------
\* The dates of a rule before its next one.
DatesBefore(r) ==
    {d \in Dates : /\ since[r] <= d /\ d < rule[r].next
                   /\ EveryDays[r] # 0 /\ (d - since[r]) % EveryDays[r] = 0}

\* A rule moves past none of its dates without a ticket or a recorded failure,
\* whatever runs overlap or die: only an administrator's change to a rule that
\* a run has already read may lose a ticket.
NoDateIsSkipped == \A r \in Rules : DatesBefore(r) \subseteq opened[r] \cup failed[r]

\* One date gets two tickets only if two runs had the rule at once, or the
\* run stopped between the ticket and the row (it died, or an error came after
\* the ticket), or an administrator asked for the date again.  A rule that
\* merely failed is never the reason.
TwiceIsExplained == twice \subseteq excused

\* A date of a rule is neither passed over nor opened twice without a cause.
EveryDateOnce == NoDateIsSkipped /\ TwiceIsExplained

\* An active rule whose date has come, without a ticket or a failure for it.
IsWaiting(r) ==
    /\ IsCandidate(r) /\ DueAt(r, rule[r].next) <= clock
    /\ rule[r].next \notin opened[r] \cup failed[r]

\* A rule whose date has come gets its ticket, or its failure is recorded, once
\* administrators change nothing more: neither the 100 rules a run looks at nor
\* the rules before it that always fail keep a rule from it.
DueIsServed ==
    \A r \in Rules : used.changes = MaxChanges /\ IsWaiting(r) ~> ~IsWaiting(r)
=============================================================================
