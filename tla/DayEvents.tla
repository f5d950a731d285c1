------------------------------ MODULE DayEvents ------------------------------
(***************************************************************************)
(* The overtime of one user on one day, its approval, the voluntary        *)
(* justifications and the balance of overtime, translated from             *)
(* rendimento.service.ts and rendimento-overtime-balance.service.ts.       *)
(*                                                                         *)
(* Whoever opens a timesheet writes the events of the day from appointments*)
(* and justifications read before (syncDayEventsForDays, upsertDayEvent),  *)
(* and then the balance; an administrator's list of what is to be approved *)
(* does the same without the balance.  Meanwhile events and justifications *)
(* are decided, edited and deleted.  Every statement is a step of its own. *)
(***************************************************************************)
EXTENDS Integers, SequencesExt, FiniteSetsExt

CONSTANTS
    Worked,           \* appointments
    Justifications,
    EventIds,         \* bound: rows of rendimento_day_events
    Minutes,          \* what an appointment or a justification may last
    Callers,          \* slots for calls in flight
    None,
    MaxOps,           \* bound: calls
    MaxMoves,         \* bound: changes of an appointment
    MaxDeaths         \* bound: calls that end half way

VARIABLES
    overtime,    \* the appointments of overtime and their minutes, 0 for none
    event,       \* rendimento_day_events
    just,        \* rendimento_gap_justifications
    balance,     \* rendimento_overtime_balances
    op,          \* the calls in flight
    drift,       \* why the balance may differ from its formula
    ops, moves, deaths    \* what the bounds count

dayVars == <<overtime, event, just, balance, op, drift, ops, moves, deaths>>

-----------------------------------------------------------------------------
\* buildDayEventSourceKey: the times of a day event are told apart by the
\* minutes between them.
Key == [kind: {"OVERTIME", "JUSTIFICATION"}, of: Worked \cup Justifications, minutes: Minutes]

Event == [kind: {"OVERTIME", "JUSTIFICATION"}, of: Worked \cup Justifications,
          key: Key, minutes: Minutes, status: {"PENDING", "APPROVED", "REJECTED"},
          protected: BOOLEAN, deleted: BOOLEAN]

Justification == [minutes: Minutes, debit: BOOLEAN, deleted: BOOLEAN,
                  status: {"PENDING", "APPROVED", "REJECTED"}]

ASSUME DayAssumption ==
    /\ Minutes \subseteq Nat \ {0} /\ EventIds \subseteq Nat \ {0}
    /\ None \notin EventIds \cup Event \cup Justification \cup Justifications
    /\ IsFiniteSet(Worked) /\ IsFiniteSet(Justifications)

\* What upsertDayEvent is called with.
Item == [kind: {"OVERTIME", "JUSTIFICATION"}, of: Worked \cup Justifications, minutes: Minutes,
         status: {"PENDING", "APPROVED", "REJECTED"}]
KeyOf(item) == [kind |-> item.kind, of |-> item.of, minutes |-> item.minutes]

Decided(status) == status \in {"APPROVED", "REJECTED"}
Rows == {e \in EventIds : event[e] # None}
LiveRows == {e \in Rows : ~event[e].deleted}
Stored(j) == just[j] # None

\* A step is "find", "reconcile", "write", "insert" of the item at the head of
\* items, or one of those that follow.
DaySteps == {"find", "reconcile", "write", "insert", "undo", "decide", "decideJust", "markEvents",
             "editJust", "editEvents", "deleteJust", "deleteEvents",
             "extra", "protected", "debited", "save"}

NoOp == [todo |-> << >>, then |-> << >>, items |-> << >>, row |-> None, seen |-> None,
         of |-> None, decision |-> None, minutes |-> 0, debit |-> FALSE,
         extra |-> 0, protected |-> 0, debited |-> 0]

-----------------------------------------------------------------------------
(* The balance: the overtime of the payroll period, minus what was approved,*)
(* minus what approved justifications debit.  The appointments are taken to *)
(* be disjoint, so that the union of their minutes is their sum.            *)

Protects(e) == /\ e \in LiveRows /\ event[e].kind = "OVERTIME"
               /\ event[e].status = "APPROVED" /\ event[e].protected
Debits(j) == Stored(j) /\ ~just[j].deleted /\ just[j].status = "APPROVED" /\ just[j].debit

ExtraMinutes == SumFunction(overtime)
ProtectedMinutes ==
    SumFunction([e \in EventIds |-> IF Protects(e) THEN event[e].minutes ELSE 0])
DebitedMinutes ==
    SumFunction([j \in Justifications |-> IF Debits(j) THEN just[j].minutes ELSE 0])
NetBalance(extra, protected, debited) == extra - protected - debited
Due == NetBalance(ExtraMinutes, ProtectedMinutes, DebitedMinutes)

-----------------------------------------------------------------------------
\* The items of a synchronisation, in some order: the overtime of the day, then
\* its voluntary justifications.
OvertimeItems == {[kind |-> "OVERTIME", of |-> x, minutes |-> overtime[x], status |-> "PENDING"] :
                     x \in {y \in Worked : overtime[y] > 0}}
JustificationItems == {[kind |-> "JUSTIFICATION", of |-> j, minutes |-> just[j].minutes,
                        status |-> just[j].status] :
                     j \in {k \in Justifications : Stored(k) /\ ~just[k].deleted}}
Agendas == {s \o t : s \in SetToSeqs(OvertimeItems), t \in SetToSeqs(JustificationItems)}

Refresh == <<"extra", "protected", "debited", "save">>

StartOp(c, o) ==
    /\ op[c] = NoOp /\ ops < MaxOps
    /\ ops' = ops + 1
    /\ op' = [op EXCEPT ![c] = o]

\* getTimesheet, which then refreshes the balance, and
\* syncDayEventsForApprovalRange, which does not.
Synchronise(c, then) ==
    /\ \E items \in Agendas :
          /\ items # << >> \/ then # << >>
          /\ StartOp(c, [NoOp EXCEPT !.items = items, !.then = then,
                                     !.todo = IF items = << >> THEN then ELSE <<"find">>])
    /\ UNCHANGED <<overtime, event, just, balance, drift, moves, deaths>>

\* decideDayEvent reads a pending row of overtime.
DecideDayEvent(c, e, decision) ==
    /\ e \in LiveRows /\ event[e].kind = "OVERTIME" /\ event[e].status = "PENDING"
    /\ StartOp(c, [NoOp EXCEPT !.todo = <<"decide", "reconcile">> \o Refresh, !.row = e,
                               !.of = event[e].of, !.decision = decision])
    /\ UNCHANGED <<overtime, event, just, balance, drift, moves, deaths>>

\* createGapJustification: a row, and then its event.
CreateJustification(c, j, minutes, debit) ==
    /\ ~Stored(j)
    /\ just' = [just EXCEPT ![j] = [minutes |-> minutes, debit |-> debit,
                                    deleted |-> FALSE, status |-> "PENDING"]]
    /\ StartOp(c, [NoOp EXCEPT !.todo = <<"find">>, !.of = j,
                               !.items = <<[kind |-> "JUSTIFICATION", of |-> j,
                                            minutes |-> minutes, status |-> "PENDING"]>>])
    /\ UNCHANGED <<overtime, event, balance, drift, moves, deaths>>

\* updateGapJustification and decideGapJustification read a pending justification,
\* deleteGapJustification any.
EditJustification(c, j, minutes, debit) ==
    /\ Stored(j) /\ ~just[j].deleted /\ just[j].status = "PENDING"
    /\ StartOp(c, [NoOp EXCEPT !.todo = <<"editJust", "editEvents">>, !.of = j,
                               !.minutes = minutes, !.debit = debit])
    /\ UNCHANGED <<overtime, event, just, balance, drift, moves, deaths>>

DecideJustification(c, j, decision) ==
    /\ Stored(j) /\ ~just[j].deleted /\ just[j].status = "PENDING"
    /\ StartOp(c, [NoOp EXCEPT !.todo = <<"decideJust", "markEvents">> \o Refresh, !.of = j,
                               !.decision = decision])
    /\ UNCHANGED <<overtime, event, just, balance, drift, moves, deaths>>

\* Mutant: the balance is not refreshed.
DeleteJustification_NoRefresh(c, j) ==
    /\ Stored(j) /\ ~just[j].deleted
    /\ StartOp(c, [NoOp EXCEPT !.todo = <<"deleteJust", "deleteEvents">>, !.of = j])
    /\ UNCHANGED <<overtime, event, just, balance, drift, moves, deaths>>

DeleteJustification(c, j) ==
    /\ Stored(j) /\ ~just[j].deleted
    /\ StartOp(c, [NoOp EXCEPT !.todo = <<"deleteJust", "deleteEvents">> \o Refresh, !.of = j])
    /\ UNCHANGED <<overtime, event, just, balance, drift, moves, deaths>>

\* An appointment is edited, deleted or becomes one of overtime.
MoveAppointment(x, minutes) ==
    /\ moves < MaxMoves /\ overtime[x] # minutes
    /\ moves' = moves + 1
    /\ overtime' = [overtime EXCEPT ![x] = minutes]
    /\ drift' = drift \cup {"appointment"}
    /\ UNCHANGED <<event, just, balance, op, ops, deaths>>

-----------------------------------------------------------------------------
(* The steps of a call.                                                    *)

AtStep(c, step) == op[c].todo # << >> /\ Head(op[c].todo) = step

Proceed(c, o) == op' = [op EXCEPT ![c] = IF o.todo = << >> THEN NoOp ELSE o]
NextStep(o) == [o EXCEPT !.todo = Tail(o.todo)]

\* upsertDayEvent of an item has ended: the next item, or what follows them.
NextItem(o) ==
    LET left == Tail(o.items)
    IN [o EXCEPT !.items = left, !.row = None, !.seen = None,
                 !.todo = IF left = << >> THEN o.then ELSE <<"find">>]

\* It has thrown: a synchronisation gives up the items that are left, a new
\* justification is taken back.
Thrown(o) ==
    [o EXCEPT !.items = << >>, !.row = None, !.seen = None,
              !.todo = IF o.of \in Justifications THEN <<"undo">> ELSE o.then]

\* The rows upsertDayEvent may take for an item: for overtime a row of the
\* appointment, live or decided, live ones first and then by status; otherwise
\* one of the same key, live ones first.
Priority(e) == CASE event[e].status = "APPROVED" -> 0 [] event[e].status = "REJECTED" -> 1
                 [] OTHER -> 2

ByAppointment(item) ==
    {e \in Rows : event[e].kind = "OVERTIME" /\ item.kind = "OVERTIME" /\ event[e].of = item.of
                      /\ (event[e].deleted => Decided(event[e].status))}
Before(e, f) ==
    \/ ~event[e].deleted /\ event[f].deleted
    \/ event[e].deleted = event[f].deleted /\ Priority(e) < Priority(f)
ByKey(item) == {e \in Rows : event[e].key = KeyOf(item)}

Current(item) ==
    IF ByAppointment(item) # {}
    THEN {e \in ByAppointment(item) : \A f \in ByAppointment(item) : ~Before(f, e)}
    ELSE {e \in ByKey(item) : event[e].deleted => \A f \in ByKey(item) : event[f].deleted}

FindCurrent(c) ==
    /\ AtStep(c, "find")
    /\ LET item == Head(op[c].items) IN
       IF Current(item) = {}
       THEN Proceed(c, [op[c] EXCEPT !.todo = <<"insert">>])
       ELSE \E e \in Current(item) :
               Proceed(c, [op[c] EXCEPT !.row = e, !.seen = event[e],
                   !.todo = IF item.kind = "OVERTIME" THEN <<"reconcile", "write">> ELSE <<"write">>])
    /\ UNCHANGED <<overtime, event, just, balance, drift, ops, moves, deaths>>

\* reconcileOvertimeDayEventSync: its second statement deletes rows of the same
\* key, which are among those of the same appointment that the first deletes.
Superfluous(keep) ==
    {e \in LiveRows \ {keep} : /\ event[e].kind = "OVERTIME" /\ event[e].of = event[keep].of
                               /\ ~Decided(event[e].status)}

Reconcile(c) ==
    /\ AtStep(c, "reconcile")
    /\ event' = [e \in EventIds |-> IF e \in Superfluous(op[c].row)
                                    THEN [event[e] EXCEPT !.deleted = TRUE] ELSE event[e]]
    /\ Proceed(c, NextStep(op[c]))
    /\ UNCHANGED <<overtime, just, balance, drift, ops, moves, deaths>>

\* Mutant: only an approval is kept.
KeepsStatus_Approved(item, seen) == item.kind = "OVERTIME" /\ seen.status = "APPROVED"

\* The row upsertDayEvent writes by id: a decision it has read is kept.
KeepsStatus(item, seen) == item.kind = "OVERTIME" /\ Decided(seen.status)

Written(row, item, seen) ==
    [row EXCEPT !.minutes = item.minutes, !.key = KeyOf(item), !.deleted = FALSE,
                !.status = IF KeepsStatus(item, seen) THEN @ ELSE item.status,
                !.protected = IF KeepsStatus(item, seen) THEN @ ELSE seen.protected]

\* The key of a live row is unique (rendimento_day_events_user_source_uniq).
KeyTaken(item, e) == \E f \in LiveRows \ {e} : event[f].key = KeyOf(item)

\* Nobody refreshes the balance after a synchronisation for approval.
DriftOfSync(c) ==
    drift' = IF op[c].then = << >> /\ ProtectedMinutes' # ProtectedMinutes
             THEN drift \cup {"approval list"} ELSE drift

\* Nor after an edit, or the end of a creation that failed.
DriftOfEdit ==
    drift' = IF DebitedMinutes' # DebitedMinutes THEN drift \cup {"edit"} ELSE drift

WriteRow(c) ==
    LET o == op[c]
        item == Head(o.items)
    IN
    /\ AtStep(c, "write")
    /\ IF KeyTaken(item, o.row)
       THEN Proceed(c, Thrown(o)) /\ UNCHANGED event
       ELSE /\ event' = [event EXCEPT ![o.row] = Written(event[o.row], item, o.seen)]
            /\ Proceed(c, NextItem(o))
    /\ DriftOfSync(c)
    /\ UNCHANGED <<overtime, just, balance, ops, moves, deaths>>

\* INSERT ... ON CONFLICT: a live row of the same key is overwritten, unless it
\* is decided overtime; then no row returns, and the upsert throws.
InsertRow(c) ==
    LET o == op[c]
        item == Head(o.items)
        same == {e \in LiveRows : event[e].key = KeyOf(item)}
        row == [kind |-> item.kind, of |-> item.of, key |-> KeyOf(item), minutes |-> item.minutes,
                status |-> item.status, protected |-> FALSE, deleted |-> FALSE]
    IN
    /\ AtStep(c, "insert")
    /\ IF same = {}
       THEN \E e \in EventIds \ Rows :
               /\ \A f \in EventIds \ Rows : e <= f
               /\ event' = [event EXCEPT ![e] = row] /\ Proceed(c, NextItem(o))
       ELSE \E e \in same :
               IF item.kind = "OVERTIME" /\ Decided(event[e].status)
               THEN Proceed(c, Thrown(o)) /\ UNCHANGED event
               ELSE event' = [event EXCEPT ![e] = row] /\ Proceed(c, NextItem(o))
    /\ DriftOfSync(c)
    /\ UNCHANGED <<overtime, just, balance, ops, moves, deaths>>

\* A statement of an upsert fails.
UpsertFails(c) ==
    /\ \E step \in {"find", "reconcile", "write", "insert"} : AtStep(c, step)
    /\ op[c].items # << >> /\ deaths < MaxDeaths
    /\ deaths' = deaths + 1
    /\ Proceed(c, Thrown(op[c]))
    /\ UNCHANGED <<overtime, event, just, balance, drift, ops, moves>>

\* The justification whose event could not be written is taken back.  Its row
\* is deleted for good, decided meanwhile or not; nothing here tells that from
\* a row marked deleted.
TakeBack(c) ==
    /\ AtStep(c, "undo")
    /\ just' = [just EXCEPT ![op[c].of].deleted = TRUE]
    /\ DriftOfEdit
    /\ Proceed(c, NoOp)
    /\ UNCHANGED <<overtime, event, balance, ops, moves, deaths>>

\* The write of decideDayEvent is for a row that is still pending and live.
WriteDecision(c) ==
    LET o == op[c] IN
    /\ AtStep(c, "decide")
    /\ IF o.row \in LiveRows /\ event[o.row].status = "PENDING"
       THEN /\ event' = [event EXCEPT ![o.row].status = o.decision,
                                      ![o.row].protected = (o.decision = "APPROVED")]
            /\ Proceed(c, NextStep(o))
       ELSE Proceed(c, NoOp) /\ UNCHANGED event
    /\ UNCHANGED <<overtime, just, balance, drift, ops, moves, deaths>>

\* That of decideGapJustification likewise ...
DecideJust(c) ==
    LET o == op[c] IN
    /\ AtStep(c, "decideJust")
    /\ IF just[o.of].status = "PENDING" /\ ~just[o.of].deleted
       THEN /\ just' = [just EXCEPT ![o.of].status = o.decision]
            /\ Proceed(c, NextStep(o))
       ELSE Proceed(c, NoOp) /\ UNCHANGED just
    /\ UNCHANGED <<overtime, event, balance, drift, ops, moves, deaths>>

\* ... but the events of the justification are written whatever they are by now.
EventsOf(j) == {e \in LiveRows : event[e].kind = "JUSTIFICATION" /\ event[e].of = j}

MarkEvents(c) ==
    LET o == op[c]
        Marked(row) ==
            CASE AtStep(c, "markEvents")   -> [row EXCEPT !.status = o.decision, !.protected = FALSE]
              [] AtStep(c, "editEvents")   -> [row EXCEPT !.minutes = o.minutes]
              [] AtStep(c, "deleteEvents") -> [row EXCEPT !.deleted = TRUE]
    IN
    /\ AtStep(c, "markEvents") \/ AtStep(c, "editEvents") \/ AtStep(c, "deleteEvents")
    /\ event' = [e \in EventIds |-> IF e \in EventsOf(o.of) THEN Marked(event[e]) ELSE event[e]]
    /\ Proceed(c, NextStep(o))
    /\ UNCHANGED <<overtime, just, balance, drift, ops, moves, deaths>>

\* updateGapJustification writes by id what was pending when it was read: one
\* approved since is edited too, and the balance is not refreshed.
EditJust(c) ==
    LET o == op[c] IN
    /\ AtStep(c, "editJust")
    /\ just' = [just EXCEPT ![o.of].minutes = o.minutes, ![o.of].debit = o.debit]
    /\ DriftOfEdit
    /\ Proceed(c, NextStep(o))
    /\ UNCHANGED <<overtime, event, balance, ops, moves, deaths>>

DeleteJust(c) ==
    /\ AtStep(c, "deleteJust")
    /\ just' = [just EXCEPT ![op[c].of].deleted = TRUE]
    /\ Proceed(c, NextStep(op[c]))
    /\ UNCHANGED <<overtime, event, balance, drift, ops, moves, deaths>>

\* refreshBalance: three sums are read, one after the other, ...
ReadSum(c) ==
    LET o == op[c] IN
    /\ \/ AtStep(c, "extra") /\ Proceed(c, [NextStep(o) EXCEPT !.extra = ExtraMinutes])
       \/ AtStep(c, "protected") /\ Proceed(c, [NextStep(o) EXCEPT !.protected = ProtectedMinutes])
       \/ AtStep(c, "debited") /\ Proceed(c, [NextStep(o) EXCEPT !.debited = DebitedMinutes])
    /\ UNCHANGED <<overtime, event, just, balance, drift, ops, moves, deaths>>

\* ... and their difference is written.
SaveBalance(c) ==
    LET o == op[c] IN
    /\ AtStep(c, "save")
    /\ balance' = NetBalance(o.extra, o.protected, o.debited)
    /\ drift' = IF balance' = Due THEN {} ELSE {"overtaken"}
    /\ Proceed(c, NoOp)
    /\ UNCHANGED <<overtime, event, just, ops, moves, deaths>>

\* The database or the process fails between two statements.
OpDies(c) ==
    /\ op[c] # NoOp /\ deaths < MaxDeaths
    /\ deaths' = deaths + 1
    /\ op' = [op EXCEPT ![c] = NoOp]
    /\ drift' = IF op[c].then # << >> \/ "save" \in Range(op[c].todo)
                THEN drift \cup {"died"} ELSE drift
    /\ UNCHANGED <<overtime, event, just, balance, ops, moves>>

OpStep(c) ==
    \/ FindCurrent(c) \/ Reconcile(c) \/ WriteRow(c) \/ InsertRow(c) \/ TakeBack(c)
    \/ WriteDecision(c) \/ DecideJust(c) \/ MarkEvents(c) \/ EditJust(c) \/ DeleteJust(c)
    \/ ReadSum(c) \/ SaveBalance(c)

-----------------------------------------------------------------------------
\* The appointments are new: no timesheet has been opened yet.
DayInit ==
    /\ overtime \in [Worked -> Minutes]
    /\ event = [e \in EventIds |-> None]
    /\ just = [j \in Justifications |-> None]
    /\ balance = 0 /\ drift = {"appointment"}
    /\ op = [c \in Callers |-> NoOp]
    /\ ops = 0 /\ moves = 0 /\ deaths = 0

DayNext ==
    \/ \E x \in Worked, m \in Minutes \cup {0} : MoveAppointment(x, m)
    \/ \E c \in Callers :
        \/ OpStep(c)
        \/ UpsertFails(c)
        \/ OpDies(c)
        \/ \E then \in {Refresh, << >>} : Synchronise(c, then)
        \/ \E d \in {"APPROVED", "REJECTED"} :
              \/ \E e \in EventIds : DecideDayEvent(c, e, d)
              \/ \E j \in Justifications : DecideJustification(c, j, d)
        \/ \E j \in Justifications, m \in Minutes, debit \in BOOLEAN :
              \/ CreateJustification(c, j, m, debit)
              \/ EditJustification(c, j, m, debit)
        \/ \E j \in Justifications : DeleteJustification(c, j)

DaySpec == DayInit /\ [][DayNext]_dayVars

-----------------------------------------------------------------------------
\* The types of the rows and of the calls in flight.
DayTypeOK ==
    /\ overtime \in [Worked -> Minutes \cup {0}]
    /\ \A e \in Rows : event[e] \in Event
    /\ \A j \in Justifications : Stored(j) => just[j] \in Justification
    /\ balance \in Int
    /\ \A c \in Callers : /\ op[c].todo \in Seq(DaySteps)
                          /\ op[c].items \in Seq(Item)
                          /\ AtStep(c, "write") => op[c].row \in Rows

\* A synchronisation that read an event, or its justification, before the
\* decision on it.
ReadUndecided(c, e) ==
    /\ op[c].items # << >>
    /\ LET item == Head(op[c].items) IN
       /\ item.kind = event[e].kind /\ item.of = event[e].of /\ ~Decided(item.status)
       /\ item.kind = "OVERTIME" => ~Decided(op[c].seen.status)

\* A decision on overtime or on a justification stands: no event that was
\* approved or rejected gets another status, but by a synchronisation that had
\* read it, or its justification, before the decision (upsertDayEvent); and
\* nothing deletes an event of decided overtime (reconcileOvertimeDayEventSync).
DecisionsAreKept ==
    [][\A e \in LiveRows : Decided(event[e].status) =>
          /\ event'[e].status # event[e].status => \E c \in Callers :
                op'[c] # op[c] /\ (AtStep(c, "write") \/ AtStep(c, "insert")) /\ ReadUndecided(c, e)
          /\ event[e].kind = "OVERTIME" => ~event'[e].deleted]_dayVars

\* With no recalculation in flight the balance is what its formula gives
\* (docs/CONTRATO_RELATORIOS_HORAS.md, 8.2), unless since the last one an
\* appointment has moved, a list for approval or the edit or the end of a
\* failed creation of a justification approved meanwhile has changed a sum, a
\* call has died, or that last one wrote sums that another call had overtaken
\* (refreshBalance).
BalanceIsCurrent ==
    (drift = {} /\ \A c \in Callers : op[c].then = << >> /\ "save" \notin Range(op[c].todo))
        => balance = Due
=============================================================================
