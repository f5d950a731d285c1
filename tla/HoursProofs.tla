----------------------------- MODULE HoursProofs -----------------------------
(* The events of a day never change what a person decided and the balance of  *)
(* a day is the one of its rows, and the activities, links and phase of a     *)
(* project are those of the appointments, unless a call ended half way or     *)
(* wrote what another had overtaken: for any number of calls at once, rows,   *)
(* appointments and activities.  Their sums stay opaque: what is proved is    *)
(* that they are taken over the rows that are there.  The minutes of a report *)
(* are counted once, whatever its rows: the loops that sort, merge, subtract  *)
(* and sum are followed round by round.  The three components share nothing;  *)
(* each has its part of this module.                                          *)
EXTENDS WorkedMinutes, DayEvents, ProjectProgress, FiniteSetTheorems, SequenceTheorems,
        WellFoundedInduction, TLAPS

-----------------------------------------------------------------------------
(* DayEvents.  The event of a justification is decided as the justification *)
(* is, what a synchronisation has still to write follows what was decided,  *)
(* and the statements a call has left are one of the code's lists; who has  *)
(* changed a sum owes its day a balance.                                    *)


\* A call has the fields of a call.
IsCall(o) ==
    o = [todo |-> o.todo, then |-> o.then, items |-> o.items, row |-> o.row, seen |-> o.seen,
         of |-> o.of, decision |-> o.decision, minutes |-> o.minutes, debit |-> o.debit,
         extra |-> o.extra, protected |-> o.protected, debited |-> o.debited]

IsStored(j, js) == j \in Justifications /\ js[j] # None
Follows(status, j, js) == Decided(status) => js[j].status = status

\* What a synchronisation has read of overtime is never a decision, and what it
\* has read of a decided justification is still so.
ItemOK(item, js) ==
    /\ item \in Item
    /\ item.kind = "OVERTIME" => item.status = "PENDING"
    /\ item.kind = "JUSTIFICATION" => IsStored(item.of, js) /\ Follows(item.status, item.of, js)
ItemsOK(items, js) == items \in Seq(Item) /\ \A i \in 1..Len(items) : ItemOK(items[i], js)

\* The key of an event has its kind and its origin; the event of a justification
\* is decided as the justification is.
RowOK(row, js) ==
    /\ row \in Event
    /\ row.key.kind = row.kind /\ row.key.of = row.of
    /\ row.kind = "JUSTIFICATION" => IsStored(row.of, js) /\ Follows(row.status, row.of, js)

Upserting == {<<"find">>, <<"insert">>, <<"reconcile", "write">>, <<"write">>}
Refreshing == {<<"extra", "protected", "debited", "save">>, <<"protected", "debited", "save">>,
               <<"debited", "save">>, <<"save">>}
Decision == {"APPROVED", "REJECTED"}
IsRow(e, table) == e \in EventIds /\ table[e] # None

UpsertOK(o, table, js) ==
    /\ o.todo \in Upserting
    /\ o.items # << >> /\ ItemsOK(o.items, js)
    /\ o.then \in {<< >>, Refresh} /\ (o.of \in Justifications => o.then = << >>)
    /\ o.of \in Justifications => js[o.of] # None
    /\ o.todo \in {<<"reconcile", "write">>, <<"write">>} =>
          /\ IsRow(o.row, table) /\ o.seen \in Event
          /\ table[o.row].kind = Head(o.items).kind /\ table[o.row].of = Head(o.items).of

\* What a call that is no synchronisation has yet to do, and about what.
DecideOK(o, table) ==
    /\ o.todo \in {<<"decide", "reconcile", "extra", "protected", "debited", "save">>, <<"reconcile", "extra", "protected", "debited", "save">>}
    /\ IsRow(o.row, table) /\ table[o.row].kind = "OVERTIME" /\ o.decision \in Decision
    /\ o.items = << >>
JustOK(o, js) ==
    /\ o.todo \in {<<"decideJust", "markEvents", "extra", "protected", "debited", "save">>, <<"markEvents", "extra", "protected", "debited", "save">>}
    /\ IsStored(o.of, js) /\ o.decision \in Decision
    /\ o.todo = <<"markEvents", "extra", "protected", "debited", "save">> => js[o.of].status = o.decision
EditOK(o, js) ==
    /\ o.todo \in {<<"editJust", "editEvents">>, <<"editEvents">>}
    /\ IsStored(o.of, js) /\ o.minutes \in Minutes /\ o.debit \in BOOLEAN
DeleteOK(o, js) ==
    /\ o.todo \in {<<"deleteJust", "deleteEvents", "extra", "protected", "debited", "save">>, <<"deleteEvents", "extra", "protected", "debited", "save">>}
    /\ IsStored(o.of, js)
UndoOK(o, js) == o.todo = <<"undo">> /\ IsStored(o.of, js)

OpOK(o, table, js) ==
    /\ IsCall(o)
    /\ o.todo \notin Upserting \cup Refreshing => o.then = << >>
    /\ \/ o = NoOp \/ UpsertOK(o, table, js) \/ o.todo \in Refreshing
       \/ DecideOK(o, table) \/ JustOK(o, js) \/ EditOK(o, js) \/ DeleteOK(o, js) \/ UndoOK(o, js)

DayIInv ==
    /\ overtime \in [Worked -> Minutes \cup {0}]
    /\ event \in [EventIds -> Event \cup {None}]
    /\ just \in [Justifications -> Justification \cup {None}]
    /\ \A e \in Rows : RowOK(event[e], just)
    /\ op = [c \in Callers |-> op[c]]
    /\ \A c \in Callers : OpOK(op[c], event, just)

\* Justifications stay and keep what was decided; rows stay what they are of.
JustsGoOn(js, later) ==
    /\ later \in [Justifications -> Justification \cup {None}]
    /\ \A j \in Justifications : js[j] # None =>
          /\ later[j] # None
          /\ Decided(js[j].status) => later[j].status = js[j].status
RowsGoOn(table, later) ==
    \A e \in EventIds : table[e] # None =>
        later[e] # None /\ later[e].kind = table[e].kind /\ later[e].of = table[e].of

-----------------------------------------------------------------------------
LEMMA ItemStays ==
    ASSUME NEW item, NEW js, NEW later, ItemOK(item, js), JustsGoOn(js, later)
    PROVE  ItemOK(item, later)
BY DEF ItemOK, JustsGoOn, IsStored, Follows

LEMMA ItemsStay ==
    ASSUME NEW items, NEW js, NEW later, ItemsOK(items, js), JustsGoOn(js, later)
    PROVE  ItemsOK(items, later)
BY ItemStays DEF ItemsOK

LEMMA RowStays ==
    ASSUME NEW row, NEW js, NEW later, RowOK(row, js), JustsGoOn(js, later)
    PROVE  RowOK(row, later)
BY DEF RowOK, JustsGoOn, IsStored, Follows

\* The lists of the code, written out.
LEMMA TwoThenRefresh ==
    ASSUME NEW a, NEW b
    PROVE  <<a, b>> \o Refresh = <<a, b, "extra", "protected", "debited", "save">>
<1> DEFINE S == {a, b, "extra", "protected", "debited", "save"}
           s == <<a, b>> \o Refresh
           t == <<a, b, "extra", "protected", "debited", "save">>
<1>1. s \in Seq(S) /\ Len(s) = 6
  BY DEF Refresh
<1>2. t \in Seq(S) /\ Len(t) = 6
  OBVIOUS
<1>3. \A i \in 1..6 : s[i] = t[i]
  BY DEF Refresh
<1> HIDE DEF S, s, t
<1>4. s = t
  BY <1>1, <1>2, <1>3, SeqEqual
<1> QED BY <1>4 DEF s, t

LEMMA OpStays ==
    ASSUME NEW o, NEW table, NEW table2, NEW js, NEW js2, OpOK(o, table, js),
           RowsGoOn(table, table2), JustsGoOn(js, js2)
    PROVE  OpOK(o, table2, js2)
<1>1. UpsertOK(o, table, js) => UpsertOK(o, table2, js2)
  BY ItemsStay DEF UpsertOK, RowsGoOn, JustsGoOn, IsRow
<1>2. DecideOK(o, table) => DecideOK(o, table2)
  BY DEF DecideOK, RowsGoOn, IsRow
<1>3. JustOK(o, js) => JustOK(o, js2)
  BY DEF JustOK, JustsGoOn, IsStored, Decision, Decided
<1>4. EditOK(o, js) => EditOK(o, js2)
  BY DEF EditOK, JustsGoOn, IsStored
<1>5. DeleteOK(o, js) => DeleteOK(o, js2)
  BY DEF DeleteOK, JustsGoOn, IsStored
<1>6. UndoOK(o, js) => UndoOK(o, js2)
  BY DEF UndoOK, JustsGoOn, IsStored
<1> QED BY <1>1, <1>2, <1>3, <1>4, <1>5, <1>6 DEF OpOK

LEMMA StepOf ==
    ASSUME NEW o, NEW table, NEW js, OpOK(o, table, js), o.todo # << >>
    PROVE  /\ IsCall(o)
           /\ Head(o.todo) = "find" => UpsertOK(o, table, js) /\ o.todo = <<"find">>
           /\ Head(o.todo) = "insert" => UpsertOK(o, table, js) /\ o.todo = <<"insert">>
           /\ Head(o.todo) = "write" => UpsertOK(o, table, js) /\ o.todo = <<"write">>
           /\ Head(o.todo) = "reconcile" =>
                 \/ UpsertOK(o, table, js) /\ o.todo = <<"reconcile", "write">>
                 \/ /\ DecideOK(o, table) /\ o.then = << >>
                    /\ o.todo = <<"reconcile", "extra", "protected", "debited", "save">>
           /\ Head(o.todo) = "undo" => UndoOK(o, js) /\ o.then = << >>
           /\ Head(o.todo) = "decide" =>
                 /\ DecideOK(o, table) /\ o.then = << >>
                 /\ o.todo = <<"decide", "reconcile", "extra", "protected", "debited", "save">>
           /\ Head(o.todo) = "decideJust" =>
                 /\ JustOK(o, js) /\ o.then = << >>
                 /\ o.todo = <<"decideJust", "markEvents", "extra", "protected", "debited", "save">>
           /\ Head(o.todo) = "markEvents" =>
                 /\ JustOK(o, js) /\ o.then = << >>
                 /\ o.todo = <<"markEvents", "extra", "protected", "debited", "save">>
           /\ Head(o.todo) = "editJust" =>
                 EditOK(o, js) /\ o.then = << >> /\ o.todo = <<"editJust", "editEvents">>
           /\ Head(o.todo) = "editEvents" =>
                 EditOK(o, js) /\ o.then = << >> /\ o.todo = <<"editEvents">>
           /\ Head(o.todo) = "deleteJust" =>
                 /\ DeleteOK(o, js) /\ o.then = << >>
                 /\ o.todo = <<"deleteJust", "deleteEvents", "extra", "protected", "debited", "save">>
           /\ Head(o.todo) = "deleteEvents" =>
                 /\ DeleteOK(o, js) /\ o.then = << >>
                 /\ o.todo = <<"deleteEvents", "extra", "protected", "debited", "save">>
           /\ Head(o.todo) = "extra" => o.todo = <<"extra", "protected", "debited", "save">>
           /\ Head(o.todo) = "protected" => o.todo = <<"protected", "debited", "save">>
           /\ Head(o.todo) = "debited" => o.todo = <<"debited", "save">>
           /\ Head(o.todo) = "save" => o.todo = <<"save">>
<1>1. o # NoOp
  BY DEF NoOp
<1>2. IsCall(o) /\ (o.todo \notin Upserting \cup Refreshing => o.then = << >>)
  BY DEF OpOK
<1>3. CASE UpsertOK(o, table, js)
  <2>1. o.todo \in Upserting
    BY <1>3 DEF UpsertOK
  <2>2. Head(o.todo) \in {"find", "insert", "reconcile", "write"}
    BY <2>1 DEF Upserting
  <2>3. /\ Head(o.todo) = "find" => o.todo = <<"find">>
        /\ Head(o.todo) = "insert" => o.todo = <<"insert">>
        /\ Head(o.todo) = "write" => o.todo = <<"write">>
        /\ Head(o.todo) = "reconcile" => o.todo = <<"reconcile", "write">>
    BY <2>1 DEF Upserting
  <2> QED BY <1>2, <1>3, <2>2, <2>3
<1>4. CASE o.todo \in Refreshing
  BY <1>2, <1>4 DEF Refreshing
<1>5. CASE DecideOK(o, table)
  <2>1. o.todo \notin Upserting \cup Refreshing
    BY <1>5 DEF DecideOK, Upserting, Refreshing
  <2>2. \/ /\ o.todo = <<"decide", "reconcile", "extra", "protected", "debited", "save">>
           /\ Head(o.todo) = "decide"
        \/ /\ o.todo = <<"reconcile", "extra", "protected", "debited", "save">>
           /\ Head(o.todo) = "reconcile"
    BY <1>5 DEF DecideOK
  <2> QED BY <1>2, <1>5, <2>1, <2>2
<1>6. CASE JustOK(o, js)
  <2>1. o.todo \notin Upserting \cup Refreshing
    BY <1>6 DEF JustOK, Upserting, Refreshing
  <2>2. \/ /\ o.todo = <<"decideJust", "markEvents", "extra", "protected", "debited", "save">>
           /\ Head(o.todo) = "decideJust"
        \/ /\ o.todo = <<"markEvents", "extra", "protected", "debited", "save">>
           /\ Head(o.todo) = "markEvents"
    BY <1>6 DEF JustOK
  <2> QED BY <1>2, <1>6, <2>1, <2>2
<1>7. CASE EditOK(o, js)
  <2>1. o.todo \notin Upserting \cup Refreshing
    BY <1>7 DEF EditOK, Upserting, Refreshing
  <2>2. \/ o.todo = <<"editJust", "editEvents">> /\ Head(o.todo) = "editJust"
        \/ o.todo = <<"editEvents">> /\ Head(o.todo) = "editEvents"
    BY <1>7 DEF EditOK
  <2> QED BY <1>2, <1>7, <2>1, <2>2
<1>8. CASE DeleteOK(o, js)
  <2>1. o.todo \notin Upserting \cup Refreshing
    BY <1>8 DEF DeleteOK, Upserting, Refreshing
  <2>2. \/ /\ o.todo = <<"deleteJust", "deleteEvents", "extra", "protected", "debited", "save">>
           /\ Head(o.todo) = "deleteJust"
        \/ /\ o.todo = <<"deleteEvents", "extra", "protected", "debited", "save">>
           /\ Head(o.todo) = "deleteEvents"
    BY <1>8 DEF DeleteOK
  <2> QED BY <1>2, <1>8, <2>1, <2>2
<1>9. CASE UndoOK(o, js)
  <2>1. o.todo \notin Upserting \cup Refreshing
    BY <1>9 DEF UndoOK, Upserting, Refreshing
  <2>2. Head(o.todo) = "undo"
    BY <1>9 DEF UndoOK
  <2> QED BY <1>2, <1>9, <2>1, <2>2
<1> QED BY <1>1, <1>3, <1>4, <1>5, <1>6, <1>7, <1>8, <1>9 DEF OpOK

-----------------------------------------------------------------------------
(* What a step leaves of a call.                                           *)

Settled(o) == IF o.todo = << >> THEN NoOp ELSE o

LEMMA NoOpIsOK ==
    ASSUME NEW table, NEW js
    PROVE  OpOK(NoOp, table, js) /\ IsCall(NoOp)
BY DEF OpOK, NoOp, IsCall

LEMMA ItemsLeft ==
    ASSUME NEW items, NEW js, ItemsOK(items, js), items # << >>
    PROVE  ItemOK(Head(items), js) /\ ItemsOK(Tail(items), js) /\ Tail(items) # items
<1>1. items \in Seq(Item) /\ Len(items) \in Nat /\ Len(items) > 0
  BY DEF ItemsOK
<1>2. Head(items) = items[1] /\ 1 \in 1..Len(items)
  BY <1>1
<1>3. /\ Tail(items) \in Seq(Item) /\ Len(Tail(items)) = Len(items) - 1
      /\ \A i \in 1..Len(Tail(items)) : Tail(items)[i] = items[i + 1]
  BY <1>1, HeadTailProperties
<1>4. \A i \in 1..Len(Tail(items)) : ItemOK(Tail(items)[i], js)
  BY <1>1, <1>3 DEF ItemsOK
<1>5. Tail(items) # items
  <2>1. PICK n \in Nat : n = Len(items)
    BY <1>1
  <2>2. Len(Tail(items)) = n - 1 /\ n - 1 # n
    BY <2>1, <1>3
  <2> QED BY <2>1, <2>2
<1> QED BY <1>1, <1>2, <1>3, <1>4, <1>5 DEF ItemsOK

LEMMA NextItemOK ==
    ASSUME NEW o, NEW table, NEW js, IsCall(o), UpsertOK(o, table, js)
    PROVE  /\ OpOK(Settled(NextItem(o)), table, js)
           /\ o.then # << >> => Settled(NextItem(o)).then = o.then
           /\ Settled(NextItem(o)).todo # o.todo \/ Settled(NextItem(o)).items # o.items
<1> DEFINE left == Tail(o.items)
<1>1. o.items # << >> /\ ItemsOK(o.items, js) /\ o.then \in {<< >>, Refresh}
  BY DEF UpsertOK
<1>2. ItemsOK(left, js) /\ left # o.items
  BY <1>1, ItemsLeft
<1>3. o.todo # << >>
  BY DEF UpsertOK, Upserting
<1>4. PICK n : n = NextItem(o)
  OBVIOUS
<1>5. n = [todo |-> IF left = << >> THEN o.then ELSE <<"find">>, then |-> o.then, items |-> left,
           row |-> None, seen |-> None, of |-> o.of, decision |-> o.decision,
           minutes |-> o.minutes, debit |-> o.debit, extra |-> o.extra,
           protected |-> o.protected, debited |-> o.debited]
  BY <1>4 DEF NextItem, IsCall
<1>6. IsCall(n) /\ n.items = left /\ n.then = o.then /\ n.of = o.of
      /\ n.todo = (IF left = << >> THEN o.then ELSE <<"find">>)
  BY <1>5 DEF IsCall
<1>7. CASE n.todo = << >>
  <2>1. Settled(n) = NoOp /\ NoOp.todo = << >> /\ n.then \in {<< >>, Refresh}
    BY <1>7, <1>6, <1>1 DEF Settled, NoOp
  <2>2. n.then = << >>
    <3>1. <<"find">> # << >>
      OBVIOUS
    <3>2. left = << >>
      BY <3>1, <1>7, <1>6
    <3> QED BY <3>2, <1>7, <1>6
  <2> QED BY <2>1, <2>2, <1>6, <1>3, <1>4, NoOpIsOK
<1>8. CASE n.todo # << >> /\ left = << >>
  <2>1. n.todo \in Refreshing
    BY <1>8, <1>6, <1>1 DEF Refreshing, Refresh
  <2>2. OpOK(n, table, js)
    BY <2>1, <1>6 DEF OpOK
  <2> QED BY <2>2, <1>8, <1>6, <1>2, <1>4 DEF Settled
<1>9. CASE left # << >>
  <2>1. n.todo = <<"find">> /\ n.todo \in Upserting /\ n.todo # << >>
    BY <1>9, <1>6 DEF Upserting
  <2>2. n.todo \notin {<<"reconcile", "write">>, <<"write">>}
    BY <2>1
  <2>3. UpsertOK(n, table, js)
    BY <2>1, <2>2, <1>2, <1>6, <1>9 DEF UpsertOK
  <2>4. OpOK(n, table, js)
    BY <2>1, <2>3, <1>6 DEF OpOK
  <2> QED BY <2>1, <2>4, <1>6, <1>2, <1>4 DEF Settled
<1> QED BY <1>7, <1>8, <1>9

LEMMA ThrownOK ==
    ASSUME NEW o, NEW table, NEW js, IsCall(o), UpsertOK(o, table, js)
    PROVE  /\ OpOK(Settled(Thrown(o)), table, js)
           /\ o.then # << >> => Settled(Thrown(o)).then = o.then
<1>1. /\ o.then \in {<< >>, Refresh}
      /\ o.of \in Justifications => o.then = << >> /\ js[o.of] # None
  BY DEF UpsertOK
<1>2. PICK n : n = Thrown(o)
  OBVIOUS
<1>3. n = [todo |-> IF o.of \in Justifications THEN <<"undo">> ELSE o.then, then |-> o.then,
           items |-> << >>, row |-> None, seen |-> None, of |-> o.of, decision |-> o.decision,
           minutes |-> o.minutes, debit |-> o.debit, extra |-> o.extra,
           protected |-> o.protected, debited |-> o.debited]
  BY <1>2 DEF Thrown, IsCall
<1>4. IsCall(n) /\ n.then = o.then /\ n.of = o.of
      /\ n.todo = (IF o.of \in Justifications THEN <<"undo">> ELSE o.then)
  BY <1>3 DEF IsCall
<1>5. CASE n.todo = << >>
  BY <1>5, <1>4, <1>1, <1>2, NoOpIsOK DEF Settled, NoOp, Refresh
<1>6. CASE o.of \in Justifications
  <2>1. UndoOK(n, js) /\ n.then = << >> /\ n.todo # << >>
    BY <1>1, <1>4, <1>6 DEF UndoOK, IsStored
  <2> QED BY <2>1, <1>1, <1>6, <1>4, <1>2 DEF Settled, OpOK
<1>7. CASE n.todo # << >> /\ o.of \notin Justifications
  <2>1. n.todo \in Refreshing
    BY <1>7, <1>4, <1>1 DEF Refreshing, Refresh
  <2> QED BY <2>1, <1>7, <1>4, <1>2 DEF Settled, OpOK
<1> QED BY <1>5, <1>6, <1>7

\* The next step of a call that is no synchronisation: its fields are the same.
LEMMA NextStepIs ==
    ASSUME NEW o, IsCall(o)
    PROVE  /\ NextStep(o) = [todo |-> Tail(o.todo), then |-> o.then, items |-> o.items,
                 row |-> o.row, seen |-> o.seen, of |-> o.of, decision |-> o.decision,
                 minutes |-> o.minutes, debit |-> o.debit, extra |-> o.extra,
                 protected |-> o.protected, debited |-> o.debited]
           /\ IsCall(NextStep(o)) /\ NextStep(o).todo = Tail(o.todo) /\ NextStep(o).then = o.then
           /\ NextStep(o).items = o.items /\ NextStep(o).row = o.row /\ NextStep(o).seen = o.seen
           /\ NextStep(o).of = o.of /\ NextStep(o).decision = o.decision
           /\ NextStep(o).minutes = o.minutes /\ NextStep(o).debit = o.debit
<1>1. PICK n : n = NextStep(o)
  OBVIOUS
<1>2. n = [todo |-> Tail(o.todo), then |-> o.then, items |-> o.items,
           row |-> o.row, seen |-> o.seen, of |-> o.of, decision |-> o.decision,
           minutes |-> o.minutes, debit |-> o.debit, extra |-> o.extra,
           protected |-> o.protected, debited |-> o.debited]
  BY <1>1 DEF NextStep, IsCall
<1>3. IsCall(n)
  BY <1>2 DEF IsCall
<1> QED BY <1>1, <1>2, <1>3

-----------------------------------------------------------------------------
(* A step of one call keeps what the others have.                          *)

LEMMA OneCallMoves ==
    ASSUME DayIInv, NEW c \in Callers, NEW o, op' = [op EXCEPT ![c] = o],
           OpOK(o, event', just'), RowsGoOn(event, event'), JustsGoOn(just, just')
    PROVE  op' = [d \in Callers |-> op'[d]] /\ \A d \in Callers : OpOK(op'[d], event', just')
<1>1. op = [d \in Callers |-> op[d]] /\ \A d \in Callers : OpOK(op[d], event, just)
  BY DEF DayIInv
<1>2. op'[c] = o /\ \A d \in Callers \ {c} : op'[d] = op[d]
  BY <1>1
<1>3. op' = [d \in Callers |-> op'[d]]
  BY <1>1
<1>4. ASSUME NEW d \in Callers PROVE OpOK(op'[d], event', just')
  <2>1. CASE d = c
    BY <2>1, <1>2
  <2>2. CASE d # c
    <3>1. PICK r : r = op[d]
      OBVIOUS
    <3>2. OpOK(r, event', just')
      BY <3>1, <1>1, OpStays
    <3> QED BY <3>1, <3>2, <2>2, <1>2
  <2> QED BY <2>1, <2>2
<1> QED BY <1>3, <1>4

LEMMA NothingMoves ==
    ASSUME DayIInv
    PROVE  /\ event' = event => RowsGoOn(event, event')
           /\ just' = just => JustsGoOn(just, just')
           /\ event' = event /\ JustsGoOn(just, just')
                => event' \in [EventIds -> Event \cup {None}] /\ \A e \in Rows' : RowOK(event'[e], just')
BY RowStays DEF DayIInv, RowsGoOn, JustsGoOn, Rows

\* A call begins, and nothing else changes but a new justification.
LEMMA CallBegins ==
    ASSUME DayIInv, NEW c \in Callers, NEW o, StartOp(c, o), OpOK(o, event, just'),
           JustsGoOn(just, just'), UNCHANGED <<overtime, event>>
    PROVE  DayIInv'
<1>1. op' = [op EXCEPT ![c] = o]
  BY DEF StartOp
<1>2. /\ RowsGoOn(event, event') /\ event' \in [EventIds -> Event \cup {None}]
      /\ \A e \in Rows' : RowOK(event'[e], just')
  BY NothingMoves
<1>3. op' = [d \in Callers |-> op'[d]] /\ \A d \in Callers : OpOK(op'[d], event', just')
  BY <1>1, <1>2, OneCallMoves
<1>4. overtime' \in [Worked -> Minutes \cup {0}] /\ just' \in [Justifications -> Justification \cup {None}]
  BY DEF DayIInv, JustsGoOn
<1> QED BY <1>2, <1>3, <1>4 DEF DayIInv

LEMMA ItemsInOrder ==
    ASSUME NEW S, IsFiniteSet(S), NEW js, \A x \in S : ItemOK(x, js), NEW s \in SetToSeqs(S)
    PROVE  ItemsOK(s, js)
<1>1. PICK n \in Nat : n = Cardinality(S)
  BY FS_CardinalityType
<1>2. s \in [1..n -> S]
  BY <1>1 DEF SetToSeqs
<1>3. \A x \in S : x \in Item
  BY DEF ItemOK
<1>4. s \in Seq(Item) /\ Len(s) = n
  BY <1>2, <1>3
<1>5. \A i \in 1..Len(s) : ItemOK(s[i], js)
  BY <1>2, <1>4
<1> QED BY <1>4, <1>5 DEF ItemsOK

LEMMA ItemsToDo ==
    ASSUME DayIInv
    PROVE  /\ \A x \in OvertimeItems : ItemOK(x, just)
           /\ \A x \in JustificationItems : ItemOK(x, just)
           /\ IsFiniteSet(OvertimeItems) /\ IsFiniteSet(JustificationItems)
<1>1. ASSUME NEW y \in Worked, overtime[y] > 0
      PROVE  ItemOK([kind |-> "OVERTIME", of |-> y, minutes |-> overtime[y], status |-> "PENDING"], just)
  <2>1. overtime[y] \in Minutes
    BY <1>1, DayAssumption DEF DayIInv
  <2> QED BY <2>1 DEF ItemOK, Item
<1>2. ASSUME NEW k \in Justifications, Stored(k)
      PROVE  ItemOK([kind |-> "JUSTIFICATION", of |-> k, minutes |-> just[k].minutes,
                     status |-> just[k].status], just)
  <2>1. just[k] \in Justification
    BY <1>2 DEF DayIInv, Stored
  <2>2. just[k].minutes \in Minutes /\ just[k].status \in {"PENDING", "APPROVED", "REJECTED"}
    BY <2>1 DEF Justification
  <2> QED BY <2>2, <1>2 DEF ItemOK, Item, IsStored, Stored, Follows
<1>3. IsFiniteSet(OvertimeItems)
  <2> DEFINE D == {y \in Worked : overtime[y] > 0}
             f == [x \in D |-> [kind |-> "OVERTIME", of |-> x, minutes |-> overtime[x], status |-> "PENDING"]]
  <2>1. IsFiniteSet(D)
    BY FS_Subset, DayAssumption
  <2>2. f \in Surjection(D, OvertimeItems)
    BY DEF Surjection, OvertimeItems
  <2> QED BY <2>1, <2>2, FS_Surjection
<1>4. IsFiniteSet(JustificationItems)
  <2> DEFINE D == {k \in Justifications : Stored(k) /\ ~just[k].deleted}
             f == [j \in D |-> [kind |-> "JUSTIFICATION", of |-> j, minutes |-> just[j].minutes,
                                status |-> just[j].status]]
  <2>1. IsFiniteSet(D)
    BY FS_Subset, DayAssumption
  <2>2. f \in Surjection(D, JustificationItems)
    BY DEF Surjection, JustificationItems
  <2> QED BY <2>1, <2>2, FS_Surjection
<1>5. \A x \in OvertimeItems : ItemOK(x, just)
  BY <1>1 DEF OvertimeItems
<1>6. \A x \in JustificationItems : ItemOK(x, just)
  BY <1>2 DEF JustificationItems
<1> QED BY <1>3, <1>4, <1>5, <1>6

LEMMA ConcatItems ==
    ASSUME NEW s, NEW t, NEW js, ItemsOK(s, js), ItemsOK(t, js)
    PROVE  ItemsOK(s \o t, js)
<1>1. s \in Seq(Item) /\ t \in Seq(Item)
  BY DEF ItemsOK
<1>2. /\ s \o t \in Seq(Item) /\ Len(s \o t) = Len(s) + Len(t)
      /\ \A i \in 1..Len(s) + Len(t) : (s \o t)[i] = IF i <= Len(s) THEN s[i] ELSE t[i - Len(s)]
  BY <1>1, ConcatProperties
<1>3. PICK m \in Nat, n \in Nat : m = Len(s) /\ n = Len(t)
  BY <1>1
<1>4. ASSUME NEW i \in 1..(m + n) PROVE ItemOK((s \o t)[i], js)
  <2>1. CASE i <= m
    BY <2>1, <1>2, <1>3 DEF ItemsOK
  <2>2. CASE ~(i <= m)
    <3>1. i - m \in 1..n
      BY <2>2
    <3> QED BY <3>1, <2>2, <1>2, <1>3 DEF ItemsOK
  <2> QED BY <2>1, <2>2
<1> QED BY <1>2, <1>3, <1>4 DEF ItemsOK

LEMMA SynchroniseStep ==
    ASSUME DayIInv, NEW c \in Callers, NEW then \in {Refresh, << >>}, Synchronise(c, then)
    PROVE  DayIInv'
<1> DEFINE todo(items) == IF items = << >> THEN then ELSE <<"find">>
<1>1. PICK items \in Agendas :
          /\ items # << >> \/ then # << >>
          /\ StartOp(c, [NoOp EXCEPT !.items = items, !.then = then, !.todo = todo(items)])
  BY DEF Synchronise
<1>2. ItemsOK(items, just)
  <2>1. PICK s \in SetToSeqs(OvertimeItems), t \in SetToSeqs(JustificationItems) : items = s \o t
    BY DEF Agendas
  <2> QED BY <2>1, ItemsToDo, ItemsInOrder, ConcatItems
<1>3. PICK list : list = todo(items)
  OBVIOUS
<1>4. PICK o : o = [NoOp EXCEPT !.items = items, !.then = then, !.todo = list]
  OBVIOUS
<1>5. o = [todo |-> list, then |-> then, items |-> items,
           row |-> None, seen |-> None, of |-> None, decision |-> None, minutes |-> 0, debit |-> FALSE,
           extra |-> 0, protected |-> 0, debited |-> 0]
  BY <1>4 DEF NoOp
<1>6. IsCall(o) /\ o.todo = list /\ o.then = then /\ o.items = items /\ o.of = None
  BY <1>5 DEF IsCall
<1>7. UNCHANGED <<overtime, event, just>> /\ JustsGoOn(just, just')
  BY NothingMoves DEF Synchronise
<1>8. OpOK(o, event, just)
  <2>1. CASE items = << >>
    <3>1. o.todo = then /\ then = Refresh
      BY <2>1, <1>1, <1>3, <1>6
    <3>2. o.todo \in Refreshing
      BY <3>1 DEF Refreshing, Refresh
    <3> QED BY <3>2, <1>6 DEF OpOK
  <2>2. CASE items # << >>
    <3>1. o.todo = <<"find">> /\ o.todo \in Upserting
      BY <2>2, <1>3, <1>6 DEF Upserting
    <3>2. o.todo \notin {<<"reconcile", "write">>, <<"write">>}
      BY <3>1
    <3>3. UpsertOK(o, event, just)
      BY <3>1, <3>2, <2>2, <1>2, <1>6, DayAssumption DEF UpsertOK
    <3> QED BY <3>1, <3>3, <1>6 DEF OpOK
  <2> QED BY <2>1, <2>2
<1> QED BY <1>1, <1>3, <1>4, <1>7, <1>8, CallBegins

LEMMA DecideDayEventStep ==
    ASSUME DayIInv, NEW c \in Callers, NEW e \in EventIds, NEW d \in Decision, DecideDayEvent(c, e, d)
    PROVE  DayIInv'
<1>1. PICK o : o = [NoOp EXCEPT !.todo = <<"decide", "reconcile">> \o Refresh, !.row = e,
                                !.of = event[e].of, !.decision = d]
  OBVIOUS
<1>2. o = [todo |-> <<"decide", "reconcile", "extra", "protected", "debited", "save">>,
           then |-> << >>, items |-> << >>, row |-> e, seen |-> None, of |-> event[e].of,
           decision |-> d, minutes |-> 0, debit |-> FALSE, extra |-> 0, protected |-> 0, debited |-> 0]
  BY <1>1, TwoThenRefresh DEF NoOp
<1>3. /\ IsCall(o) /\ o.row = e /\ o.decision = d /\ o.then = << >> /\ o.items = << >>
      /\ o.todo = <<"decide", "reconcile", "extra", "protected", "debited", "save">>
  BY <1>2 DEF IsCall
<1>4. DecideOK(o, event)
  BY <1>3 DEF DecideOK, DecideDayEvent, LiveRows, Rows, IsRow
<1>5. OpOK(o, event, just)
  BY <1>3, <1>4 DEF OpOK
<1>6. UNCHANGED <<overtime, event, just>> /\ JustsGoOn(just, just') /\ StartOp(c, o)
  BY <1>1, NothingMoves DEF DecideDayEvent
<1> QED BY <1>5, <1>6, CallBegins

\* A justification nobody had is new to every call.
LEMMA NewJustification ==
    ASSUME DayIInv, NEW j \in Justifications, ~Stored(j), NEW row \in Justification,
           just' = [just EXCEPT ![j] = row]
    PROVE  JustsGoOn(just, just') /\ just'[j] = row /\ row # None
<1>1. row # None
  BY DayAssumption
<1>2. just \in [Justifications -> Justification \cup {None}]
  BY DEF DayIInv
<1> QED BY <1>1, <1>2 DEF JustsGoOn, Stored

LEMMA CreateJustificationStep ==
    ASSUME DayIInv, NEW c \in Callers, NEW j \in Justifications, NEW m \in Minutes, NEW debit \in BOOLEAN,
           CreateJustification(c, j, m, debit)
    PROVE  DayIInv'
<1>1. PICK row : row = [minutes |-> m, debit |-> debit, deleted |-> FALSE, status |-> "PENDING"]
  OBVIOUS
<1>2. row \in Justification /\ row.status = "PENDING"
  BY <1>1 DEF Justification
<1>3. ~Stored(j) /\ just' = [just EXCEPT ![j] = row]
  BY <1>1 DEF CreateJustification
<1>4. JustsGoOn(just, just') /\ just'[j] = row /\ row # None
  BY <1>2, <1>3, NewJustification
<1>5. PICK item : item = [kind |-> "JUSTIFICATION", of |-> j, minutes |-> m, status |-> "PENDING"]
  OBVIOUS
<1>6. ItemOK(item, just')
  BY <1>5, <1>4 DEF ItemOK, Item, IsStored, Follows, Decided
<1>7. PICK items : items = <<item>>
  OBVIOUS
<1>8. ItemsOK(items, just') /\ items # << >>
  <2>1. item \in Item
    BY <1>6 DEF ItemOK
  <2>2. items \in Seq(Item) /\ Len(items) = 1 /\ items[1] = item /\ items # << >>
    BY <2>1, <1>7
  <2> QED BY <2>2, <1>6 DEF ItemsOK
<1>9. PICK o : o = [NoOp EXCEPT !.todo = <<"find">>, !.of = j, !.items = items]
  OBVIOUS
<1>10. o = [todo |-> <<"find">>, then |-> << >>, items |-> items, row |-> None, seen |-> None, of |-> j,
            decision |-> None, minutes |-> 0, debit |-> FALSE, extra |-> 0, protected |-> 0, debited |-> 0]
  BY <1>9 DEF NoOp
<1>11. /\ IsCall(o) /\ o.todo = <<"find">> /\ o.todo \in Upserting /\ o.then = << >>
       /\ o.items = items /\ o.of = j
  BY <1>10 DEF IsCall, Upserting
<1>12. UpsertOK(o, event, just')
  <2>1. o.todo \notin {<<"reconcile", "write">>, <<"write">>}
    BY <1>11
  <2> QED BY <2>1, <1>11, <1>8, <1>4 DEF UpsertOK
<1>13. OpOK(o, event, just')
  BY <1>11, <1>12 DEF OpOK
<1>14. StartOp(c, o) /\ UNCHANGED <<overtime, event>>
  BY <1>5, <1>7, <1>9 DEF CreateJustification
<1> QED BY <1>4, <1>13, <1>14, CallBegins

LEMMA EditJustificationStep ==
    ASSUME DayIInv, NEW c \in Callers, NEW j \in Justifications, NEW m \in Minutes, NEW debit \in BOOLEAN,
           EditJustification(c, j, m, debit)
    PROVE  DayIInv'
<1>1. PICK o : o = [NoOp EXCEPT !.todo = <<"editJust", "editEvents">>, !.of = j,
                                !.minutes = m, !.debit = debit]
  OBVIOUS
<1>2. o = [todo |-> <<"editJust", "editEvents">>, then |-> << >>, items |-> << >>, row |-> None,
           seen |-> None, of |-> j, decision |-> None, minutes |-> m, debit |-> debit,
           extra |-> 0, protected |-> 0, debited |-> 0]
  BY <1>1 DEF NoOp
<1>3. /\ IsCall(o) /\ o.of = j /\ o.minutes = m /\ o.debit = debit /\ o.then = << >>
      /\ o.todo = <<"editJust", "editEvents">>
  BY <1>2 DEF IsCall
<1>4. EditOK(o, just)
  BY <1>3 DEF EditOK, EditJustification, IsStored, Stored
<1>5. OpOK(o, event, just)
  BY <1>3, <1>4 DEF OpOK
<1>6. UNCHANGED <<overtime, event, just>> /\ JustsGoOn(just, just') /\ StartOp(c, o)
  BY <1>1, NothingMoves DEF EditJustification
<1> QED BY <1>5, <1>6, CallBegins

LEMMA DecideJustificationStep ==
    ASSUME DayIInv, NEW c \in Callers, NEW j \in Justifications, NEW d \in Decision,
           DecideJustification(c, j, d)
    PROVE  DayIInv'
<1>1. PICK o : o = [NoOp EXCEPT !.todo = <<"decideJust", "markEvents">> \o Refresh, !.of = j,
                                !.decision = d]
  OBVIOUS
<1>2. o = [todo |-> <<"decideJust", "markEvents", "extra", "protected", "debited", "save">>,
           then |-> << >>, items |-> << >>, row |-> None, seen |-> None, of |-> j,
           decision |-> d, minutes |-> 0, debit |-> FALSE, extra |-> 0, protected |-> 0, debited |-> 0]
  BY <1>1, TwoThenRefresh DEF NoOp
<1>3. /\ IsCall(o) /\ o.of = j /\ o.decision = d /\ o.then = << >>
      /\ o.todo = <<"decideJust", "markEvents", "extra", "protected", "debited", "save">>
  BY <1>2 DEF IsCall
<1>4. JustOK(o, just)
  <2>1. o.todo # <<"markEvents", "extra", "protected", "debited", "save">>
    BY <1>3
  <2> QED BY <2>1, <1>3 DEF JustOK, DecideJustification, IsStored, Stored
<1>5. OpOK(o, event, just)
  BY <1>3, <1>4 DEF OpOK
<1>6. UNCHANGED <<overtime, event, just>> /\ JustsGoOn(just, just') /\ StartOp(c, o)
  BY <1>1, NothingMoves DEF DecideJustification
<1> QED BY <1>5, <1>6, CallBegins

LEMMA DeleteJustificationStep ==
    ASSUME DayIInv, NEW c \in Callers, NEW j \in Justifications, DeleteJustification(c, j)
    PROVE  DayIInv'
<1>1. PICK o : o = [NoOp EXCEPT !.todo = <<"deleteJust", "deleteEvents">> \o Refresh, !.of = j]
  OBVIOUS
<1>2. o = [todo |-> <<"deleteJust", "deleteEvents", "extra", "protected", "debited", "save">>,
           then |-> << >>, items |-> << >>, row |-> None, seen |-> None, of |-> j,
           decision |-> None, minutes |-> 0, debit |-> FALSE, extra |-> 0, protected |-> 0, debited |-> 0]
  BY <1>1, TwoThenRefresh DEF NoOp
<1>3. /\ IsCall(o) /\ o.of = j /\ o.then = << >>
      /\ o.todo = <<"deleteJust", "deleteEvents", "extra", "protected", "debited", "save">>
  BY <1>2 DEF IsCall
<1>4. DeleteOK(o, just)
  BY <1>3 DEF DeleteOK, DeleteJustification, IsStored, Stored
<1>5. OpOK(o, event, just)
  BY <1>3, <1>4 DEF OpOK
<1>6. UNCHANGED <<overtime, event, just>> /\ JustsGoOn(just, just') /\ StartOp(c, o)
  BY <1>1, NothingMoves DEF DeleteJustification
<1> QED BY <1>5, <1>6, CallBegins

-----------------------------------------------------------------------------
(* The statements of a call.                                               *)

LEMMA CallProceeds ==
    ASSUME DayIInv, NEW c \in Callers, NEW o, Proceed(c, o), OpOK(Settled(o), event', just'),
           RowsGoOn(event, event'), JustsGoOn(just, just'),
           event' \in [EventIds -> Event \cup {None}], \A e \in Rows' : RowOK(event'[e], just'),
           UNCHANGED overtime
    PROVE  DayIInv'
<1>1. op' = [op EXCEPT ![c] = Settled(o)]
  BY DEF Proceed, Settled
<1>2. PICK new : new = Settled(o)
  OBVIOUS
<1>3. op' = [d \in Callers |-> op'[d]] /\ \A d \in Callers : OpOK(op'[d], event', just')
  BY <1>1, <1>2, OneCallMoves
<1>4. overtime' \in [Worked -> Minutes \cup {0}] /\ just' \in [Justifications -> Justification \cup {None}]
  BY DEF DayIInv, JustsGoOn
<1> QED BY <1>3, <1>4 DEF DayIInv

\* The same where no row changes.
LEMMA CallReads ==
    ASSUME DayIInv, NEW c \in Callers, NEW o, Proceed(c, o), OpOK(Settled(o), event, just'),
           JustsGoOn(just, just'), UNCHANGED <<overtime, event>>
    PROVE  DayIInv'
<1>1. /\ RowsGoOn(event, event') /\ event' \in [EventIds -> Event \cup {None}]
      /\ \A e \in Rows' : RowOK(event'[e], just')
  BY NothingMoves
<1> QED BY <1>1, CallProceeds

\* What a call at a step is.
LEMMA CallAt ==
    ASSUME DayIInv, NEW c \in Callers, NEW step, AtStep(c, step), NEW o, o = op[c]
    PROVE  OpOK(o, event, just) /\ o.todo # << >> /\ Head(o.todo) = step
BY DEF DayIInv, AtStep

LEMMA RowFound ==
    ASSUME DayIInv, NEW item, NEW e \in Current(item)
    PROVE  e \in Rows /\ event[e].kind = item.kind /\ event[e].of = item.of
<1>1. CASE ByAppointment(item) # {}
  BY <1>1 DEF Current, ByAppointment
<1>2. CASE ByAppointment(item) = {}
  <2>1. e \in Rows /\ event[e].key = KeyOf(item)
    BY <1>2 DEF Current, ByKey
  <2>2. RowOK(event[e], just)
    BY <2>1 DEF DayIInv
  <2>3. KeyOf(item).kind = item.kind /\ KeyOf(item).of = item.of
    BY DEF KeyOf
  <2> QED BY <2>1, <2>2, <2>3 DEF RowOK
<1> QED BY <1>1, <1>2

LEMMA FindCurrentStep ==
    ASSUME DayIInv, NEW c \in Callers, FindCurrent(c)
    PROVE  DayIInv'
<1>1. PICK o : o = op[c]
  OBVIOUS
<1>2. OpOK(o, event, just) /\ o.todo # << >> /\ Head(o.todo) = "find"
  BY <1>1, CallAt DEF FindCurrent
<1>3. IsCall(o) /\ UpsertOK(o, event, just)
  BY <1>2, StepOf
<1>4. PICK item : item = Head(o.items)
  OBVIOUS
<1>5. UNCHANGED <<overtime, event, just>> /\ JustsGoOn(just, just')
  BY NothingMoves DEF FindCurrent
<1>6. CASE Proceed(c, [o EXCEPT !.todo = <<"insert">>])
  <2>1. PICK n : n = [o EXCEPT !.todo = <<"insert">>]
    OBVIOUS
  <2>2. n = [todo |-> <<"insert">>, then |-> o.then, items |-> o.items, row |-> o.row, seen |-> o.seen,
             of |-> o.of, decision |-> o.decision, minutes |-> o.minutes, debit |-> o.debit,
             extra |-> o.extra, protected |-> o.protected, debited |-> o.debited]
    BY <2>1, <1>3 DEF IsCall
  <2>3. /\ IsCall(n) /\ n.todo = <<"insert">> /\ n.todo \in Upserting /\ n.then = o.then
        /\ n.items = o.items /\ n.of = o.of /\ n.todo # << >>
    BY <2>2 DEF IsCall, Upserting
  <2>4. n.todo \notin {<<"reconcile", "write">>, <<"write">>}
    BY <2>3
  <2>5. UpsertOK(n, event, just)
    BY <2>3, <2>4, <1>3 DEF UpsertOK
  <2>6. OpOK(Settled(n), event, just')
    BY <2>3, <2>5, <1>5 DEF OpOK, Settled
  <2> QED BY <2>1, <2>6, <1>5, <1>6, CallReads
<1>7. ASSUME NEW e \in Current(item), NEW list \in {<<"reconcile", "write">>, <<"write">>},
             Proceed(c, [o EXCEPT !.row = e, !.seen = event[e], !.todo = list])
      PROVE  DayIInv'
  <2>1. PICK n : n = [o EXCEPT !.row = e, !.seen = event[e], !.todo = list]
    OBVIOUS
  <2>2. n = [todo |-> list, then |-> o.then, items |-> o.items, row |-> e, seen |-> event[e],
             of |-> o.of, decision |-> o.decision, minutes |-> o.minutes, debit |-> o.debit,
             extra |-> o.extra, protected |-> o.protected, debited |-> o.debited]
    BY <2>1, <1>3 DEF IsCall
  <2>3. /\ IsCall(n) /\ n.todo = list /\ n.then = o.then /\ n.row = e
        /\ n.seen = event[e] /\ n.items = o.items /\ n.of = o.of
    BY <2>2 DEF IsCall
  <2>8. n.todo \in Upserting /\ n.todo # << >>
    <3>1. <<"reconcile", "write">> # << >> /\ <<"write">> # << >>
      OBVIOUS
    <3> QED BY <3>1, <2>3 DEF Upserting
  <2>4. e \in Rows /\ event[e].kind = item.kind /\ event[e].of = item.of
    BY RowFound
  <2>5. IsRow(e, event) /\ event[e] \in Event
    BY <2>4 DEF Rows, IsRow, DayIInv
  <2>6. UpsertOK(n, event, just)
    BY <2>3, <2>4, <2>5, <2>8, <1>3, <1>4 DEF UpsertOK
  <2>7. OpOK(Settled(n), event, just')
    BY <2>3, <2>6, <2>8, <1>5 DEF OpOK, Settled
  <2> QED BY <2>1, <2>7, <1>5, <1>7, CallReads
<1>8. \/ Proceed(c, [o EXCEPT !.todo = <<"insert">>])
      \/ \E e \in Current(item), list \in {<<"reconcile", "write">>, <<"write">>} :
            Proceed(c, [o EXCEPT !.row = e, !.seen = event[e], !.todo = list])
  BY <1>1, <1>4 DEF FindCurrent
<1> QED BY <1>6, <1>7, <1>8

\* A row that is deleted is of the same thing and as decided, ...
LEMMA RowDeleted ==
    ASSUME NEW row, NEW js, RowOK(row, js)
    PROVE  /\ RowOK([row EXCEPT !.deleted = TRUE], js)
           /\ [row EXCEPT !.deleted = TRUE].kind = row.kind /\ [row EXCEPT !.deleted = TRUE].of = row.of
           /\ [row EXCEPT !.deleted = TRUE].status = row.status
<1>1. row \in Event
  BY DEF RowOK
<1>2. PICK r : r = [row EXCEPT !.deleted = TRUE]
  OBVIOUS
<1>3. /\ r \in Event /\ r.kind = row.kind /\ r.of = row.of /\ r.status = row.status /\ r.key = row.key
  BY <1>1, <1>2 DEF Event
<1>4. RowOK(r, js)
  BY <1>3 DEF RowOK
<1> QED BY <1>2, <1>3, <1>4

\* ... and so is one that gets other minutes.
LEMMA RowEdited ==
    ASSUME NEW row, NEW js, RowOK(row, js), NEW m \in Minutes
    PROVE  /\ RowOK([row EXCEPT !.minutes = m], js)
           /\ [row EXCEPT !.minutes = m].kind = row.kind /\ [row EXCEPT !.minutes = m].of = row.of
           /\ [row EXCEPT !.minutes = m].status = row.status
           /\ [row EXCEPT !.minutes = m].deleted = row.deleted
<1>1. row \in Event
  BY DEF RowOK
<1>2. PICK r : r = [row EXCEPT !.minutes = m]
  OBVIOUS
<1>3. /\ r \in Event /\ r.kind = row.kind /\ r.of = row.of /\ r.status = row.status /\ r.key = row.key
      /\ r.deleted = row.deleted
  BY <1>1, <1>2 DEF Event
<1>4. RowOK(r, js)
  BY <1>3 DEF RowOK
<1> QED BY <1>2, <1>3, <1>4

\* Rows that a step changes and that stay of what they are of.
LEMMA RowsChange ==
    ASSUME DayIInv, event' = [e \in EventIds |-> event'[e]], UNCHANGED just,
           \A e \in Rows : /\ RowOK(event'[e], just) /\ event'[e].kind = event[e].kind
                           /\ event'[e].of = event[e].of,
           \A e \in EventIds \ Rows : event'[e] = None \/ RowOK(event'[e], just)
    PROVE  /\ RowsGoOn(event, event') /\ JustsGoOn(just, just')
           /\ event' \in [EventIds -> Event \cup {None}] /\ \A e \in Rows' : RowOK(event'[e], just')
<1>1. \A e \in EventIds : event'[e] = None \/ RowOK(event'[e], just)
  OBVIOUS
<1>2. \A e \in EventIds : event'[e] \in Event \cup {None}
  BY <1>1 DEF RowOK
<1>3. \A e \in Rows : event'[e] # None
  BY DayAssumption DEF RowOK
<1> QED BY <1>1, <1>2, <1>3, NothingMoves DEF RowsGoOn, Rows

LEMMA AMinute ==
    ASSUME DayIInv, NEW e \in Rows
    PROVE  event[e] \in Event /\ event[e].minutes \in Minutes /\ RowOK(event[e], just)
BY DEF DayIInv, RowOK, Event

LEMMA ReconcileStep ==
    ASSUME DayIInv, NEW c \in Callers, Reconcile(c)
    PROVE  DayIInv'
<1>1. PICK o : o = op[c]
  OBVIOUS
<1>2. OpOK(o, event, just) /\ o.todo # << >> /\ Head(o.todo) = "reconcile"
  BY <1>1, CallAt DEF Reconcile
<1>3. /\ IsCall(o)
      /\ \/ UpsertOK(o, event, just) /\ o.todo = <<"reconcile", "write">>
         \/ /\ DecideOK(o, event) /\ o.then = << >>
            /\ o.todo = <<"reconcile", "extra", "protected", "debited", "save">>
  BY <1>2, StepOf
<1>4. /\ event' = [e \in EventIds |-> IF e \in Superfluous(o.row) THEN [event[e] EXCEPT !.deleted = TRUE]
                                      ELSE event[e]]
      /\ Proceed(c, NextStep(o)) /\ UNCHANGED <<overtime, just>>
  BY <1>1 DEF Reconcile
<1>5. ASSUME NEW e \in Rows
      PROVE  RowOK(event'[e], just) /\ event'[e].kind = event[e].kind /\ event'[e].of = event[e].of
  <2>1. event'[e] = [event[e] EXCEPT !.deleted = TRUE] \/ event'[e] = event[e]
    BY <1>4 DEF Rows
  <2> QED BY <2>1, AMinute, RowDeleted
<1>6. \A e \in EventIds \ Rows : event'[e] = None
  BY <1>4 DEF Superfluous, LiveRows, Rows
<1>7. /\ RowsGoOn(event, event') /\ JustsGoOn(just, just')
      /\ event' \in [EventIds -> Event \cup {None}] /\ \A e \in Rows' : RowOK(event'[e], just')
  <2>1. event' = [e \in EventIds |-> event'[e]]
    BY <1>4
  <2> QED BY <2>1, <1>4, <1>5, <1>6, RowsChange
<1>8. PICK n : n = NextStep(o)
  OBVIOUS
<1>9. /\ IsCall(n) /\ n.todo = Tail(o.todo) /\ n.then = o.then /\ n.items = o.items /\ n.row = o.row
      /\ n.seen = o.seen /\ n.of = o.of
  BY <1>3, <1>8, NextStepIs
<1>10. OpOK(o, event', just')
  BY <1>2, <1>7, OpStays
<1>11. CASE UpsertOK(o, event, just) /\ o.todo = <<"reconcile", "write">>
  <2>1. UpsertOK(o, event', just')
    <3>1. o.todo # <<"reconcile", "extra", "protected", "debited", "save">>
      BY <1>11
    <3> QED BY <3>1, <1>10, <1>2, StepOf
  <2>2. n.todo = <<"write">> /\ n.todo \in Upserting /\ n.todo # << >>
    BY <1>9, <1>11 DEF Upserting
  <2>3. UpsertOK(n, event', just')
    BY <2>1, <2>2, <1>9, <1>11 DEF UpsertOK
  <2>4. OpOK(Settled(n), event', just')
    BY <2>2, <2>3, <1>9 DEF OpOK, Settled
  <2> QED BY <2>4, <1>4, <1>7, <1>8, CallProceeds
<1>12. CASE o.todo = <<"reconcile", "extra", "protected", "debited", "save">>
  <2>1. n.todo = <<"extra", "protected", "debited", "save">> /\ n.todo # << >>
    BY <1>9, <1>12
  <2>2. n.todo \in Refreshing
    BY <2>1 DEF Refreshing
  <2>3. OpOK(Settled(n), event', just')
    BY <2>1, <2>2, <1>9 DEF OpOK, Settled
  <2> QED BY <2>3, <1>4, <1>7, <1>8, CallProceeds
<1> QED BY <1>3, <1>11, <1>12

\* What an upsert writes over a row, or inserts.
LEMMA RowWritten ==
    ASSUME NEW row, NEW item, NEW js, NEW seen \in Event, RowOK(row, js), ItemOK(item, js),
           row.kind = item.kind, row.of = item.of
    PROVE  /\ RowOK(Written(row, item, seen), js)
           /\ Written(row, item, seen).kind = row.kind /\ Written(row, item, seen).of = row.of
           /\ Written(row, item, seen).deleted = FALSE
           /\ Written(row, item, seen).status = IF KeepsStatus(item, seen) THEN row.status ELSE item.status
<1>1. row \in Event /\ item \in Item
  BY DEF RowOK, ItemOK
<1>2. PICK status : status = IF KeepsStatus(item, seen) THEN row.status ELSE item.status
  OBVIOUS
<1>3. PICK protected : protected = IF KeepsStatus(item, seen) THEN row.protected ELSE seen.protected
  OBVIOUS
<1>4. PICK key : key = KeyOf(item)
  OBVIOUS
<1>5. key \in Key /\ key.kind = item.kind /\ key.of = item.of
  BY <1>1, <1>4 DEF KeyOf, Key, Item
<1>6. status \in {"PENDING", "APPROVED", "REJECTED"} /\ protected \in BOOLEAN
  <2>1. row.status \in {"PENDING", "APPROVED", "REJECTED"} /\ item.status \in {"PENDING", "APPROVED", "REJECTED"}
    BY <1>1 DEF Event, Item
  <2>2. row.protected \in BOOLEAN /\ seen.protected \in BOOLEAN
    BY <1>1 DEF Event
  <2> QED BY <2>1, <2>2, <1>2, <1>3
<1>7. PICK r : r = Written(row, item, seen)
  OBVIOUS
<1>8. r = [row EXCEPT !.minutes = item.minutes, !.key = key, !.deleted = FALSE, !.status = status,
                      !.protected = protected]
  BY <1>2, <1>3, <1>4, <1>7 DEF Written
<1>9. /\ r.kind = row.kind /\ r.of = row.of /\ r.status = status /\ r.deleted = FALSE /\ r.key = key
      /\ r \in Event
  BY <1>1, <1>5, <1>6, <1>8 DEF Event, Item
<1>10. row.kind = "JUSTIFICATION" => IsStored(row.of, js) /\ Follows(status, row.of, js)
  BY <1>2 DEF ItemOK, RowOK, KeepsStatus, Follows
<1>11. RowOK(r, js)
  BY <1>5, <1>9, <1>10 DEF RowOK
<1> QED BY <1>2, <1>7, <1>9, <1>11

LEMMA WriteRowStep ==
    ASSUME DayIInv, NEW c \in Callers, WriteRow(c)
    PROVE  DayIInv'
<1>1. PICK o : o = op[c]
  OBVIOUS
<1>2. OpOK(o, event, just) /\ o.todo # << >> /\ Head(o.todo) = "write"
  BY <1>1, CallAt DEF WriteRow
<1>3. IsCall(o) /\ UpsertOK(o, event, just) /\ o.todo = <<"write">>
  BY <1>2, StepOf
<1>4. PICK item : item = Head(o.items)
  OBVIOUS
<1>5. /\ ItemOK(item, just) /\ o.row \in Rows /\ o.row \in EventIds /\ o.seen \in Event
      /\ event[o.row].kind = item.kind /\ event[o.row].of = item.of
  BY <1>3, <1>4, ItemsLeft DEF UpsertOK, IsRow, Rows
<1>6. UNCHANGED <<overtime, just>>
  BY DEF WriteRow
<1>7. CASE KeyTaken(item, o.row)
  <2>1. Proceed(c, Thrown(o)) /\ UNCHANGED event
    BY <1>1, <1>4, <1>7 DEF WriteRow
  <2>2. OpOK(Settled(Thrown(o)), event, just') /\ JustsGoOn(just, just')
    BY <1>3, <1>6, ThrownOK, NothingMoves
  <2> QED BY <2>1, <2>2, <1>6, CallReads
<1>8. CASE ~KeyTaken(item, o.row)
  <2>1. event' = [event EXCEPT ![o.row] = Written(event[o.row], item, o.seen)] /\ Proceed(c, NextItem(o))
    BY <1>1, <1>4, <1>8 DEF WriteRow
  <2>2. PICK e : e = o.row
    OBVIOUS
  <2>3. PICK r : r = Written(event[e], item, o.seen)
    OBVIOUS
  <2>4. RowOK(r, just) /\ r.kind = event[e].kind /\ r.of = event[e].of
    BY <2>2, <2>3, <1>5, AMinute, RowWritten
  <2>5. event' = [event EXCEPT ![e] = r] /\ event \in [EventIds -> Event \cup {None}] /\ e \in Rows
    BY <2>1, <2>2, <2>3, <1>5 DEF DayIInv
  <2>6. \A f \in Rows : /\ RowOK(event'[f], just) /\ event'[f].kind = event[f].kind
                        /\ event'[f].of = event[f].of
    BY <2>4, <2>5, AMinute DEF Rows
  <2>7. event' = [f \in EventIds |-> event'[f]] /\ \A f \in EventIds \ Rows : event'[f] = None
    BY <2>5 DEF Rows
  <2>8. /\ RowsGoOn(event, event') /\ JustsGoOn(just, just')
        /\ event' \in [EventIds -> Event \cup {None}] /\ \A f \in Rows' : RowOK(event'[f], just')
    BY <2>6, <2>7, <1>6, RowsChange
  <2>9. OpOK(o, event', just')
    BY <1>2, <2>8, OpStays
  <2>10. UpsertOK(o, event', just')
    BY <2>9, <1>2, StepOf
  <2>11. OpOK(Settled(NextItem(o)), event', just')
    BY <2>10, <1>3, NextItemOK
  <2> QED BY <2>1, <2>8, <2>11, <1>6, CallProceeds
<1> QED BY <1>7, <1>8

LEMMA InsertRowStep ==
    ASSUME DayIInv, NEW c \in Callers, InsertRow(c)
    PROVE  DayIInv'
<1>1. PICK o : o = op[c]
  OBVIOUS
<1>2. OpOK(o, event, just) /\ o.todo # << >> /\ Head(o.todo) = "insert"
  BY <1>1, CallAt DEF InsertRow
<1>3. IsCall(o) /\ UpsertOK(o, event, just) /\ o.todo = <<"insert">>
  BY <1>2, StepOf
<1>4. PICK item : item = Head(o.items)
  OBVIOUS
<1>5. ItemOK(item, just)
  BY <1>3, <1>4, ItemsLeft DEF UpsertOK
<1>6. UNCHANGED <<overtime, just>>
  BY DEF InsertRow
<1>7. PICK row : row = [kind |-> item.kind, of |-> item.of, key |-> KeyOf(item), minutes |-> item.minutes,
                        status |-> item.status, protected |-> FALSE, deleted |-> FALSE]
  OBVIOUS
<1>8. RowOK(row, just) /\ row.kind = item.kind /\ row.of = item.of
  <2>1. KeyOf(item) \in Key /\ KeyOf(item).kind = item.kind /\ KeyOf(item).of = item.of
    BY <1>5 DEF ItemOK, KeyOf, Key, Item
  <2>2. row \in Event /\ row.key = KeyOf(item) /\ row.kind = item.kind /\ row.of = item.of
        /\ row.status = item.status
    BY <2>1, <1>5, <1>7 DEF ItemOK, Item, Event
  <2> QED BY <2>1, <2>2, <1>5 DEF ItemOK, RowOK
<1>9. \/ Proceed(c, Thrown(o)) /\ UNCHANGED event
      \/ /\ Proceed(c, NextItem(o))
         /\ \E e \in EventIds : /\ e \in Rows => event[e].key = KeyOf(item)
                                /\ event' = [event EXCEPT ![e] = row]
  BY <1>1, <1>4, <1>7 DEF InsertRow, LiveRows, Rows
<1>10. CASE Proceed(c, Thrown(o)) /\ UNCHANGED event
  <2>1. OpOK(Settled(Thrown(o)), event, just') /\ JustsGoOn(just, just')
    BY <1>3, <1>6, ThrownOK, NothingMoves
  <2> QED BY <2>1, <1>6, <1>10, CallReads
<1>11. ASSUME NEW e \in EventIds, e \in Rows => event[e].key = KeyOf(item),
              event' = [event EXCEPT ![e] = row], Proceed(c, NextItem(o))
       PROVE  DayIInv'
  <2>1. e \in Rows => event[e].kind = item.kind /\ event[e].of = item.of
    BY <1>11, AMinute DEF RowOK, KeyOf
  <2>2. event \in [EventIds -> Event \cup {None}]
    BY DEF DayIInv
  <2>3. \A f \in Rows : /\ RowOK(event'[f], just) /\ event'[f].kind = event[f].kind
                        /\ event'[f].of = event[f].of
    BY <2>1, <2>2, <1>8, <1>11, AMinute DEF Rows
  <2>4. event' = [f \in EventIds |-> event'[f]]
        /\ \A f \in EventIds \ Rows : event'[f] = None \/ RowOK(event'[f], just)
    BY <2>2, <1>8, <1>11 DEF Rows
  <2>5. /\ RowsGoOn(event, event') /\ JustsGoOn(just, just')
        /\ event' \in [EventIds -> Event \cup {None}] /\ \A f \in Rows' : RowOK(event'[f], just')
    BY <2>3, <2>4, <1>6, RowsChange
  <2>6. OpOK(o, event', just')
    BY <1>2, <2>5, OpStays
  <2>7. UpsertOK(o, event', just')
    BY <2>6, <1>2, StepOf
  <2>8. OpOK(Settled(NextItem(o)), event', just')
    BY <2>7, <1>3, NextItemOK
  <2> QED BY <2>5, <2>8, <1>6, <1>11, CallProceeds
<1> QED BY <1>9, <1>10, <1>11

LEMMA UpsertFailsStep ==
    ASSUME DayIInv, NEW c \in Callers, UpsertFails(c)
    PROVE  DayIInv'
<1>1. PICK o : o = op[c]
  OBVIOUS
<1>2. PICK step \in {"find", "reconcile", "write", "insert"} : AtStep(c, step)
  BY DEF UpsertFails
<1>3. OpOK(o, event, just) /\ o.todo # << >> /\ Head(o.todo) = step /\ o.items # << >>
  BY <1>1, <1>2, CallAt DEF UpsertFails
<1>4. Proceed(c, Thrown(o)) /\ UNCHANGED <<overtime, event, just>> /\ JustsGoOn(just, just')
  BY <1>1, NothingMoves DEF UpsertFails
<1>5. CASE UpsertOK(o, event, just)
  <2>1. IsCall(o)
    BY <1>3 DEF OpOK
  <2>2. OpOK(Settled(Thrown(o)), event, just')
    BY <2>1, <1>4, <1>5, ThrownOK
  <2> QED BY <2>2, <1>4, CallReads
<1>6. CASE /\ DecideOK(o, event) /\ o.then = << >>
           /\ o.todo = <<"reconcile", "extra", "protected", "debited", "save">>
  \* a decision has no items
  BY <1>3, <1>6 DEF DecideOK
<1> QED BY <1>2, <1>3, <1>5, <1>6, StepOf

\* A justification that is edited, decided or deleted.
LEMMA JustChanges ==
    ASSUME DayIInv, NEW j \in Justifications, Stored(j), NEW row \in Justification,
           Decided(just[j].status) => row.status = just[j].status,
           just' = [just EXCEPT ![j] = row]
    PROVE  JustsGoOn(just, just')
<1>1. row # None
  BY DayAssumption
<1>2. just \in [Justifications -> Justification \cup {None}]
  BY DEF DayIInv
<1> QED BY <1>1, <1>2 DEF JustsGoOn, Stored

LEMMA TakeBackStep ==
    ASSUME DayIInv, NEW c \in Callers, TakeBack(c)
    PROVE  DayIInv'
<1>1. PICK o : o = op[c]
  OBVIOUS
<1>2. OpOK(o, event, just) /\ o.todo # << >> /\ Head(o.todo) = "undo"
  BY <1>1, CallAt DEF TakeBack
<1>3. UndoOK(o, just)
  BY <1>2, StepOf
<1>4. PICK j : j = o.of
  OBVIOUS
<1>5. PICK row : row = [just[j] EXCEPT !.deleted = TRUE]
  OBVIOUS
<1>6. j \in Justifications /\ Stored(j) /\ just[j] \in Justification
  BY <1>3, <1>4 DEF UndoOK, IsStored, Stored, DayIInv
<1>7. row \in Justification /\ row.status = just[j].status
  BY <1>5, <1>6 DEF Justification
<1>8. just' = [just EXCEPT ![j] = row] /\ Proceed(c, NoOp) /\ UNCHANGED <<overtime, event>>
  BY <1>1, <1>4, <1>5 DEF TakeBack
<1>9. JustsGoOn(just, just')
  BY <1>6, <1>7, <1>8, JustChanges
<1>10. OpOK(Settled(NoOp), event, just')
  BY NoOpIsOK DEF Settled, NoOp
<1> QED BY <1>8, <1>9, <1>10, CallReads

LEMMA DeleteJustStep ==
    ASSUME DayIInv, NEW c \in Callers, DeleteJust(c)
    PROVE  DayIInv'
<1>1. PICK o : o = op[c]
  OBVIOUS
<1>2. OpOK(o, event, just) /\ o.todo # << >> /\ Head(o.todo) = "deleteJust"
  BY <1>1, CallAt DEF DeleteJust
<1>3. /\ IsCall(o) /\ DeleteOK(o, just) /\ o.then = << >>
      /\ o.todo = <<"deleteJust", "deleteEvents", "extra", "protected", "debited", "save">>
  BY <1>2, StepOf
<1>4. PICK j : j = o.of
  OBVIOUS
<1>5. PICK row : row = [just[j] EXCEPT !.deleted = TRUE]
  OBVIOUS
<1>6. j \in Justifications /\ Stored(j) /\ just[j] \in Justification
  BY <1>3, <1>4 DEF DeleteOK, IsStored, Stored, DayIInv
<1>7. row \in Justification /\ row.status = just[j].status
  BY <1>5, <1>6 DEF Justification
<1>8. just' = [just EXCEPT ![j] = row] /\ Proceed(c, NextStep(o)) /\ UNCHANGED <<overtime, event>>
  BY <1>1, <1>4, <1>5 DEF DeleteJust
<1>9. JustsGoOn(just, just')
  BY <1>6, <1>7, <1>8, JustChanges
<1>10. PICK n : n = NextStep(o)
  OBVIOUS
<1>11. /\ IsCall(n) /\ n.todo = Tail(o.todo) /\ n.then = << >> /\ n.of = j
  BY <1>3, <1>4, <1>10, NextStepIs
<1>12. n.todo = <<"deleteEvents", "extra", "protected", "debited", "save">> /\ n.todo # << >>
  BY <1>3, <1>11
<1>13. DeleteOK(n, just')
  BY <1>6, <1>9, <1>11, <1>12 DEF DeleteOK, IsStored, Stored, JustsGoOn
<1>14. OpOK(Settled(n), event, just')
  BY <1>11, <1>12, <1>13 DEF OpOK, Settled
<1> QED BY <1>8, <1>9, <1>10, <1>14, CallReads

LEMMA EditJustStep ==
    ASSUME DayIInv, NEW c \in Callers, EditJust(c)
    PROVE  DayIInv'
<1>1. PICK o : o = op[c]
  OBVIOUS
<1>2. OpOK(o, event, just) /\ o.todo # << >> /\ Head(o.todo) = "editJust"
  BY <1>1, CallAt DEF EditJust
<1>3. IsCall(o) /\ EditOK(o, just) /\ o.then = << >> /\ o.todo = <<"editJust", "editEvents">>
  BY <1>2, StepOf
<1>4. PICK j : j = o.of
  OBVIOUS
<1>5. PICK row : row = [just[j] EXCEPT !.minutes = o.minutes, !.debit = o.debit]
  OBVIOUS
<1>6. j \in Justifications /\ Stored(j) /\ just[j] \in Justification
  BY <1>3, <1>4 DEF EditOK, IsStored, Stored, DayIInv
<1>7. row \in Justification /\ row.status = just[j].status
  BY <1>3, <1>5, <1>6 DEF Justification, EditOK
<1>8. just' = [just EXCEPT ![j] = row] /\ Proceed(c, NextStep(o)) /\ UNCHANGED <<overtime, event>>
  <2>1. /\ just' = [just EXCEPT ![j].minutes = o.minutes, ![j].debit = o.debit]
        /\ Proceed(c, NextStep(o)) /\ UNCHANGED <<overtime, event>>
    BY <1>1, <1>4 DEF EditJust
  <2>2. just \in [Justifications -> Justification \cup {None}]
    BY DEF DayIInv
  <2> QED BY <2>1, <2>2, <1>5, <1>6 DEF Justification
<1>9. JustsGoOn(just, just')
  BY <1>6, <1>7, <1>8, JustChanges
<1>10. PICK n : n = NextStep(o)
  OBVIOUS
<1>11. /\ IsCall(n) /\ n.todo = Tail(o.todo) /\ n.then = << >> /\ n.of = j
       /\ n.minutes = o.minutes /\ n.debit = o.debit
  BY <1>3, <1>4, <1>10, NextStepIs
<1>12. n.todo = <<"editEvents">> /\ n.todo # << >>
  BY <1>3, <1>11
<1>13. EditOK(n, just')
  BY <1>3, <1>6, <1>9, <1>11, <1>12 DEF EditOK, IsStored, Stored, JustsGoOn
<1>14. OpOK(Settled(n), event, just')
  BY <1>11, <1>12, <1>13 DEF OpOK, Settled
<1> QED BY <1>8, <1>9, <1>10, <1>14, CallReads

LEMMA DecideJustStep ==
    ASSUME DayIInv, NEW c \in Callers, DecideJust(c)
    PROVE  DayIInv'
<1>1. PICK o : o = op[c]
  OBVIOUS
<1>2. OpOK(o, event, just) /\ o.todo # << >> /\ Head(o.todo) = "decideJust"
  BY <1>1, CallAt DEF DecideJust
<1>3. /\ IsCall(o) /\ JustOK(o, just) /\ o.then = << >>
      /\ o.todo = <<"decideJust", "markEvents", "extra", "protected", "debited", "save">>
  BY <1>2, StepOf
<1>4. PICK j : j = o.of
  OBVIOUS
<1>5. PICK row : row = [just[j] EXCEPT !.status = o.decision]
  OBVIOUS
<1>6. j \in Justifications /\ Stored(j) /\ just[j] \in Justification /\ o.decision \in Decision
  BY <1>3, <1>4 DEF JustOK, IsStored, Stored, DayIInv
<1>7. row \in Justification /\ row.status = o.decision
  BY <1>5, <1>6 DEF Justification, Decision
<1>8. UNCHANGED <<overtime, event>>
  BY DEF DecideJust
<1>9. CASE just[j].status = "PENDING" /\ ~just[j].deleted
  <2>1. just' = [just EXCEPT ![j] = row] /\ Proceed(c, NextStep(o))
    BY <1>1, <1>4, <1>5, <1>9 DEF DecideJust
  <2>2. JustsGoOn(just, just')
    BY <1>6, <1>7, <1>9, <2>1, JustChanges DEF Decided
  <2>3. just'[j].status = o.decision /\ just'[j] # None
    BY <2>1, <1>6, <1>7, DayAssumption DEF DayIInv
  <2>4. PICK n : n = NextStep(o)
    OBVIOUS
  <2>5. /\ IsCall(n) /\ n.todo = Tail(o.todo) /\ n.then = << >> /\ n.of = j /\ n.decision = o.decision
    BY <1>3, <1>4, <2>4, NextStepIs
  <2>6. n.todo = <<"markEvents", "extra", "protected", "debited", "save">> /\ n.todo # << >>
    BY <1>3, <2>5
  <2>7. JustOK(n, just')
    BY <1>6, <2>3, <2>5, <2>6 DEF JustOK, IsStored
  <2>8. OpOK(Settled(n), event, just')
    BY <2>5, <2>6, <2>7 DEF OpOK, Settled
  <2> QED BY <1>8, <2>1, <2>2, <2>4, <2>8, CallReads
<1>10. CASE ~(just[j].status = "PENDING" /\ ~just[j].deleted)
  <2>1. UNCHANGED just /\ Proceed(c, NoOp) /\ JustsGoOn(just, just')
    BY <1>1, <1>4, <1>10, NothingMoves DEF DecideJust
  <2>2. OpOK(Settled(NoOp), event, just')
    BY NoOpIsOK DEF Settled, NoOp
  <2> QED BY <1>8, <2>1, <2>2, CallReads
<1> QED BY <1>9, <1>10

LEMMA WriteDecisionStep ==
    ASSUME DayIInv, NEW c \in Callers, WriteDecision(c)
    PROVE  DayIInv'
<1>1. PICK o : o = op[c]
  OBVIOUS
<1>2. OpOK(o, event, just) /\ o.todo # << >> /\ Head(o.todo) = "decide"
  BY <1>1, CallAt DEF WriteDecision
<1>3. /\ IsCall(o) /\ DecideOK(o, event) /\ o.then = << >>
      /\ o.todo = <<"decide", "reconcile", "extra", "protected", "debited", "save">>
  BY <1>2, StepOf
<1>4. PICK e : e = o.row
  OBVIOUS
<1>5. e \in Rows /\ event[e].kind = "OVERTIME" /\ o.decision \in Decision /\ o.items = << >>
  BY <1>3, <1>4 DEF DecideOK, IsRow, Rows
<1>6. UNCHANGED <<overtime, just>>
  BY DEF WriteDecision
<1>7. CASE e \in LiveRows /\ event[e].status = "PENDING"
  <2>1. PICK row : row = [event[e] EXCEPT !.status = o.decision, !.protected = (o.decision = "APPROVED")]
    OBVIOUS
  <2>2. event[e] \in Event /\ RowOK(event[e], just) /\ event \in [EventIds -> Event \cup {None}]
    BY <1>5, AMinute DEF DayIInv
  <2>3. PICK protected \in BOOLEAN : protected = (o.decision = "APPROVED")
    OBVIOUS
  <2>4. row = [event[e] EXCEPT !.status = o.decision, !.protected = protected]
    BY <2>1, <2>3
  <2>5. /\ row \in Event /\ row.kind = event[e].kind /\ row.of = event[e].of /\ row.key = event[e].key
    BY <2>2, <2>4, <1>5 DEF Event, Decision
  <2>6. RowOK(row, just)
    BY <2>2, <2>5, <1>5 DEF RowOK
  <2>7. event' = [event EXCEPT ![e] = row] /\ Proceed(c, NextStep(o))
    <3>1. /\ event' = [event EXCEPT ![e].status = o.decision, ![e].protected = (o.decision = "APPROVED")]
          /\ Proceed(c, NextStep(o))
      BY <1>1, <1>4, <1>7 DEF WriteDecision
    <3>2. event' = [event EXCEPT ![e].status = o.decision, ![e].protected = protected]
      BY <3>1, <2>3
    <3> QED BY <3>1, <3>2, <2>2, <2>4, <1>5 DEF Event, Rows
  <2>8. /\ event' = [f \in EventIds |-> event'[f]] /\ \A f \in EventIds \ Rows : event'[f] = None
        /\ \A f \in Rows : /\ RowOK(event'[f], just) /\ event'[f].kind = event[f].kind
                           /\ event'[f].of = event[f].of
    BY <2>2, <2>5, <2>6, <2>7, <1>5, AMinute DEF Rows
  <2>9. /\ RowsGoOn(event, event') /\ JustsGoOn(just, just')
        /\ event' \in [EventIds -> Event \cup {None}] /\ \A f \in Rows' : RowOK(event'[f], just')
    BY <2>8, <1>6, RowsChange
  <2>10. PICK n : n = NextStep(o)
    OBVIOUS
  <2>11. /\ IsCall(n) /\ n.todo = Tail(o.todo) /\ n.then = << >> /\ n.row = e
         /\ n.decision = o.decision /\ n.items = << >>
    BY <1>3, <1>4, <1>5, <2>10, NextStepIs
  <2>12. n.todo = <<"reconcile", "extra", "protected", "debited", "save">> /\ n.todo # << >>
    BY <1>3, <2>11
  <2>13. DecideOK(n, event')
    BY <1>5, <2>9, <2>11, <2>12 DEF DecideOK, IsRow, Rows, RowsGoOn
  <2>14. OpOK(Settled(n), event', just')
    BY <2>11, <2>12, <2>13 DEF OpOK, Settled
  <2> QED BY <1>6, <2>7, <2>9, <2>10, <2>14, CallProceeds
<1>8. CASE ~(e \in LiveRows /\ event[e].status = "PENDING")
  <2>1. UNCHANGED event /\ Proceed(c, NoOp) /\ JustsGoOn(just, just')
    BY <1>1, <1>4, <1>6, <1>8, NothingMoves DEF WriteDecision
  <2>2. OpOK(Settled(NoOp), event, just')
    BY NoOpIsOK DEF Settled, NoOp
  <2> QED BY <1>6, <2>1, <2>2, CallReads
<1> QED BY <1>7, <1>8

\* What the last statement of a decision, an edit or a deletion of a
\* justification does to one of its events.
LEMMA RowMarked ==
    ASSUME NEW row, NEW js, NEW d \in Decision, RowOK(row, js), row.kind = "JUSTIFICATION",
           js[row.of].status = d
    PROVE  /\ RowOK([row EXCEPT !.status = d, !.protected = FALSE], js)
           /\ [row EXCEPT !.status = d, !.protected = FALSE].kind = row.kind
           /\ [row EXCEPT !.status = d, !.protected = FALSE].of = row.of
           /\ [row EXCEPT !.status = d, !.protected = FALSE].deleted = row.deleted
           /\ [row EXCEPT !.status = d, !.protected = FALSE].status = d
<1>1. row \in Event
  BY DEF RowOK
<1>2. PICK r : r = [row EXCEPT !.status = d, !.protected = FALSE]
  OBVIOUS
<1>3. /\ r \in Event /\ r.kind = row.kind /\ r.of = row.of /\ r.status = d /\ r.key = row.key
      /\ r.deleted = row.deleted
  BY <1>1, <1>2 DEF Event, Decision
<1>4. RowOK(r, js)
  BY <1>3 DEF RowOK, Follows
<1> QED BY <1>2, <1>3, <1>4

\* What MarkEvents does, by the step the call is at.
LEMMA EventsMarked ==
    ASSUME DayIInv, NEW c \in Callers, MarkEvents(c), NEW o, o = op[c]
    PROVE  /\ Proceed(c, NextStep(o)) /\ UNCHANGED <<overtime, just>>
           /\ event' = [e \in EventIds |-> event'[e]]
           /\ \A e \in EventIds \ EventsOf(o.of) : event'[e] = event[e]
           /\ \/ /\ AtStep(c, "markEvents")
                 /\ \A e \in EventsOf(o.of) :
                       event'[e] = [event[e] EXCEPT !.status = o.decision, !.protected = FALSE]
              \/ /\ AtStep(c, "editEvents")
                 /\ \A e \in EventsOf(o.of) : event'[e] = [event[e] EXCEPT !.minutes = o.minutes]
              \/ /\ AtStep(c, "deleteEvents")
                 /\ \A e \in EventsOf(o.of) : event'[e] = [event[e] EXCEPT !.deleted = TRUE]
<1>1. EventsOf(o.of) \subseteq EventIds
  BY DEF EventsOf, LiveRows, Rows
<1>2. Proceed(c, NextStep(o)) /\ UNCHANGED <<overtime, just>>
  BY DEF MarkEvents
<1>3. CASE AtStep(c, "markEvents")
  <2>1. event' = [e \in EventIds |-> IF e \in EventsOf(o.of)
                     THEN [event[e] EXCEPT !.status = o.decision, !.protected = FALSE] ELSE event[e]]
    BY <1>3 DEF MarkEvents, AtStep
  <2> QED BY <1>1, <1>2, <1>3, <2>1
<1>4. CASE AtStep(c, "editEvents")
  <2>1. event' = [e \in EventIds |-> IF e \in EventsOf(o.of)
                     THEN [event[e] EXCEPT !.minutes = o.minutes] ELSE event[e]]
    BY <1>4 DEF MarkEvents, AtStep
  <2> QED BY <1>1, <1>2, <1>4, <2>1
<1>5. CASE AtStep(c, "deleteEvents")
  <2>1. event' = [e \in EventIds |-> IF e \in EventsOf(o.of)
                     THEN [event[e] EXCEPT !.deleted = TRUE] ELSE event[e]]
    BY <1>5 DEF MarkEvents, AtStep
  <2> QED BY <1>1, <1>2, <1>5, <2>1
<1> QED BY <1>3, <1>4, <1>5 DEF MarkEvents

LEMMA MarkEventsStep ==
    ASSUME DayIInv, NEW c \in Callers, MarkEvents(c)
    PROVE  DayIInv'
<1>1. PICK o : o = op[c]
  OBVIOUS
<1>2. /\ Proceed(c, NextStep(o)) /\ UNCHANGED <<overtime, just>>
      /\ event' = [e \in EventIds |-> event'[e]]
      /\ \A e \in EventIds \ EventsOf(o.of) : event'[e] = event[e]
  BY <1>1, EventsMarked
<1>3. EventsOf(o.of) \subseteq Rows /\ \A e \in EventsOf(o.of) : event[e].kind = "JUSTIFICATION" /\ event[e].of = o.of
  BY DEF EventsOf, LiveRows
<1>4. OpOK(o, event, just)
  BY <1>1 DEF DayIInv
<1>5. PICK n : n = NextStep(o)
  OBVIOUS
<1>10. IsCall(o) /\ IsCall(n) /\ n.todo = Tail(o.todo)
  BY <1>4, <1>5, NextStepIs DEF OpOK
<1>11. \A e \in EventsOf(o.of) : RowOK(event[e], just)
  BY <1>3, AMinute
<1>6. ASSUME \A e \in EventsOf(o.of) : RowOK(event'[e], just) /\ event'[e].kind = event[e].kind
                                       /\ event'[e].of = event[e].of
      PROVE  /\ RowsGoOn(event, event') /\ JustsGoOn(just, just')
             /\ event' \in [EventIds -> Event \cup {None}] /\ \A e \in Rows' : RowOK(event'[e], just')
  <2>1. \A e \in Rows : RowOK(event'[e], just) /\ event'[e].kind = event[e].kind /\ event'[e].of = event[e].of
    BY <1>2, <1>6, AMinute DEF Rows
  <2>2. \A e \in EventIds \ Rows : event'[e] = None
    BY <1>2, <1>3 DEF Rows
  <2> QED BY <2>1, <2>2, <1>2, RowsChange
<1>7. CASE /\ AtStep(c, "markEvents")
           /\ \A e \in EventsOf(o.of) :
                 event'[e] = [event[e] EXCEPT !.status = o.decision, !.protected = FALSE]
  <2>1. o.todo # << >> /\ Head(o.todo) = "markEvents"
    BY <1>1, <1>7, CallAt
  <2>2. /\ IsCall(o) /\ JustOK(o, just) /\ o.then = << >>
        /\ o.todo = <<"markEvents", "extra", "protected", "debited", "save">>
    BY <2>1, <1>4, StepOf
  <2>3. o.decision \in Decision /\ just[o.of].status = o.decision
    BY <2>2 DEF JustOK
  <2>4. \A e \in EventsOf(o.of) : RowOK(event'[e], just) /\ event'[e].kind = event[e].kind
                                  /\ event'[e].of = event[e].of
    <3> SUFFICES ASSUME NEW e \in EventsOf(o.of)
                 PROVE  RowOK(event'[e], just) /\ event'[e].kind = event[e].kind /\ event'[e].of = event[e].of
      OBVIOUS
    <3>1. PICK row, d : row = event[e] /\ d = o.decision
      OBVIOUS
    <3>2. event'[e] = [row EXCEPT !.status = d, !.protected = FALSE]
      BY <3>1, <1>7
    <3>3. RowOK(row, just) /\ d \in Decision /\ row.kind = "JUSTIFICATION" /\ just[row.of].status = d
      BY <3>1, <2>3, <1>3, <1>11
    <3>4. PICK r : r = [row EXCEPT !.status = d, !.protected = FALSE]
      OBVIOUS
    <3>5. RowOK(r, just) /\ r.kind = row.kind /\ r.of = row.of
      BY <3>3, <3>4, RowMarked
    <3> QED BY <3>1, <3>2, <3>4, <3>5
  <2>5. n.todo = <<"extra", "protected", "debited", "save">> /\ n.todo # << >>
    BY <2>2, <1>10
  <2>6. n.todo \in Refreshing
    BY <2>5 DEF Refreshing
  <2>7. OpOK(Settled(n), event', just')
    BY <2>5, <2>6, <1>10 DEF OpOK, Settled
  <2> QED BY <2>4, <2>7, <1>2, <1>5, <1>6, CallProceeds
<1>8. CASE /\ AtStep(c, "editEvents")
           /\ \A e \in EventsOf(o.of) : event'[e] = [event[e] EXCEPT !.minutes = o.minutes]
  <2>1. o.todo # << >> /\ Head(o.todo) = "editEvents"
    BY <1>1, <1>8, CallAt
  <2>2. IsCall(o) /\ EditOK(o, just) /\ o.then = << >> /\ o.todo = <<"editEvents">>
    BY <2>1, <1>4, StepOf
  <2>3. o.minutes \in Minutes
    BY <2>2 DEF EditOK
  <2>4. \A e \in EventsOf(o.of) : RowOK(event'[e], just) /\ event'[e].kind = event[e].kind
                                  /\ event'[e].of = event[e].of
    <3> SUFFICES ASSUME NEW e \in EventsOf(o.of)
                 PROVE  RowOK(event'[e], just) /\ event'[e].kind = event[e].kind /\ event'[e].of = event[e].of
      OBVIOUS
    <3>1. PICK row : row = event[e]
      OBVIOUS
    <3>2. PICK r : r = [row EXCEPT !.minutes = o.minutes]
      OBVIOUS
    <3>3. event'[e] = r /\ RowOK(row, just)
      BY <3>1, <3>2, <1>8, <1>11
    <3>4. RowOK(r, just) /\ r.kind = row.kind /\ r.of = row.of
      BY <3>2, <3>3, <2>3, RowEdited
    <3> QED BY <3>1, <3>3, <3>4
  <2>5. n.todo = << >>
    BY <2>2, <1>10
  <2>6. OpOK(Settled(n), event', just')
    BY <2>5, NoOpIsOK DEF Settled
  <2> QED BY <2>4, <2>6, <1>2, <1>5, <1>6, CallProceeds
<1>9. CASE /\ AtStep(c, "deleteEvents")
           /\ \A e \in EventsOf(o.of) : event'[e] = [event[e] EXCEPT !.deleted = TRUE]
  <2>1. o.todo # << >> /\ Head(o.todo) = "deleteEvents"
    BY <1>1, <1>9, CallAt
  <2>2. /\ IsCall(o) /\ o.then = << >>
        /\ o.todo = <<"deleteEvents", "extra", "protected", "debited", "save">>
    BY <2>1, <1>4, StepOf
  <2>3. \A e \in EventsOf(o.of) : RowOK(event'[e], just) /\ event'[e].kind = event[e].kind
                                  /\ event'[e].of = event[e].of
    <3> SUFFICES ASSUME NEW e \in EventsOf(o.of)
                 PROVE  RowOK(event'[e], just) /\ event'[e].kind = event[e].kind /\ event'[e].of = event[e].of
      OBVIOUS
    <3>1. PICK row : row = event[e]
      OBVIOUS
    <3>2. PICK r : r = [row EXCEPT !.deleted = TRUE]
      OBVIOUS
    <3>3. event'[e] = r /\ RowOK(row, just)
      BY <3>1, <3>2, <1>9, <1>11
    <3>4. RowOK(r, just) /\ r.kind = row.kind /\ r.of = row.of
      BY <3>2, <3>3, RowDeleted
    <3> QED BY <3>1, <3>3, <3>4
  <2>4. n.todo = <<"extra", "protected", "debited", "save">> /\ n.todo # << >>
    BY <2>2, <1>10
  <2>5. n.todo \in Refreshing
    BY <2>4 DEF Refreshing
  <2>6. OpOK(Settled(n), event', just')
    BY <2>4, <2>5, <1>10 DEF OpOK, Settled
  <2> QED BY <2>3, <2>6, <1>2, <1>5, <1>6, CallProceeds
<1> QED BY <1>1, <1>7, <1>8, <1>9, EventsMarked

LEMMA ReadSumStep ==
    ASSUME DayIInv, NEW c \in Callers, ReadSum(c)
    PROVE  DayIInv'
<1>1. PICK o : o = op[c]
  OBVIOUS
<1>2. UNCHANGED <<overtime, event, just>> /\ JustsGoOn(just, just') /\ IsCall(o)
  BY <1>1, NothingMoves DEF ReadSum, DayIInv, OpOK
<1>3. PICK q : q = NextStep(o)
  OBVIOUS
<1>4. IsCall(q) /\ q.todo = Tail(o.todo)
  BY <1>2, <1>3, NextStepIs
<1>5. ASSUME NEW n, Proceed(c, n), IsCall(n), n.todo \in Refreshing
      PROVE  DayIInv'
  <2>1. n.todo # << >>
    BY <1>5 DEF Refreshing
  <2>2. OpOK(Settled(n), event, just')
    BY <1>5, <2>1 DEF OpOK, Settled
  <2> QED BY <1>2, <1>5, <2>2, CallReads
<1>6. CASE AtStep(c, "extra") /\ Proceed(c, [q EXCEPT !.extra = ExtraMinutes])
  <2>1. PICK n : n = [q EXCEPT !.extra = ExtraMinutes]
    OBVIOUS
  <2>2. o.todo = <<"extra", "protected", "debited", "save">>
    BY <1>1, <1>6, CallAt, StepOf
  <2>3. IsCall(n) /\ n.todo = q.todo
    <3>1. n = [todo |-> q.todo, then |-> q.then, items |-> q.items, row |-> q.row, seen |-> q.seen,
               of |-> q.of, decision |-> q.decision, minutes |-> q.minutes, debit |-> q.debit,
               extra |-> ExtraMinutes, protected |-> q.protected, debited |-> q.debited]
      BY <2>1, <1>4 DEF IsCall
    <3> QED BY <3>1 DEF IsCall
  <2>4. n.todo \in Refreshing
    BY <2>2, <2>3, <1>4 DEF Refreshing
  <2> QED BY <2>1, <2>3, <2>4, <1>5, <1>6
<1>7. CASE AtStep(c, "protected") /\ Proceed(c, [q EXCEPT !.protected = ProtectedMinutes])
  <2>1. PICK n : n = [q EXCEPT !.protected = ProtectedMinutes]
    OBVIOUS
  <2>2. o.todo = <<"protected", "debited", "save">>
    BY <1>1, <1>7, CallAt, StepOf
  <2>3. IsCall(n) /\ n.todo = q.todo
    <3>1. n = [todo |-> q.todo, then |-> q.then, items |-> q.items, row |-> q.row, seen |-> q.seen,
               of |-> q.of, decision |-> q.decision, minutes |-> q.minutes, debit |-> q.debit,
               extra |-> q.extra, protected |-> ProtectedMinutes, debited |-> q.debited]
      BY <2>1, <1>4 DEF IsCall
    <3> QED BY <3>1 DEF IsCall
  <2>4. n.todo \in Refreshing
    BY <2>2, <2>3, <1>4 DEF Refreshing
  <2> QED BY <2>1, <2>3, <2>4, <1>5, <1>7
<1>8. CASE AtStep(c, "debited") /\ Proceed(c, [q EXCEPT !.debited = DebitedMinutes])
  <2>1. PICK n : n = [q EXCEPT !.debited = DebitedMinutes]
    OBVIOUS
  <2>2. o.todo = <<"debited", "save">>
    BY <1>1, <1>8, CallAt, StepOf
  <2>3. IsCall(n) /\ n.todo = q.todo
    <3>1. n = [todo |-> q.todo, then |-> q.then, items |-> q.items, row |-> q.row, seen |-> q.seen,
               of |-> q.of, decision |-> q.decision, minutes |-> q.minutes, debit |-> q.debit,
               extra |-> q.extra, protected |-> q.protected, debited |-> DebitedMinutes]
      BY <2>1, <1>4 DEF IsCall
    <3> QED BY <3>1 DEF IsCall
  <2>4. n.todo \in Refreshing
    BY <2>2, <2>3, <1>4 DEF Refreshing
  <2> QED BY <2>1, <2>3, <2>4, <1>5, <1>8
<1> QED BY <1>1, <1>3, <1>6, <1>7, <1>8 DEF ReadSum

\* A call that ends.
LEMMA CallEnds ==
    ASSUME DayIInv, NEW c \in Callers, op' = [op EXCEPT ![c] = NoOp], UNCHANGED <<overtime, event, just>>
    PROVE  DayIInv'
<1>1. PICK o : o = NoOp
  OBVIOUS
<1>2. Proceed(c, o) /\ OpOK(Settled(o), event, just') /\ JustsGoOn(just, just')
  BY <1>1, NoOpIsOK, NothingMoves DEF Proceed, Settled, NoOp
<1> QED BY <1>2, CallReads

LEMMA AppointmentMoves ==
    ASSUME DayIInv, NEW x \in Worked, NEW m \in Minutes \cup {0}, MoveAppointment(x, m)
    PROVE  DayIInv'
<1>1. overtime' \in [Worked -> Minutes \cup {0}] /\ UNCHANGED <<event, just, op>>
  BY DEF DayIInv, MoveAppointment
<1> QED BY <1>1 DEF DayIInv, Rows

LEMMA DayStart == DayInit => DayIInv
<1> SUFFICES ASSUME DayInit PROVE DayIInv
  OBVIOUS
<1>1. /\ overtime \in [Worked -> Minutes \cup {0}]
      /\ event \in [EventIds -> Event \cup {None}] /\ just \in [Justifications -> Justification \cup {None}]
      /\ Rows = {} /\ op = [c \in Callers |-> op[c]]
  BY DEF DayInit, Rows
<1>2. \A c \in Callers : OpOK(op[c], event, just)
  BY NoOpIsOK DEF DayInit
<1> QED BY <1>1, <1>2 DEF DayIInv

LEMMA DayStep ==
    ASSUME DayIInv, DayNext
    PROVE  DayIInv'
<1>1. ASSUME NEW x \in Worked, NEW m \in Minutes \cup {0}, MoveAppointment(x, m) PROVE DayIInv'
  BY <1>1, AppointmentMoves
<1>2. ASSUME NEW c \in Callers, OpStep(c) PROVE DayIInv'
  <2>1. CASE SaveBalance(c)
    <3>1. op' = [op EXCEPT ![c] = NoOp] /\ UNCHANGED <<overtime, event, just>>
      BY <2>1 DEF SaveBalance, Proceed, NoOp
    <3> QED BY <3>1, CallEnds
  <2> QED BY <1>2, <2>1, FindCurrentStep, ReconcileStep, WriteRowStep, InsertRowStep, TakeBackStep,
             WriteDecisionStep, DecideJustStep, MarkEventsStep, EditJustStep, DeleteJustStep,
             ReadSumStep DEF OpStep
<1>3. ASSUME NEW c \in Callers, UpsertFails(c) PROVE DayIInv'
  BY <1>3, UpsertFailsStep
<1>4. ASSUME NEW c \in Callers, OpDies(c) PROVE DayIInv'
  BY <1>4, CallEnds DEF OpDies
<1>5. ASSUME NEW c \in Callers, NEW then \in {Refresh, << >>}, Synchronise(c, then) PROVE DayIInv'
  BY <1>5, SynchroniseStep
<1>6. ASSUME NEW c \in Callers, NEW d \in Decision, NEW e \in EventIds, DecideDayEvent(c, e, d)
      PROVE  DayIInv'
  BY <1>6, DecideDayEventStep
<1>7. ASSUME NEW c \in Callers, NEW d \in Decision, NEW j \in Justifications, DecideJustification(c, j, d)
      PROVE  DayIInv'
  BY <1>7, DecideJustificationStep
<1>8. ASSUME NEW c \in Callers, NEW j \in Justifications, NEW m \in Minutes, NEW debit \in BOOLEAN,
             CreateJustification(c, j, m, debit)
      PROVE  DayIInv'
  BY <1>8, CreateJustificationStep
<1>9. ASSUME NEW c \in Callers, NEW j \in Justifications, NEW m \in Minutes, NEW debit \in BOOLEAN,
             EditJustification(c, j, m, debit)
      PROVE  DayIInv'
  BY <1>9, EditJustificationStep
<1>10. ASSUME NEW c \in Callers, NEW j \in Justifications, DeleteJustification(c, j) PROVE DayIInv'
  BY <1>10, DeleteJustificationStep
<1> QED BY <1>1, <1>2, <1>3, <1>4, <1>5, <1>6, <1>7, <1>8, <1>9, <1>10 DEF DayNext, Decision

LEMMA DayStutter == ASSUME DayIInv, UNCHANGED dayVars PROVE DayIInv'
BY DEF DayIInv, dayVars, Rows

\* What a call has read and has yet to do fits the rows, in every reachable state.
THEOREM DayStaysSound == DaySpec => []DayIInv
<1>1. DayIInv /\ [DayNext]_dayVars => DayIInv'
  BY DayStep, DayStutter
<1> QED BY DayStart, <1>1, PTL DEF DaySpec

-----------------------------------------------------------------------------
(* Decisions.                                                              *)

Kept(e) ==
    /\ event'[e].status # event[e].status => \E c \in Callers :
          op'[c] # op[c] /\ (AtStep(c, "write") \/ AtStep(c, "insert")) /\ ReadUndecided(c, e)
    /\ event[e].kind = "OVERTIME" => ~event'[e].deleted

\* An upsert that gives a decided event another status has read it, or its
\* justification, before the decision.
LEMMA UpsertHadRead ==
    ASSUME NEW row, NEW item, NEW seen, NEW js, RowOK(row, js), ItemOK(item, js),
           row.kind = item.kind, row.of = item.of, Decided(row.status), item.status # row.status,
           item.kind = "OVERTIME" => ~Decided(seen.status)
    PROVE  /\ ~Decided(item.status)
           /\ item.kind = "OVERTIME" => ~Decided(seen.status)
<1>1. CASE item.kind = "OVERTIME"
  BY <1>1 DEF ItemOK, Decided
<1>2. CASE item.kind = "JUSTIFICATION"
  BY <1>2 DEF ItemOK, RowOK, Follows
<1> QED BY <1>1, <1>2 DEF ItemOK, Item

LEMMA WriteRowKeeps ==
    ASSUME DayIInv, NEW c \in Callers, WriteRow(c), NEW e \in LiveRows, Decided(event[e].status)
    PROVE  Kept(e)
<1>1. PICK o : o = op[c]
  OBVIOUS
<1>2. OpOK(o, event, just) /\ o.todo # << >> /\ Head(o.todo) = "write"
  BY <1>1, CallAt DEF WriteRow
<1>3. IsCall(o) /\ UpsertOK(o, event, just) /\ o.todo = <<"write">>
  BY <1>2, StepOf
<1>4. PICK item : item = Head(o.items)
  OBVIOUS
<1>5. /\ ItemOK(item, just) /\ o.row \in Rows /\ o.row \in EventIds /\ o.seen \in Event /\ o.items # << >>
      /\ event[o.row].kind = item.kind /\ event[o.row].of = item.of
  BY <1>3, <1>4, ItemsLeft DEF UpsertOK, IsRow, Rows
<1>6. e \in Rows /\ ~event[e].deleted
  BY DEF LiveRows
<1>7. CASE event'[e] = event[e]
  BY <1>6, <1>7 DEF Kept
<1>8. CASE event'[e] # event[e]
  <2>1. ~KeyTaken(item, o.row)
    BY <1>1, <1>4, <1>8 DEF WriteRow
  <2>2. event' = [event EXCEPT ![o.row] = Written(event[o.row], item, o.seen)] /\ Proceed(c, NextItem(o))
    BY <1>1, <1>4, <2>1 DEF WriteRow
  <2>3. e = o.row
    BY <1>6, <1>8, <2>2 DEF DayIInv, Rows
  <2>4. PICK row, seen : row = event[e] /\ seen = o.seen
    OBVIOUS
  <2>5. PICK r : r = Written(row, item, seen)
    OBVIOUS
  <2>6. event'[e] = r
    BY <1>6, <2>2, <2>3, <2>4, <2>5 DEF DayIInv, Rows
  <2>7. RowOK(row, just) /\ seen \in Event /\ row.kind = item.kind /\ row.of = item.of /\ Decided(row.status)
    BY <1>5, <1>6, <2>3, <2>4, AMinute
  <2>8. r.deleted = FALSE /\ r.status = IF KeepsStatus(item, seen) THEN row.status ELSE item.status
    BY <1>5, <2>5, <2>7, RowWritten
  <2>9. ASSUME r.status # row.status
        PROVE  op'[c] # op[c] /\ AtStep(c, "write") /\ ReadUndecided(c, e)
    <3>1. ~KeepsStatus(item, seen) /\ item.status # row.status
      BY <2>8, <2>9
    <3>2. ~Decided(item.status) /\ (item.kind = "OVERTIME" => ~Decided(seen.status))
      BY <3>1, <1>5, <2>7, UpsertHadRead DEF KeepsStatus
    <3>3. ReadUndecided(c, e)
      BY <3>2, <1>1, <1>4, <1>5, <2>4, <2>7 DEF ReadUndecided
    <3>4. PICK n : n = Settled(NextItem(o))
      OBVIOUS
    <3>5. n # o
      BY <3>4, <1>3, NextItemOK
    <3>6. op'[c] = n
      BY <2>2, <3>4 DEF Proceed, Settled, DayIInv
    <3> QED BY <3>3, <3>5, <3>6, <1>1 DEF WriteRow
  <2> QED BY <2>4, <2>6, <2>8, <2>9 DEF Kept
<1> QED BY <1>7, <1>8

LEMMA InsertRowKeeps ==
    ASSUME DayIInv, NEW c \in Callers, InsertRow(c), NEW e \in LiveRows, Decided(event[e].status)
    PROVE  Kept(e)
<1>1. PICK o : o = op[c]
  OBVIOUS
<1>2. OpOK(o, event, just) /\ o.todo # << >> /\ Head(o.todo) = "insert"
  BY <1>1, CallAt DEF InsertRow
<1>3. IsCall(o) /\ UpsertOK(o, event, just) /\ o.todo = <<"insert">>
  BY <1>2, StepOf
<1>4. PICK item : item = Head(o.items)
  OBVIOUS
<1>5. ItemOK(item, just) /\ o.items # << >>
  BY <1>3, <1>4, ItemsLeft DEF UpsertOK
<1>6. e \in Rows /\ ~event[e].deleted
  BY DEF LiveRows
<1>7. CASE event'[e] = event[e]
  BY <1>6, <1>7 DEF Kept
<1>8. CASE event'[e] # event[e]
  <2>1. PICK row : row = [kind |-> item.kind, of |-> item.of, key |-> KeyOf(item), minutes |-> item.minutes,
                          status |-> item.status, protected |-> FALSE, deleted |-> FALSE]
    OBVIOUS
  <2>2. \/ UNCHANGED event
        \/ /\ Proceed(c, NextItem(o))
           /\ \E f \in EventIds :
                 /\ event' = [event EXCEPT ![f] = row]
                 /\ \/ f \notin Rows
                    \/ event[f].key = KeyOf(item) /\ ~(item.kind = "OVERTIME" /\ Decided(event[f].status))
    BY <1>1, <1>4, <2>1 DEF InsertRow, LiveRows, Rows
  <2>3. /\ Proceed(c, NextItem(o)) /\ event'[e] = row
        /\ event[e].key = KeyOf(item) /\ ~(item.kind = "OVERTIME" /\ Decided(event[e].status))
    BY <1>6, <1>8, <2>2 DEF DayIInv, Rows
  <2>4. item.kind # "OVERTIME"
    BY <2>3
  <2>5. RowOK(event[e], just) /\ event[e].kind = item.kind /\ event[e].of = item.of
    BY <1>6, <2>3, AMinute DEF RowOK, KeyOf
  <2>6. row.status = item.status /\ row.deleted = FALSE
    BY <2>1
  <2>7. ASSUME item.status # event[e].status
        PROVE  op'[c] # op[c] /\ AtStep(c, "insert") /\ ReadUndecided(c, e)
    <3>1. ~Decided(item.status)
      BY <2>4, <2>5, <2>7, <1>5, UpsertHadRead
    <3>2. ReadUndecided(c, e)
      BY <3>1, <1>1, <1>4, <1>5, <2>4, <2>5 DEF ReadUndecided
    <3>3. PICK n : n = Settled(NextItem(o))
      OBVIOUS
    <3>4. n # o
      BY <3>3, <1>3, NextItemOK
    <3>5. op'[c] = n
      BY <2>3, <3>3 DEF Proceed, Settled, DayIInv
    <3> QED BY <3>2, <3>4, <3>5, <1>1 DEF InsertRow
  <2> QED BY <2>3, <2>6, <2>7 DEF Kept
<1> QED BY <1>7, <1>8

LEMMA ReconcileKeeps ==
    ASSUME DayIInv, NEW c \in Callers, Reconcile(c), NEW e \in LiveRows, Decided(event[e].status)
    PROVE  Kept(e)
<1>1. e \notin Superfluous(op[c].row) /\ e \in EventIds /\ ~event[e].deleted
  BY DEF Superfluous, LiveRows, Rows
<1>2. event'[e] = event[e]
  BY <1>1 DEF Reconcile
<1> QED BY <1>1, <1>2 DEF Kept

LEMMA WriteDecisionKeeps ==
    ASSUME DayIInv, NEW c \in Callers, WriteDecision(c), NEW e \in LiveRows, Decided(event[e].status)
    PROVE  Kept(e)
<1>1. e \in EventIds /\ ~event[e].deleted /\ event[e].status # "PENDING"
  BY DEF LiveRows, Rows, Decided
<1>2. CASE op[c].row \in LiveRows /\ event[op[c].row].status = "PENDING"
  <2>1. e # op[c].row
    BY <1>1, <1>2
  <2>2. event' = [event EXCEPT ![op[c].row].status = op[c].decision,
                               ![op[c].row].protected = (op[c].decision = "APPROVED")]
    BY <1>2 DEF WriteDecision
  <2>3. event'[e] = event[e]
    BY <1>1, <2>1, <2>2 DEF DayIInv
  <2> QED BY <1>1, <2>3 DEF Kept
<1>3. CASE ~(op[c].row \in LiveRows /\ event[op[c].row].status = "PENDING")
  <2>1. event' = event
    BY <1>3 DEF WriteDecision
  <2> QED BY <1>1, <2>1 DEF Kept
<1> QED BY <1>2, <1>3

LEMMA MarkEventsKeeps ==
    ASSUME DayIInv, NEW c \in Callers, MarkEvents(c), NEW e \in LiveRows, Decided(event[e].status)
    PROVE  Kept(e)
<1>1. PICK o : o = op[c]
  OBVIOUS
<1>2. e \in EventIds /\ ~event[e].deleted /\ e \in Rows
  BY DEF LiveRows, Rows
<1>3. CASE e \notin EventsOf(o.of)
  BY <1>1, <1>2, <1>3, EventsMarked DEF Kept
<1>4. CASE e \in EventsOf(o.of)
  <2>1. event[e].kind = "JUSTIFICATION" /\ event[e].of = o.of /\ RowOK(event[e], just)
    BY <1>2, <1>4, AMinute DEF EventsOf
  <2>2. OpOK(o, event, just)
    BY <1>1 DEF DayIInv
  <2>3. PICK row : row = event[e]
    OBVIOUS
  <2>4. CASE AtStep(c, "markEvents") /\ event'[e] = [row EXCEPT !.status = o.decision, !.protected = FALSE]
    <3>1. o.todo # << >> /\ Head(o.todo) = "markEvents"
      BY <1>1, <2>4, CallAt
    <3>2. JustOK(o, just) /\ o.todo = <<"markEvents", "extra", "protected", "debited", "save">>
      BY <3>1, <2>2, StepOf
    <3>3. just[o.of].status = o.decision /\ o.decision \in Decision
      BY <3>2 DEF JustOK
    <3>4. PICK d : d = o.decision
      OBVIOUS
    <3>5. event'[e].status = d
      <4>0. row \in Event /\ d \in {"APPROVED", "REJECTED"}
        BY <2>1, <2>3, <3>3, <3>4 DEF RowOK, Decision
      <4>1. PICK r : r = [row EXCEPT !.status = d, !.protected = FALSE]
        OBVIOUS
      <4>2. r.status = d
        BY <4>0, <4>1 DEF Event
      <4> QED BY <4>1, <4>2, <2>4, <3>4
    <3>6. row.status = d
      BY <2>1, <2>3, <3>3, <3>4 DEF RowOK, Follows
    <3> QED BY <3>5, <3>6, <2>1, <2>3 DEF Kept
  <2>5. CASE AtStep(c, "editEvents") /\ event'[e] = [row EXCEPT !.minutes = o.minutes]
    <3>1. o.todo # << >> /\ Head(o.todo) = "editEvents"
      BY <1>1, <2>5, CallAt
    <3>2. EditOK(o, just)
      BY <3>1, <2>2, StepOf
    <3>3. PICK m \in Minutes : m = o.minutes
      BY <3>2 DEF EditOK
    <3>4. event'[e].status = row.status
      BY <2>1, <2>3, <2>5, <3>3, RowEdited
    <3> QED BY <3>4, <2>1, <2>3 DEF Kept
  <2>6. CASE AtStep(c, "deleteEvents") /\ event'[e] = [row EXCEPT !.deleted = TRUE]
    <3>1. event'[e].status = row.status
      BY <2>1, <2>3, <2>6, RowDeleted
    <3> QED BY <3>1, <2>1, <2>3 DEF Kept
  <2> QED BY <1>1, <1>4, <2>3, <2>4, <2>5, <2>6, EventsMarked
<1> QED BY <1>3, <1>4

\* A step that writes no event.
LEMMA NothingWritten ==
    ASSUME NEW e \in LiveRows, UNCHANGED event
    PROVE  Kept(e)
BY DEF Kept, LiveRows

LEMMA DecisionsStand ==
    ASSUME DayIInv, DayNext, NEW e \in LiveRows, Decided(event[e].status)
    PROVE  Kept(e)
<1>1. \/ UNCHANGED event
      \/ \E c \in Callers : \/ WriteRow(c) \/ InsertRow(c) \/ Reconcile(c) \/ WriteDecision(c)
                            \/ MarkEvents(c)
  <2>1. ASSUME NEW c \in Callers, OpStep(c)
        PROVE  \/ UNCHANGED event \/ WriteRow(c) \/ InsertRow(c) \/ Reconcile(c) \/ WriteDecision(c)
               \/ MarkEvents(c)
    BY <2>1 DEF OpStep, FindCurrent, TakeBack, DecideJust, EditJust, DeleteJust, ReadSum, SaveBalance
  <2>2. ASSUME NEW c \in Callers, UpsertFails(c) \/ OpDies(c) PROVE UNCHANGED event
    BY <2>2 DEF UpsertFails, OpDies
  <2>3. ASSUME NEW c \in Callers, NEW then \in {Refresh, << >>}, Synchronise(c, then) PROVE UNCHANGED event
    BY <2>3 DEF Synchronise
  <2>4. ASSUME NEW c \in Callers, NEW j \in Justifications, NEW m \in Minutes, NEW debit \in BOOLEAN,
               CreateJustification(c, j, m, debit) \/ EditJustification(c, j, m, debit)
        PROVE  UNCHANGED event
    BY <2>4 DEF CreateJustification, EditJustification
  <2>5. ASSUME NEW c \in Callers, NEW j \in Justifications, NEW d \in Decision,
               DecideJustification(c, j, d) \/ DeleteJustification(c, j)
        PROVE  UNCHANGED event
    BY <2>5 DEF DecideJustification, DeleteJustification
  <2>6. ASSUME NEW c \in Callers, NEW f \in EventIds, NEW d \in Decision, DecideDayEvent(c, f, d)
        PROVE  UNCHANGED event
    BY <2>6 DEF DecideDayEvent
  <2>7. ASSUME NEW x \in Worked, NEW m \in Minutes \cup {0}, MoveAppointment(x, m) PROVE UNCHANGED event
    BY <2>7 DEF MoveAppointment
  <2>8. ASSUME NEW c \in Callers, NEW j \in Justifications, DeleteJustification(c, j) PROVE UNCHANGED event
    BY <2>8 DEF DeleteJustification
  <2> QED BY <2>1, <2>2, <2>3, <2>4, <2>5, <2>6, <2>7, <2>8 DEF DayNext, Decision
<1> QED BY <1>1, WriteRowKeeps, InsertRowKeeps, ReconcileKeeps, WriteDecisionKeeps, MarkEventsKeeps,
           NothingWritten

\* A decision on overtime or on a justification stands, for any appointments,
\* justifications, callers and rows: no event that was approved or rejected gets
\* another status, but by a synchronisation that had read it, or its
\* justification, before the decision, and nothing deletes decided overtime.
THEOREM DecisionsStay == DaySpec => DecisionsAreKept
<1> DEFINE A == \A e \in LiveRows : Decided(event[e].status) =>
                  /\ event'[e].status # event[e].status => \E c \in Callers :
                        op'[c] # op[c] /\ (AtStep(c, "write") \/ AtStep(c, "insert")) /\ ReadUndecided(c, e)
                  /\ event[e].kind = "OVERTIME" => ~event'[e].deleted
<1>1. DayIInv /\ [DayNext]_dayVars => [A]_dayVars
  BY DecisionsStand DEF Kept
<1>2. DaySpec => [][A]_dayVars
  BY <1>1, DayStaysSound, PTL DEF DaySpec
<1> QED BY <1>2 DEF DecisionsAreKept

-----------------------------------------------------------------------------
(* The balance.  A call that is about to decide or to delete has changed   *)
(* nothing yet, and may still end without a new balance; from then on it   *)
(* owes one, and so does a synchronisation from its beginning.             *)

Owes(o) ==
    \/ o.then # << >>
    \/ o.todo \in Refreshing \cup {<<"reconcile", "extra", "protected", "debited", "save">>,
                                   <<"markEvents", "extra", "protected", "debited", "save">>,
                                   <<"deleteEvents", "extra", "protected", "debited", "save">>}

BalanceIInv == (drift = {} /\ \A c \in Callers : ~Owes(op[c])) => balance = Due

LEMMA WhoOwesRefreshes == ASSUME NEW o, Owes(o) PROVE o.then # << >> \/ "save" \in Range(o.todo)
<1>1. CASE o.then # << >>
  BY <1>1
<1>2. CASE o.then = << >>
  <2>1. \E i \in DOMAIN o.todo : o.todo[i] = "save"
    <3>1. CASE o.todo = <<"save">>
      BY <3>1
    <3>2. CASE o.todo = <<"debited", "save">>
      BY <3>2
    <3>3. CASE o.todo = <<"protected", "debited", "save">>
      BY <3>3
    <3>4. CASE o.todo = <<"extra", "protected", "debited", "save">>
      BY <3>4
    <3>5. CASE o.todo = <<"reconcile", "extra", "protected", "debited", "save">>
      BY <3>5
    <3>6. CASE o.todo = <<"markEvents", "extra", "protected", "debited", "save">>
      BY <3>6
    <3>7. CASE o.todo = <<"deleteEvents", "extra", "protected", "debited", "save">>
      BY <3>7
    <3> QED BY <3>1, <3>2, <3>3, <3>4, <3>5, <3>6, <3>7, <1>2 DEF Owes, Refreshing
  <2> QED BY <2>1 DEF Range
<1> QED BY <1>1, <1>2

LEMMA BalanceImplied == BalanceIInv => BalanceIsCurrent
BY WhoOwesRefreshes DEF BalanceIInv, BalanceIsCurrent

LEMMA SumsStay ==
    /\ UNCHANGED <<overtime, event, just>> => Due' = Due
    /\ UNCHANGED overtime /\ ProtectedMinutes' = ProtectedMinutes /\ DebitedMinutes' = DebitedMinutes
         => Due' = Due
    /\ UNCHANGED event => ProtectedMinutes' = ProtectedMinutes
    /\ UNCHANGED just => DebitedMinutes' = DebitedMinutes
<1>1. UNCHANGED event => ProtectedMinutes' = ProtectedMinutes
  BY DEF ProtectedMinutes, Protects, LiveRows, Rows
<1>2. UNCHANGED just => DebitedMinutes' = DebitedMinutes
  BY DEF DebitedMinutes, Debits, Stored
<1>3. UNCHANGED overtime /\ ProtectedMinutes' = ProtectedMinutes /\ DebitedMinutes' = DebitedMinutes
         => Due' = Due
  BY DEF Due, ExtraMinutes
<1> QED BY <1>1, <1>2, <1>3

\* No step of a call but the last makes the balance wrong unnoticed: it leaves
\* the sums, or a reason, or a call that owes a balance.
LEMMA BalanceStays ==
    ASSUME DayIInv, BalanceIInv, NEW c \in Callers, NEW n, op' = [op EXCEPT ![c] = n],
           UNCHANGED balance, drift' = {} => drift = {},
           drift' = {} /\ ~Owes(n) => Due' = Due /\ ~Owes(op[c])
    PROVE  BalanceIInv'
<1> SUFFICES ASSUME drift' = {}, \A d \in Callers : ~Owes(op'[d])
             PROVE  balance' = Due'
  BY DEF BalanceIInv
<1>1. op'[c] = n /\ \A d \in Callers \ {c} : op'[d] = op[d]
  BY DEF DayIInv
<1>2. ~Owes(n) /\ Due' = Due /\ ~Owes(op[c])
  BY <1>1
<1>3. \A d \in Callers : ~Owes(op[d])
  BY <1>1, <1>2
<1> QED BY <1>2, <1>3 DEF BalanceIInv

LEMMA BalanceAtStart ==
    ASSUME DayIInv, BalanceIInv, NEW c \in Callers, NEW o, StartOp(c, o), UNCHANGED <<balance, drift>>,
           Due' = Due
    PROVE  BalanceIInv'
<1>1. op' = [op EXCEPT ![c] = o] /\ op[c] = NoOp
  BY DEF StartOp
<1>2. ~Owes(NoOp)
  BY DEF Owes, NoOp, Refreshing
<1> QED BY <1>1, <1>2, BalanceStays

LEMMA ProtectedStay ==
    ASSUME \A e \in EventIds : /\ Protects(e)' <=> Protects(e)
                               /\ Protects(e) => event'[e].minutes = event[e].minutes
    PROVE  ProtectedMinutes' = ProtectedMinutes
<1>1. [e \in EventIds |-> IF Protects(e) THEN event[e].minutes ELSE 0]'
      = [e \in EventIds |-> IF Protects(e) THEN event[e].minutes ELSE 0]
  OBVIOUS
<1> QED BY <1>1 DEF ProtectedMinutes

LEMMA DebitedStay ==
    ASSUME \A j \in Justifications : /\ Debits(j)' <=> Debits(j)
                                     /\ Debits(j) => just'[j].minutes = just[j].minutes
    PROVE  DebitedMinutes' = DebitedMinutes
<1>1. [j \in Justifications |-> IF Debits(j) THEN just[j].minutes ELSE 0]'
      = [j \in Justifications |-> IF Debits(j) THEN just[j].minutes ELSE 0]
  OBVIOUS
<1> QED BY <1>1 DEF DebitedMinutes

\* An upsert owes a balance if its synchronisation does.
LEMMA UpsertOwes ==
    ASSUME NEW o, NEW table, NEW js, UpsertOK(o, table, js)
    PROVE  Owes(o) <=> o.then # << >>
<1>1. o.todo \notin Refreshing \cup {<<"reconcile", "extra", "protected", "debited", "save">>,
                                     <<"markEvents", "extra", "protected", "debited", "save">>,
                                     <<"deleteEvents", "extra", "protected", "debited", "save">>}
  BY DEF UpsertOK, Upserting, Refreshing
<1> QED BY <1>1 DEF Owes

LEMMA CallLeavesBalance ==
    ASSUME DayIInv, BalanceIInv, NEW c \in Callers, NEW o, o = op[c], NEW r, Proceed(c, r),
           UNCHANGED balance, drift' = {} => drift = {},
           drift' = {} /\ ~Owes(Settled(r)) => Due' = Due /\ ~Owes(o)
    PROVE  BalanceIInv'
<1>1. PICK n : n = Settled(r)
  OBVIOUS
<1>2. op' = [op EXCEPT ![c] = n]
  BY <1>1 DEF Proceed, Settled
<1> QED BY <1>1, <1>2, BalanceStays

LEMMA FindCurrentBalance ==
    ASSUME DayIInv, BalanceIInv, NEW c \in Callers, FindCurrent(c)
    PROVE  BalanceIInv'
<1>1. PICK o : o = op[c]
  OBVIOUS
<1>2. OpOK(o, event, just) /\ o.todo # << >> /\ Head(o.todo) = "find"
  BY <1>1, CallAt DEF FindCurrent
<1>3. IsCall(o) /\ UpsertOK(o, event, just)
  BY <1>2, StepOf
<1>4. UNCHANGED <<balance, drift>> /\ Due' = Due
  BY SumsStay DEF FindCurrent
<1>5. \E r : Proceed(c, r) /\ r.then = o.then /\ r.todo # << >>
  <2>1. /\ [o EXCEPT !.todo = <<"insert">>].then = o.then
        /\ [o EXCEPT !.todo = <<"insert">>].todo = <<"insert">>
    BY <1>3 DEF IsCall
  <2>2. ASSUME NEW e \in Current(Head(o.items)), NEW list
        PROVE  /\ [o EXCEPT !.row = e, !.seen = event[e], !.todo = list].then = o.then
               /\ [o EXCEPT !.row = e, !.seen = event[e], !.todo = list].todo = list
    BY <1>3 DEF IsCall
  <2>3. <<"insert">> # << >> /\ <<"write">> # << >> /\ <<"reconcile", "write">> # << >>
    OBVIOUS
  <2>4. \/ Proceed(c, [o EXCEPT !.todo = <<"insert">>])
        \/ \E e \in Current(Head(o.items)), list \in {<<"reconcile", "write">>, <<"write">>} :
              Proceed(c, [o EXCEPT !.row = e, !.seen = event[e], !.todo = list])
    BY <1>1 DEF FindCurrent
  <2> QED BY <2>1, <2>2, <2>3, <2>4
<1>6. PICK r : Proceed(c, r) /\ r.then = o.then /\ r.todo # << >>
  BY <1>5
<1>7. ~Owes(Settled(r)) => o.then = << >>
  BY <1>6 DEF Owes, Settled
<1> QED BY <1>1, <1>3, <1>4, <1>6, <1>7, UpsertOwes, CallLeavesBalance

LEMMA SyncBalance ==
    ASSUME DayIInv, BalanceIInv, NEW c \in Callers, NEW o, o = op[c], UpsertOK(o, event, just),
           NEW r, Proceed(c, r), o.then # << >> => Settled(r).then = o.then,
           DriftOfSync(c), UNCHANGED <<overtime, just, balance>>
    PROVE  BalanceIInv'
<1>1. drift' = {} => drift = {}
  BY DEF DriftOfSync
<1>2. ASSUME drift' = {}, ~Owes(Settled(r)) PROVE Due' = Due /\ ~Owes(o)
  <2>1. o.then = << >>
    BY <1>2 DEF Owes
  <2>2. ProtectedMinutes' = ProtectedMinutes
    BY <1>2, <2>1 DEF DriftOfSync
  <2> QED BY <2>1, <2>2, SumsStay, UpsertOwes
<1> QED BY <1>1, <1>2, CallLeavesBalance

LEMMA WriteRowBalance ==
    ASSUME DayIInv, BalanceIInv, NEW c \in Callers, WriteRow(c)
    PROVE  BalanceIInv'
<1>1. PICK o : o = op[c]
  OBVIOUS
<1>2. OpOK(o, event, just) /\ o.todo # << >> /\ Head(o.todo) = "write"
  BY <1>1, CallAt DEF WriteRow
<1>3. IsCall(o) /\ UpsertOK(o, event, just)
  BY <1>2, StepOf
<1>4. DriftOfSync(c) /\ UNCHANGED <<overtime, just, balance>>
  BY DEF WriteRow
<1>5. Proceed(c, Thrown(o)) \/ Proceed(c, NextItem(o))
  BY <1>1 DEF WriteRow
<1> QED BY <1>1, <1>3, <1>4, <1>5, ThrownOK, NextItemOK, SyncBalance

LEMMA InsertRowBalance ==
    ASSUME DayIInv, BalanceIInv, NEW c \in Callers, InsertRow(c)
    PROVE  BalanceIInv'
<1>1. PICK o : o = op[c]
  OBVIOUS
<1>2. OpOK(o, event, just) /\ o.todo # << >> /\ Head(o.todo) = "insert"
  BY <1>1, CallAt DEF InsertRow
<1>3. IsCall(o) /\ UpsertOK(o, event, just)
  BY <1>2, StepOf
<1>4. DriftOfSync(c) /\ UNCHANGED <<overtime, just, balance>>
  BY DEF InsertRow
<1>5. Proceed(c, Thrown(o)) \/ Proceed(c, NextItem(o))
  BY <1>1 DEF InsertRow
<1> QED BY <1>1, <1>3, <1>4, <1>5, ThrownOK, NextItemOK, SyncBalance

LEMMA UpsertFailsBalance ==
    ASSUME DayIInv, BalanceIInv, NEW c \in Callers, UpsertFails(c)
    PROVE  BalanceIInv'
<1>1. PICK o : o = op[c]
  OBVIOUS
<1>2. PICK step \in {"find", "reconcile", "write", "insert"} : AtStep(c, step)
  BY DEF UpsertFails
<1>3. OpOK(o, event, just) /\ o.todo # << >> /\ Head(o.todo) = step /\ o.items # << >>
  BY <1>1, <1>2, CallAt DEF UpsertFails
<1>4. UpsertOK(o, event, just)
  BY <1>2, <1>3, StepOf DEF DecideOK
<1>5. IsCall(o) /\ Proceed(c, Thrown(o)) /\ UNCHANGED <<overtime, event, just, balance, drift>>
  BY <1>1, <1>3 DEF UpsertFails, OpOK
<1>6. DriftOfSync(c)
  BY <1>5, SumsStay DEF DriftOfSync
<1> QED BY <1>1, <1>4, <1>5, <1>6, ThrownOK, SyncBalance

\* What reconcileOvertimeDayEventSync deletes was not approved: the sum of what
\* was is the same.
LEMMA ReconcileBalance ==
    ASSUME DayIInv, BalanceIInv, NEW c \in Callers, Reconcile(c)
    PROVE  BalanceIInv'
<1>1. PICK o : o = op[c]
  OBVIOUS
<1>2. OpOK(o, event, just) /\ o.todo # << >> /\ Head(o.todo) = "reconcile"
  BY <1>1, CallAt DEF Reconcile
<1>3. /\ IsCall(o)
      /\ \/ UpsertOK(o, event, just) /\ o.todo = <<"reconcile", "write">>
         \/ o.todo = <<"reconcile", "extra", "protected", "debited", "save">>
  BY <1>2, StepOf
<1>4. Proceed(c, NextStep(o)) /\ UNCHANGED <<overtime, just, balance, drift>>
  BY <1>1 DEF Reconcile
<1>5. Due' = Due
  <2>1. ASSUME NEW e \in EventIds
        PROVE  /\ Protects(e)' <=> Protects(e)
               /\ Protects(e) => event'[e].minutes = event[e].minutes
    <3>1. CASE e \in Superfluous(o.row)
      <4>1. ~Protects(e)
        BY <3>1 DEF Superfluous, Protects, Decided
      <4>2. PICK row : row = event[e]
        OBVIOUS
      <4>3. row \in Event
        BY <3>1, <4>2, AMinute DEF Superfluous, LiveRows
      <4>4. PICK r : r = [row EXCEPT !.deleted = TRUE]
        OBVIOUS
      <4>5. event'[e] = r /\ r.deleted
        BY <3>1, <4>2, <4>3, <4>4, <1>1 DEF Reconcile, Event
      <4> QED BY <4>1, <4>5 DEF Protects, LiveRows
    <3>2. CASE e \notin Superfluous(o.row)
      <4>1. event'[e] = event[e]
        BY <3>2, <1>1 DEF Reconcile
      <4> QED BY <4>1 DEF Protects, LiveRows, Rows
    <3> QED BY <3>1, <3>2
  <2>2. ProtectedMinutes' = ProtectedMinutes
    BY <2>1, ProtectedStay
  <2> QED BY <2>2, <1>4, SumsStay
<1>6. PICK n : n = NextStep(o)
  OBVIOUS
<1>7. n.todo = Tail(o.todo) /\ n.then = o.then
  BY <1>3, <1>6, NextStepIs
<1>8. CASE UpsertOK(o, event, just) /\ o.todo = <<"reconcile", "write">>
  <2>1. n.todo = <<"write">> /\ n.todo # << >>
    BY <1>7, <1>8
  <2>2. ~Owes(Settled(n)) => o.then = << >>
    BY <2>1, <1>7 DEF Owes, Settled
  <2> QED BY <2>2, <1>1, <1>4, <1>5, <1>6, <1>8, UpsertOwes, CallLeavesBalance
<1>9. CASE o.todo = <<"reconcile", "extra", "protected", "debited", "save">>
  <2>1. n.todo = <<"extra", "protected", "debited", "save">> /\ n.todo # << >>
    BY <1>7, <1>9
  <2>2. Owes(Settled(n))
    BY <2>1 DEF Owes, Settled, Refreshing
  <2> QED BY <2>2, <1>1, <1>4, <1>6, CallLeavesBalance
<1> QED BY <1>3, <1>8, <1>9

\* A statement of an edit or of the end of a failed creation.
LEMMA EditBalance ==
    ASSUME DayIInv, BalanceIInv, NEW c \in Callers, NEW o, o = op[c], NEW r, Proceed(c, r),
           DriftOfEdit, UNCHANGED <<overtime, event, balance>>, o.then = << >>,
           o.todo \in {<<"undo">>, <<"editJust", "editEvents">>}
    PROVE  BalanceIInv'
<1>1. drift' = {} => drift = {}
  BY DEF DriftOfEdit
<1>2. drift' = {} => Due' = Due
  BY SumsStay DEF DriftOfEdit
<1>3. ~Owes(o)
  <2>1. o.todo \notin Refreshing \cup {<<"reconcile", "extra", "protected", "debited", "save">>,
                                       <<"markEvents", "extra", "protected", "debited", "save">>,
                                       <<"deleteEvents", "extra", "protected", "debited", "save">>}
    BY DEF Refreshing
  <2> QED BY <2>1 DEF Owes
<1> QED BY <1>1, <1>2, <1>3, CallLeavesBalance

LEMMA TakeBackBalance ==
    ASSUME DayIInv, BalanceIInv, NEW c \in Callers, TakeBack(c)
    PROVE  BalanceIInv'
<1>1. PICK o : o = op[c]
  OBVIOUS
<1>2. OpOK(o, event, just) /\ o.todo # << >> /\ Head(o.todo) = "undo"
  BY <1>1, CallAt DEF TakeBack
<1>3. o.todo = <<"undo">> /\ o.then = << >>
  BY <1>2, StepOf DEF UndoOK
<1>4. Proceed(c, NoOp) /\ DriftOfEdit /\ UNCHANGED <<overtime, event, balance>>
  BY DEF TakeBack
<1> QED BY <1>1, <1>3, <1>4, EditBalance

LEMMA EditJustBalance ==
    ASSUME DayIInv, BalanceIInv, NEW c \in Callers, EditJust(c)
    PROVE  BalanceIInv'
<1>1. PICK o : o = op[c]
  OBVIOUS
<1>2. OpOK(o, event, just) /\ o.todo # << >> /\ Head(o.todo) = "editJust"
  BY <1>1, CallAt DEF EditJust
<1>3. o.todo = <<"editJust", "editEvents">> /\ o.then = << >>
  BY <1>2, StepOf
<1>4. Proceed(c, NextStep(o)) /\ DriftOfEdit /\ UNCHANGED <<overtime, event, balance>>
  BY <1>1 DEF EditJust
<1> QED BY <1>1, <1>3, <1>4, EditBalance

\* A call that writes a decision or deletes a justification owes a balance, and
\* one that finds it decided or deleted ends with nothing changed.
LEMMA DecisionBalance ==
    ASSUME DayIInv, BalanceIInv, NEW c \in Callers, NEW o, o = op[c], IsCall(o), o.then = << >>,
           o.todo \in {<<"decide", "reconcile", "extra", "protected", "debited", "save">>,
                       <<"decideJust", "markEvents", "extra", "protected", "debited", "save">>,
                       <<"deleteJust", "deleteEvents", "extra", "protected", "debited", "save">>},
           Proceed(c, NextStep(o)) \/ (Proceed(c, NoOp) /\ UNCHANGED <<overtime, event, just>>),
           UNCHANGED <<balance, drift>>
    PROVE  BalanceIInv'
<1>1. CASE Proceed(c, NextStep(o))
  <2>1. PICK n : n = NextStep(o)
    OBVIOUS
  <2>2. n.todo = Tail(o.todo)
    BY <2>1, NextStepIs
  <2>3. n.todo \in {<<"reconcile", "extra", "protected", "debited", "save">>,
                    <<"markEvents", "extra", "protected", "debited", "save">>,
                    <<"deleteEvents", "extra", "protected", "debited", "save">>} /\ n.todo # << >>
    <3>1. CASE o.todo = <<"decide", "reconcile", "extra", "protected", "debited", "save">>
      BY <3>1, <2>2
    <3>2. CASE o.todo = <<"decideJust", "markEvents", "extra", "protected", "debited", "save">>
      BY <3>2, <2>2
    <3>3. CASE o.todo = <<"deleteJust", "deleteEvents", "extra", "protected", "debited", "save">>
      BY <3>3, <2>2
    <3> QED BY <3>1, <3>2, <3>3
  <2>4. Owes(Settled(n))
    BY <2>3 DEF Owes, Settled
  <2> QED BY <2>1, <2>4, <1>1, CallLeavesBalance
<1>2. CASE Proceed(c, NoOp) /\ UNCHANGED <<overtime, event, just>>
  <2>1. ~Owes(o)
    <3>1. o.todo \notin Refreshing \cup {<<"reconcile", "extra", "protected", "debited", "save">>,
                                         <<"markEvents", "extra", "protected", "debited", "save">>,
                                         <<"deleteEvents", "extra", "protected", "debited", "save">>}
      BY DEF Refreshing
    <3> QED BY <3>1 DEF Owes
  <2>2. Due' = Due
    BY <1>2, SumsStay
  <2> QED BY <2>1, <2>2, <1>2, CallLeavesBalance
<1> QED BY <1>1, <1>2

LEMMA WriteDecisionBalance ==
    ASSUME DayIInv, BalanceIInv, NEW c \in Callers, WriteDecision(c)
    PROVE  BalanceIInv'
<1>1. PICK o : o = op[c]
  OBVIOUS
<1>2. OpOK(o, event, just) /\ o.todo # << >> /\ Head(o.todo) = "decide"
  BY <1>1, CallAt DEF WriteDecision
<1>3. IsCall(o) /\ o.then = << >> /\ o.todo = <<"decide", "reconcile", "extra", "protected", "debited", "save">>
  BY <1>2, StepOf
<1>4. Proceed(c, NextStep(o)) \/ (Proceed(c, NoOp) /\ UNCHANGED <<overtime, event, just>>)
  BY <1>1 DEF WriteDecision
<1>5. UNCHANGED <<balance, drift>>
  BY DEF WriteDecision
<1> QED BY <1>1, <1>3, <1>4, <1>5, DecisionBalance

LEMMA DecideJustBalance ==
    ASSUME DayIInv, BalanceIInv, NEW c \in Callers, DecideJust(c)
    PROVE  BalanceIInv'
<1>1. PICK o : o = op[c]
  OBVIOUS
<1>2. OpOK(o, event, just) /\ o.todo # << >> /\ Head(o.todo) = "decideJust"
  BY <1>1, CallAt DEF DecideJust
<1>3. IsCall(o) /\ o.then = << >> /\ o.todo = <<"decideJust", "markEvents", "extra", "protected", "debited", "save">>
  BY <1>2, StepOf
<1>4. Proceed(c, NextStep(o)) \/ (Proceed(c, NoOp) /\ UNCHANGED <<overtime, event, just>>)
  BY <1>1 DEF DecideJust
<1>5. UNCHANGED <<balance, drift>>
  BY DEF DecideJust
<1> QED BY <1>1, <1>3, <1>4, <1>5, DecisionBalance

LEMMA DeleteJustBalance ==
    ASSUME DayIInv, BalanceIInv, NEW c \in Callers, DeleteJust(c)
    PROVE  BalanceIInv'
<1>1. PICK o : o = op[c]
  OBVIOUS
<1>2. OpOK(o, event, just) /\ o.todo # << >> /\ Head(o.todo) = "deleteJust"
  BY <1>1, CallAt DEF DeleteJust
<1>3. IsCall(o) /\ o.then = << >> /\ o.todo = <<"deleteJust", "deleteEvents", "extra", "protected", "debited", "save">>
  BY <1>2, StepOf
<1>4. Proceed(c, NextStep(o)) /\ UNCHANGED <<balance, drift>>
  BY <1>1 DEF DeleteJust
<1> QED BY <1>1, <1>3, <1>4, DecisionBalance

LEMMA MarkEventsBalance ==
    ASSUME DayIInv, BalanceIInv, NEW c \in Callers, MarkEvents(c)
    PROVE  BalanceIInv'
<1>1. PICK o : o = op[c]
  OBVIOUS
<1>2. /\ Proceed(c, NextStep(o)) /\ UNCHANGED <<overtime, just, balance, drift>>
      /\ \A e \in EventIds \ EventsOf(o.of) : event'[e] = event[e]
  BY <1>1, EventsMarked DEF MarkEvents
<1>3. OpOK(o, event, just) /\ IsCall(o)
  BY <1>1 DEF DayIInv, OpOK
<1>4. PICK n : n = NextStep(o)
  OBVIOUS
<1>5. n.todo = Tail(o.todo)
  BY <1>3, <1>4, NextStepIs
<1>6. CASE AtStep(c, "markEvents") \/ AtStep(c, "deleteEvents")
  <2>1. o.todo # << >> /\ (Head(o.todo) = "markEvents" \/ Head(o.todo) = "deleteEvents")
    BY <1>1, <1>6, CallAt
  <2>2. \/ o.todo = <<"markEvents", "extra", "protected", "debited", "save">>
        \/ o.todo = <<"deleteEvents", "extra", "protected", "debited", "save">>
    BY <2>1, <1>3, StepOf
  <2>3. n.todo = <<"extra", "protected", "debited", "save">> /\ n.todo # << >>
    <3>1. CASE o.todo = <<"markEvents", "extra", "protected", "debited", "save">>
      BY <3>1, <1>5
    <3>2. CASE o.todo = <<"deleteEvents", "extra", "protected", "debited", "save">>
      BY <3>2, <1>5
    <3> QED BY <3>1, <3>2, <2>2
  <2>4. Owes(Settled(n))
    BY <2>3 DEF Owes, Settled, Refreshing
  <2> QED BY <2>4, <1>1, <1>2, <1>4, CallLeavesBalance
<1>7. CASE /\ AtStep(c, "editEvents")
           /\ \A e \in EventsOf(o.of) : event'[e] = [event[e] EXCEPT !.minutes = o.minutes]
  <2>1. o.todo # << >> /\ Head(o.todo) = "editEvents"
    BY <1>1, <1>7, CallAt
  <2>2. EditOK(o, just) /\ o.then = << >> /\ o.todo = <<"editEvents">>
    BY <2>1, <1>3, StepOf
  <2>3. ~Owes(o)
    <3>1. o.todo \notin Refreshing \cup {<<"reconcile", "extra", "protected", "debited", "save">>,
                                         <<"markEvents", "extra", "protected", "debited", "save">>,
                                         <<"deleteEvents", "extra", "protected", "debited", "save">>}
      BY <2>2 DEF Refreshing
    <3> QED BY <3>1, <2>2 DEF Owes
  <2>4. ASSUME NEW e \in EventIds
        PROVE  /\ Protects(e)' <=> Protects(e)
               /\ Protects(e) => event'[e].minutes = event[e].minutes
    <3>1. CASE e \in EventsOf(o.of)
      <4>1. PICK row : row = event[e]
        OBVIOUS
      <4>2. PICK r : r = [row EXCEPT !.minutes = o.minutes]
        OBVIOUS
      <4>3. RowOK(row, just) /\ row.kind = "JUSTIFICATION" /\ event'[e] = r
        BY <3>1, <4>1, <4>2, <1>7, AMinute DEF EventsOf, LiveRows
      <4>4. PICK m \in Minutes : m = o.minutes
        BY <2>2 DEF EditOK
      <4>5. r.kind = "JUSTIFICATION"
        BY <4>2, <4>3, <4>4, RowEdited
      <4> QED BY <4>1, <4>3, <4>5 DEF Protects
    <3>2. CASE e \notin EventsOf(o.of)
      <4>1. event'[e] = event[e]
        BY <3>2, <1>2
      <4> QED BY <4>1 DEF Protects, LiveRows, Rows
    <3> QED BY <3>1, <3>2
  <2>5. ProtectedMinutes' = ProtectedMinutes
    BY <2>4, ProtectedStay
  <2>6. Due' = Due
    BY <2>5, <1>2, SumsStay
  <2> QED BY <2>3, <2>6, <1>1, <1>2, CallLeavesBalance
<1> QED BY <1>1, <1>6, <1>7, EventsMarked

LEMMA ReadSumBalance ==
    ASSUME DayIInv, BalanceIInv, NEW c \in Callers, ReadSum(c)
    PROVE  BalanceIInv'
<1>1. PICK o : o = op[c]
  OBVIOUS
<1>2. OpOK(o, event, just) /\ o.todo # << >> /\ Head(o.todo) \in {"extra", "protected", "debited"}
  BY <1>1, CallAt DEF ReadSum
<1>3. o.todo \in {<<"extra", "protected", "debited", "save">>, <<"protected", "debited", "save">>,
                  <<"debited", "save">>} /\ IsCall(o)
  BY <1>2, StepOf
<1>4. Tail(o.todo) \in Refreshing /\ Tail(o.todo) # << >>
  <2>1. CASE o.todo = <<"extra", "protected", "debited", "save">>
    BY <2>1 DEF Refreshing
  <2>2. CASE o.todo = <<"protected", "debited", "save">>
    BY <2>2 DEF Refreshing
  <2>3. CASE o.todo = <<"debited", "save">>
    BY <2>3 DEF Refreshing
  <2> QED BY <2>1, <2>2, <2>3, <1>3
<1>5. \E r : Proceed(c, r) /\ r.todo = Tail(o.todo)
  <2>1. PICK n : n = NextStep(o)
    OBVIOUS
  <2>2. IsCall(n) /\ n.todo = Tail(o.todo)
    BY <2>1, <1>3, NextStepIs
  <2>3. ASSUME NEW x
        PROVE  /\ [n EXCEPT !.extra = x].todo = n.todo /\ [n EXCEPT !.protected = x].todo = n.todo
               /\ [n EXCEPT !.debited = x].todo = n.todo
    BY <2>2 DEF IsCall
  <2>4. \/ Proceed(c, [n EXCEPT !.extra = ExtraMinutes])
        \/ Proceed(c, [n EXCEPT !.protected = ProtectedMinutes])
        \/ Proceed(c, [n EXCEPT !.debited = DebitedMinutes])
    BY <1>1, <2>1 DEF ReadSum
  <2> QED BY <2>2, <2>3, <2>4
<1>6. PICK r : Proceed(c, r) /\ r.todo = Tail(o.todo)
  BY <1>5
<1>7. Owes(Settled(r))
  BY <1>4, <1>6 DEF Owes, Settled
<1>8. UNCHANGED <<balance, drift>>
  BY DEF ReadSum
<1> QED BY <1>1, <1>6, <1>7, <1>8, CallLeavesBalance

LEMMA SaveBalanceBalance ==
    ASSUME NEW c \in Callers, SaveBalance(c)
    PROVE  BalanceIInv'
<1>1. UNCHANGED <<overtime, event, just>> /\ (drift' = {} => balance' = Due)
  BY DEF SaveBalance
<1> QED BY <1>1, SumsStay DEF BalanceIInv

\* A call that dies owing a balance leaves a reason.
LEMMA OpDiesBalance ==
    ASSUME DayIInv, BalanceIInv, NEW c \in Callers, OpDies(c)
    PROVE  BalanceIInv'
<1>1. PICK o, n : o = op[c] /\ n = NoOp
  OBVIOUS
<1>2. op' = [op EXCEPT ![c] = n] /\ UNCHANGED balance
  BY <1>1 DEF OpDies
<1>3. drift' = {} => drift = {} /\ o.then = << >> /\ "save" \notin Range(o.todo)
  BY <1>1 DEF OpDies
<1>4. drift' = {} => ~Owes(o)
  BY <1>3, WhoOwesRefreshes
<1>5. Due' = Due
  BY SumsStay DEF OpDies
<1> QED BY <1>1, <1>2, <1>3, <1>4, <1>5, BalanceStays

\* A justification begins undecided, and debits nothing.
LEMMA CreateJustificationBalance ==
    ASSUME DayIInv, BalanceIInv, NEW c \in Callers, NEW j \in Justifications, NEW m \in Minutes,
           NEW debit \in BOOLEAN, CreateJustification(c, j, m, debit)
    PROVE  BalanceIInv'
<1>1. PICK row : row = [minutes |-> m, debit |-> debit, deleted |-> FALSE, status |-> "PENDING"]
  OBVIOUS
<1>2. just' = [just EXCEPT ![j] = row] /\ ~Stored(j) /\ row.status = "PENDING"
  BY <1>1 DEF CreateJustification
<1>3. ASSUME NEW k \in Justifications
      PROVE  /\ Debits(k)' <=> Debits(k)
             /\ Debits(k) => just'[k].minutes = just[k].minutes
  <2>1. CASE k = j
    <3>1. just'[k] = row /\ ~Debits(k)
      BY <2>1, <1>2 DEF DayIInv, Debits
    <3> QED BY <3>1, <1>2 DEF Debits
  <2>2. CASE k # j
    <3>1. just'[k] = just[k]
      BY <2>2, <1>2 DEF DayIInv
    <3> QED BY <3>1 DEF Debits, Stored
  <2> QED BY <2>1, <2>2
<1>4. DebitedMinutes' = DebitedMinutes
  BY <1>3, DebitedStay
<1>5. Due' = Due
  BY <1>4, SumsStay DEF CreateJustification
<1>6. UNCHANGED <<balance, drift>> /\ \E o : StartOp(c, o)
  BY DEF CreateJustification
<1> QED BY <1>5, <1>6, BalanceAtStart

LEMMA OtherStartsBalance ==
    ASSUME DayIInv, BalanceIInv, NEW c \in Callers, NEW o, StartOp(c, o),
           UNCHANGED <<overtime, event, just, balance, drift>>
    PROVE  BalanceIInv'
BY SumsStay, BalanceAtStart

LEMMA BalanceStart == DayInit => BalanceIInv
BY DEF DayInit, BalanceIInv

LEMMA BalanceStep ==
    ASSUME DayIInv, BalanceIInv, DayNext
    PROVE  BalanceIInv'
<1>1. ASSUME NEW x \in Worked, NEW m \in Minutes \cup {0}, MoveAppointment(x, m) PROVE BalanceIInv'
  BY <1>1 DEF MoveAppointment, BalanceIInv
<1>2. ASSUME NEW c \in Callers, OpStep(c) PROVE BalanceIInv'
  BY <1>2, FindCurrentBalance, ReconcileBalance, WriteRowBalance, InsertRowBalance, TakeBackBalance,
     WriteDecisionBalance, DecideJustBalance, MarkEventsBalance, EditJustBalance, DeleteJustBalance,
     ReadSumBalance, SaveBalanceBalance DEF OpStep
<1>3. ASSUME NEW c \in Callers, UpsertFails(c) \/ OpDies(c) PROVE BalanceIInv'
  BY <1>3, UpsertFailsBalance, OpDiesBalance
<1>4. ASSUME NEW c \in Callers, NEW then \in {Refresh, << >>}, Synchronise(c, then) PROVE BalanceIInv'
  BY <1>4, OtherStartsBalance DEF Synchronise
<1>5. ASSUME NEW c \in Callers, NEW d \in Decision, NEW e \in EventIds, DecideDayEvent(c, e, d)
      PROVE  BalanceIInv'
  BY <1>5, OtherStartsBalance DEF DecideDayEvent
<1>6. ASSUME NEW c \in Callers, NEW d \in Decision, NEW j \in Justifications, DecideJustification(c, j, d)
      PROVE  BalanceIInv'
  BY <1>6, OtherStartsBalance DEF DecideJustification
<1>7. ASSUME NEW c \in Callers, NEW j \in Justifications, NEW m \in Minutes, NEW debit \in BOOLEAN,
             CreateJustification(c, j, m, debit)
      PROVE  BalanceIInv'
  BY <1>7, CreateJustificationBalance
<1>8. ASSUME NEW c \in Callers, NEW j \in Justifications, NEW m \in Minutes, NEW debit \in BOOLEAN,
             EditJustification(c, j, m, debit)
      PROVE  BalanceIInv'
  BY <1>8, OtherStartsBalance DEF EditJustification
<1>9. ASSUME NEW c \in Callers, NEW j \in Justifications, DeleteJustification(c, j) PROVE BalanceIInv'
  BY <1>9, OtherStartsBalance DEF DeleteJustification
<1> QED BY <1>1, <1>2, <1>3, <1>4, <1>5, <1>6, <1>7, <1>8, <1>9 DEF DayNext, Decision

LEMMA BalanceStutter == ASSUME BalanceIInv, UNCHANGED dayVars PROVE BalanceIInv'
BY SumsStay DEF BalanceIInv, dayVars

\* With no recalculation in flight and nothing since the last one that could have
\* changed a sum unnoticed, rendimento_overtime_balances holds what its formula
\* gives (refreshBalance), for any appointments, justifications, callers and rows.
THEOREM BalanceStaysCurrent == DaySpec => []BalanceIsCurrent
<1>1. DayIInv /\ BalanceIInv /\ [DayNext]_dayVars => BalanceIInv'
  BY BalanceStep, BalanceStutter
<1>2. DaySpec => []BalanceIInv
  BY BalanceStart, <1>1, DayStaysSound, PTL DEF DaySpec
<1> QED BY <1>2, BalanceImplied, PTL

-----------------------------------------------------------------------------
(* ProjectProgress.  The statements a request has left are one of the       *)
(* code's lists, and it owes the activity, the link or the phase it has     *)
(* changed until it writes them; the id of a link tells the one a request   *)
(* found from one that was made since.                                      *)


\* The statements a request may have left.  In those of Dropped a deletion has
\* done with the link it found.
Dropped == {<<"readActivity", "writeActivity", "readPhase", "writePhase", "deleteAppointment">>,
            <<"writeActivity", "readPhase", "writePhase", "deleteAppointment">>,
            <<"readPhase", "writePhase", "deleteAppointment">>,
            <<"writePhase", "deleteAppointment">>,
            <<"deleteAppointment">>}
Linked == {<<"link", "readActivity", "writeActivity", "readPhase", "writePhase", "readPhase", "writePhase">>,
           <<"readActivity", "writeActivity", "readPhase", "writePhase", "readPhase", "writePhase">>,
           <<"writeActivity", "readPhase", "writePhase", "readPhase", "writePhase">>,
           <<"link", "readActivity", "writeActivity", "readPhase", "writePhase">>,
           <<"refresh", "readActivity", "writeActivity", "readPhase", "writePhase">>,
           <<"unlink", "readActivity", "writeActivity", "readPhase", "writePhase", "readPhase", "writePhase">>}
Looking == {<<"findLink", "refresh", "readActivity", "writeActivity", "readPhase", "writePhase">>,
            <<"findLink", "dropLink", "readActivity", "writeActivity", "readPhase", "writePhase", "deleteAppointment">>,
            <<"dropLink", "readActivity", "writeActivity", "readPhase", "writePhase", "deleteAppointment">>}
Short == {<<"readPhase", "writePhase", "readPhase", "writePhase">>,
          <<"writePhase", "readPhase", "writePhase">>,
          <<"readPhase", "writePhase">>,
          <<"writePhase">>,
          <<"readActivity", "writeActivity", "readPhase", "writePhase">>,
          <<"writeActivity", "readPhase", "writePhase">>,
          <<"predecessors", "update", "readPhase", "writePhase">>,
          <<"update", "readPhase", "writePhase">>,
          <<"markDeleted", "readPhase", "writePhase">>}
Lists == {<< >>} \cup Dropped \cup Linked \cup Looking \cup Short

StageOf(t) == IF t = << >> THEN "none" ELSE Head(t)
Skip(t) == SubSeq(t, 4, Len(t))
ToRefresh == <<"findLink", "refresh", "readActivity", "writeActivity", "readPhase", "writePhase">>

\* What follows a statement.
NextOK(t) ==
    LET s == Head(t)
        left == Tail(t)
        next == StageOf(left)
    IN
    /\ left \in Lists
    /\ s \in {"link", "unlink", "refresh"} => next = "readActivity" /\ left \notin Dropped
    /\ s = "dropLink" => next = "readActivity"
    /\ s = "findLink" => next \in {"refresh", "dropLink"} /\ (next = "refresh" <=> t = ToRefresh)
    /\ s = "readActivity" =>
          /\ next = "writeActivity" /\ (left \in Dropped => t \in Dropped)
          /\ Skip(left) \in Lists /\ StageOf(Skip(left)) \in {"none", "readPhase", "deleteAppointment"}
          /\ Skip(left) \in Dropped => t \in Dropped
    /\ s = "writeActivity" => next = "readPhase" /\ (left \in Dropped => t \in Dropped)
    /\ s = "readPhase" => next = "writePhase" /\ (left \in Dropped => t \in Dropped)
    /\ s = "writePhase" => /\ next \in {"none", "readPhase", "deleteAppointment"}
                           /\ left \in Dropped => t \in Dropped
    /\ s = "predecessors" => next = "update" /\ left \notin Dropped
    /\ s \in {"update", "markDeleted"} => next = "readPhase" /\ left \notin Dropped
    /\ s = "deleteAppointment" => left = << >>

LEMMA SkipsToLast ==
    ASSUME NEW s, s = <<"writeActivity", "readPhase", "writePhase", "deleteAppointment">>
    PROVE  Skip(s) = <<"deleteAppointment">>
<1>1. Len(s) = 4 /\ s[4] = "deleteAppointment"
  OBVIOUS
<1>2. \A i \in 4..4 : s[i] \in Steps
  BY <1>1 DEF Steps
<1> DEFINE q == SubSeq(s, 4, 4)
           e == <<"deleteAppointment">>
<1>3. q \in Seq(Steps) /\ Len(q) = 1 /\ \A i \in 1..1 : q[i] = s[4 + i - 1]
  BY <1>2, SubSeqProperties
<1>4. e \in Seq(Steps) /\ Len(e) = 1 /\ e[1] = "deleteAppointment"
  BY DEF Steps
<1>5. q[1] = e[1]
  BY <1>1, <1>3, <1>4
<1> HIDE DEF q, e
<1>6. q = e
  BY <1>3, <1>4, <1>5, SeqEqual
<1> QED BY <1>1, <1>6 DEF Skip, q, e

LEMMA SkipsToSync ==
    ASSUME NEW s, s = <<"writeActivity", "readPhase", "writePhase", "readPhase", "writePhase">>
    PROVE  Skip(s) = <<"readPhase", "writePhase">>
<1>1. Len(s) = 5 /\ s[4] = "readPhase" /\ s[5] = "writePhase"
  OBVIOUS
<1>2. \A i \in 4..5 : s[i] \in Steps
  BY <1>1 DEF Steps
<1> DEFINE q == SubSeq(s, 4, 5)
           e == <<"readPhase", "writePhase">>
<1>3. q \in Seq(Steps) /\ Len(q) = 2 /\ \A i \in 1..2 : q[i] = s[4 + i - 1]
  BY <1>2, SubSeqProperties
<1>4. e \in Seq(Steps) /\ Len(e) = 2 /\ e[1] = "readPhase" /\ e[2] = "writePhase"
  BY DEF Steps
<1>5. q[1] = e[1] /\ q[2] = e[2]
  BY <1>1, <1>3, <1>4
<1> HIDE DEF q, e
<1>6. q = e
  BY <1>3, <1>4, <1>5, SeqEqual
<1> QED BY <1>1, <1>6 DEF Skip, q, e

LEMMA WhatFollows ==
    ASSUME NEW t \in Lists, t # << >>
    PROVE  NextOK(t)
<1>1. CASE t = <<"link", "readActivity", "writeActivity", "readPhase", "writePhase", "readPhase", "writePhase">>
  <2>1. Tail(t) = <<"readActivity", "writeActivity", "readPhase", "writePhase", "readPhase", "writePhase">> /\ Head(t) = "link"
    BY <1>1
  <2> QED BY <1>1, <2>1 DEF NextOK, StageOf, Lists, Dropped, Linked, Looking, Short, ToRefresh
<1>2. CASE t = <<"readActivity", "writeActivity", "readPhase", "writePhase", "readPhase", "writePhase">>
  <2>1. Tail(t) = <<"writeActivity", "readPhase", "writePhase", "readPhase", "writePhase">> /\ Head(t) = "readActivity"
    BY <1>2
  <2>2. Skip(Tail(t)) = <<"readPhase", "writePhase">>
    BY <2>1, SkipsToSync
  <2>3. /\ Skip(Tail(t)) \in Lists /\ StageOf(Skip(Tail(t))) \in {"none", "readPhase", "deleteAppointment"}
        /\ Skip(Tail(t)) \in Dropped => t \in Dropped
    <3>1. PICK s : s = Skip(Tail(t))
      OBVIOUS
    <3>2. s = <<"readPhase", "writePhase">>
      BY <2>2, <3>1
    <3>3. s \in Short /\ s # << >> /\ Head(s) = "readPhase"
      BY <3>2 DEF Short
    <3>4. s \notin Dropped
      BY <3>2 DEF Dropped
    <3> QED BY <3>1, <3>3, <3>4 DEF StageOf, Lists
  <2> QED BY <1>2, <2>1, <2>3 DEF NextOK, StageOf, Lists, Dropped, Linked, Looking, Short, ToRefresh
<1>3. CASE t = <<"writeActivity", "readPhase", "writePhase", "readPhase", "writePhase">>
  <2>1. Tail(t) = <<"readPhase", "writePhase", "readPhase", "writePhase">> /\ Head(t) = "writeActivity"
    BY <1>3
  <2> QED BY <1>3, <2>1 DEF NextOK, StageOf, Lists, Dropped, Linked, Looking, Short, ToRefresh
<1>4. CASE t = <<"readPhase", "writePhase", "readPhase", "writePhase">>
  <2>1. Tail(t) = <<"writePhase", "readPhase", "writePhase">> /\ Head(t) = "readPhase"
    BY <1>4
  <2> QED BY <1>4, <2>1 DEF NextOK, StageOf, Lists, Dropped, Linked, Looking, Short, ToRefresh
<1>5. CASE t = <<"writePhase", "readPhase", "writePhase">>
  <2>1. Tail(t) = <<"readPhase", "writePhase">> /\ Head(t) = "writePhase"
    BY <1>5
  <2> QED BY <1>5, <2>1 DEF NextOK, StageOf, Lists, Dropped, Linked, Looking, Short, ToRefresh
<1>6. CASE t = <<"readPhase", "writePhase">>
  <2>1. Tail(t) = <<"writePhase">> /\ Head(t) = "readPhase"
    BY <1>6
  <2> QED BY <1>6, <2>1 DEF NextOK, StageOf, Lists, Dropped, Linked, Looking, Short, ToRefresh
<1>7. CASE t = <<"writePhase">>
  <2>1. Tail(t) = << >> /\ Head(t) = "writePhase"
    BY <1>7
  <2> QED BY <1>7, <2>1 DEF NextOK, StageOf, Lists, Dropped, Linked, Looking, Short, ToRefresh
<1>8. CASE t = <<"link", "readActivity", "writeActivity", "readPhase", "writePhase">>
  <2>1. Tail(t) = <<"readActivity", "writeActivity", "readPhase", "writePhase">> /\ Head(t) = "link"
    BY <1>8
  <2> QED BY <1>8, <2>1 DEF NextOK, StageOf, Lists, Dropped, Linked, Looking, Short, ToRefresh
<1>9. CASE t = <<"readActivity", "writeActivity", "readPhase", "writePhase">>
  <2>1. Tail(t) = <<"writeActivity", "readPhase", "writePhase">> /\ Head(t) = "readActivity"
    BY <1>9
  <2>2. Skip(Tail(t)) = << >>
    BY <2>1 DEF Skip
  <2>3. /\ Skip(Tail(t)) \in Lists /\ StageOf(Skip(Tail(t))) \in {"none", "readPhase", "deleteAppointment"}
        /\ Skip(Tail(t)) \in Dropped => t \in Dropped
    BY <1>9, <2>2 DEF StageOf, Lists, Dropped, Short
  <2> QED BY <1>9, <2>1, <2>3 DEF NextOK, StageOf, Lists, Dropped, Linked, Looking, Short, ToRefresh
<1>10. CASE t = <<"writeActivity", "readPhase", "writePhase">>
  <2>1. Tail(t) = <<"readPhase", "writePhase">> /\ Head(t) = "writeActivity"
    BY <1>10
  <2> QED BY <1>10, <2>1 DEF NextOK, StageOf, Lists, Dropped, Linked, Looking, Short, ToRefresh
<1>11. CASE t = <<"findLink", "refresh", "readActivity", "writeActivity", "readPhase", "writePhase">>
  <2>1. Tail(t) = <<"refresh", "readActivity", "writeActivity", "readPhase", "writePhase">> /\ Head(t) = "findLink"
    BY <1>11
  <2> QED BY <1>11, <2>1 DEF NextOK, StageOf, Lists, Dropped, Linked, Looking, Short, ToRefresh
<1>12. CASE t = <<"refresh", "readActivity", "writeActivity", "readPhase", "writePhase">>
  <2>1. Tail(t) = <<"readActivity", "writeActivity", "readPhase", "writePhase">> /\ Head(t) = "refresh"
    BY <1>12
  <2> QED BY <1>12, <2>1 DEF NextOK, StageOf, Lists, Dropped, Linked, Looking, Short, ToRefresh
<1>13. CASE t = <<"findLink", "dropLink", "readActivity", "writeActivity", "readPhase", "writePhase", "deleteAppointment">>
  <2>1. Tail(t) = <<"dropLink", "readActivity", "writeActivity", "readPhase", "writePhase", "deleteAppointment">> /\ Head(t) = "findLink"
    BY <1>13
  <2> QED BY <1>13, <2>1 DEF NextOK, StageOf, Lists, Dropped, Linked, Looking, Short, ToRefresh
<1>14. CASE t = <<"dropLink", "readActivity", "writeActivity", "readPhase", "writePhase", "deleteAppointment">>
  <2>1. Tail(t) = <<"readActivity", "writeActivity", "readPhase", "writePhase", "deleteAppointment">> /\ Head(t) = "dropLink"
    BY <1>14
  <2> QED BY <1>14, <2>1 DEF NextOK, StageOf, Lists, Dropped, Linked, Looking, Short, ToRefresh
<1>15. CASE t = <<"readActivity", "writeActivity", "readPhase", "writePhase", "deleteAppointment">>
  <2>1. Tail(t) = <<"writeActivity", "readPhase", "writePhase", "deleteAppointment">> /\ Head(t) = "readActivity"
    BY <1>15
  <2>2. Skip(Tail(t)) = <<"deleteAppointment">>
    BY <2>1, SkipsToLast
  <2>3. /\ Skip(Tail(t)) \in Lists /\ StageOf(Skip(Tail(t))) \in {"none", "readPhase", "deleteAppointment"}
        /\ Skip(Tail(t)) \in Dropped => t \in Dropped
    BY <1>15, <2>2 DEF StageOf, Lists, Dropped, Short
  <2> QED BY <1>15, <2>1, <2>3 DEF NextOK, StageOf, Lists, Dropped, Linked, Looking, Short, ToRefresh
<1>16. CASE t = <<"writeActivity", "readPhase", "writePhase", "deleteAppointment">>
  <2>1. Tail(t) = <<"readPhase", "writePhase", "deleteAppointment">> /\ Head(t) = "writeActivity"
    BY <1>16
  <2> QED BY <1>16, <2>1 DEF NextOK, StageOf, Lists, Dropped, Linked, Looking, Short, ToRefresh
<1>17. CASE t = <<"readPhase", "writePhase", "deleteAppointment">>
  <2>1. Tail(t) = <<"writePhase", "deleteAppointment">> /\ Head(t) = "readPhase"
    BY <1>17
  <2> QED BY <1>17, <2>1 DEF NextOK, StageOf, Lists, Dropped, Linked, Looking, Short, ToRefresh
<1>18. CASE t = <<"writePhase", "deleteAppointment">>
  <2>1. Tail(t) = <<"deleteAppointment">> /\ Head(t) = "writePhase"
    BY <1>18
  <2> QED BY <1>18, <2>1 DEF NextOK, StageOf, Lists, Dropped, Linked, Looking, Short, ToRefresh
<1>19. CASE t = <<"deleteAppointment">>
  <2>1. Tail(t) = << >> /\ Head(t) = "deleteAppointment"
    BY <1>19
  <2> QED BY <1>19, <2>1 DEF NextOK, StageOf, Lists, Dropped, Linked, Looking, Short, ToRefresh
<1>20. CASE t = <<"unlink", "readActivity", "writeActivity", "readPhase", "writePhase", "readPhase", "writePhase">>
  <2>1. Tail(t) = <<"readActivity", "writeActivity", "readPhase", "writePhase", "readPhase", "writePhase">> /\ Head(t) = "unlink"
    BY <1>20
  <2> QED BY <1>20, <2>1 DEF NextOK, StageOf, Lists, Dropped, Linked, Looking, Short, ToRefresh
<1>21. CASE t = <<"predecessors", "update", "readPhase", "writePhase">>
  <2>1. Tail(t) = <<"update", "readPhase", "writePhase">> /\ Head(t) = "predecessors"
    BY <1>21
  <2> QED BY <1>21, <2>1 DEF NextOK, StageOf, Lists, Dropped, Linked, Looking, Short, ToRefresh
<1>22. CASE t = <<"update", "readPhase", "writePhase">>
  <2>1. Tail(t) = <<"readPhase", "writePhase">> /\ Head(t) = "update"
    BY <1>22
  <2> QED BY <1>22, <2>1 DEF NextOK, StageOf, Lists, Dropped, Linked, Looking, Short, ToRefresh
<1>23. CASE t = <<"markDeleted", "readPhase", "writePhase">>
  <2>1. Tail(t) = <<"readPhase", "writePhase">> /\ Head(t) = "markDeleted"
    BY <1>23
  <2> QED BY <1>23, <2>1 DEF NextOK, StageOf, Lists, Dropped, Linked, Looking, Short, ToRefresh
<1> QED BY <1>1, <1>2, <1>3, <1>4, <1>5, <1>6, <1>7, <1>8, <1>9, <1>10, <1>11, <1>12, <1>13, <1>14, <1>15, <1>16, <1>17, <1>18, <1>19, <1>20, <1>21, <1>22, <1>23 DEF Lists, Dropped, Linked, Looking, Short

-----------------------------------------------------------------------------
(* What a request knows.  ln, acts and mk are the links, the activities and *)
(* the number of the links made.                                            *)

Stage(r) == StageOf(r.todo)

IsRequest(r) ==
    r = [todo |-> r.todo, of |-> r.of, appt |-> r.appt, minutes |-> r.minutes, linkId |-> r.linkId,
         dto |-> r.dto, seen |-> r.seen]

\* The activity of a request has existed since it began; a link it found is of
\* that activity, and one it finds when it deletes the appointment was made later.
RequestOK(r, ln, acts, mk) ==
    /\ IsRequest(r) /\ r.todo \in Lists
    /\ r.of # Nothing => r.of \in Activities /\ acts[r.of].exists
    /\ Stage(r) \in {"link", "unlink", "refresh", "dropLink", "readActivity", "writeActivity",
                     "predecessors", "update", "markDeleted"} => r.of # Nothing
    /\ Stage(r) \in {"link", "unlink", "refresh", "dropLink", "findLink"} \/ r.todo \in Dropped
          => r.appt \in Appointments
    /\ Stage(r) \in {"link", "refresh"} \/ r.todo = ToRefresh => r.minutes \in Lengths
    /\ r.linkId \in Nat /\ r.linkId <= mk
    /\ Stage(r) \in {"unlink", "refresh", "dropLink"} =>
          (ln[r.appt] # Nothing /\ ln[r.appt].id = r.linkId => ln[r.appt].of = r.of)
    /\ r.todo \in Dropped => (ln[r.appt] # Nothing => ln[r.appt].id > r.linkId)

\* Activities stay, and a link that is there was there, or is a new one.
GoesOn(ln, ln2, acts, acts2, mk, mk2) ==
    /\ mk2 \in Nat /\ mk2 >= mk
    /\ \A a \in Activities : acts[a].exists => acts2[a].exists
    /\ \A p \in Appointments : ln2[p] # Nothing =>
          \/ ln[p] # Nothing /\ ln2[p].id = ln[p].id /\ ln2[p].of = ln[p].of
          \/ ln2[p].id \in Nat /\ ln2[p].id > mk

LEMMA RequestGoesOn ==
    ASSUME NEW r, NEW ln, NEW ln2, NEW acts, NEW acts2, NEW mk \in Nat, NEW mk2,
           RequestOK(r, ln, acts, mk), GoesOn(ln, ln2, acts, acts2, mk, mk2)
    PROVE  RequestOK(r, ln2, acts2, mk2)
<1>1. r.linkId <= mk2
  BY DEF RequestOK, GoesOn
<1>2. ASSUME r.appt \in Appointments, ln2[r.appt] # Nothing, ln2[r.appt].id = r.linkId
      PROVE  ln[r.appt] # Nothing /\ ln[r.appt].id = r.linkId /\ ln2[r.appt].of = ln[r.appt].of
  BY <1>2 DEF RequestOK, GoesOn
<1>3. ASSUME r.appt \in Appointments, r.todo \in Dropped, ln2[r.appt] # Nothing
      PROVE  ln2[r.appt].id > r.linkId
  BY <1>3 DEF RequestOK, GoesOn
<1> QED BY <1>1, <1>2, <1>3 DEF RequestOK, GoesOn

LEMMA IdleIsOK ==
    ASSUME NEW ln, NEW acts, NEW mk \in Nat
    PROVE  RequestOK(Idle, ln, acts, mk) /\ Stage(Idle) = "none" /\ IsRequest(Idle)
<1>1. /\ IsRequest(Idle) /\ Idle.todo = << >> /\ Idle.of = Nothing /\ Idle.linkId = 0
  BY DEF Idle, IsRequest
<1>2. Stage(Idle) = "none" /\ Idle.todo \in Lists /\ Idle.todo \notin Dropped /\ Idle.todo # ToRefresh
  BY <1>1 DEF Stage, StageOf, Lists, Dropped, ToRefresh
<1> QED BY <1>1, <1>2 DEF RequestOK

\* The next statement of a request that is not looking for a link.
LEMMA NextIsOK ==
    ASSUME NEW r, NEW n, NEW ln, NEW acts, NEW mk, RequestOK(r, ln, acts, mk), IsRequest(n),
           r.todo # << >>, Stage(r) # "findLink",
           n.todo = Tail(r.todo) \/ (Stage(r) = "readActivity" /\ n.todo = Skip(Tail(r.todo))),
           n.of = r.of, n.appt = r.appt, n.minutes = r.minutes, n.linkId = r.linkId,
           Stage(r) = "dropLink" => ln[r.appt] = Nothing
    PROVE  RequestOK(n, ln, acts, mk)
<1>1. NextOK(r.todo) /\ Stage(r) = Head(r.todo) /\ Stage(n) = StageOf(n.todo)
  BY WhatFollows DEF RequestOK, Stage, StageOf
<1>2. n.todo \in Lists
  BY <1>1 DEF NextOK
<1>3. Stage(r) \in {"link", "unlink", "refresh", "dropLink", "readActivity", "writeActivity", "readPhase",
                    "writePhase", "predecessors", "update", "markDeleted", "deleteAppointment"}
  BY <1>1 DEF RequestOK, Lists, Dropped, Linked, Looking, Short, Stage, StageOf
<1>4. Stage(n) \notin {"link", "unlink", "refresh", "dropLink", "findLink"}
  BY <1>1, <1>3 DEF NextOK, StageOf
<1>5. n.todo # ToRefresh
  <2>1. ToRefresh # << >> /\ Head(ToRefresh) = "findLink"
    BY DEF ToRefresh
  <2> QED BY <2>1, <1>4 DEF Stage, StageOf
<1>6. n.todo \in Dropped => Stage(r) = "dropLink" \/ r.todo \in Dropped
  <2>1. << >> \notin Dropped
    BY DEF Dropped
  <2> QED BY <2>1, <1>1, <1>3 DEF NextOK
<1>7. Stage(n) \in {"readActivity", "writeActivity", "update"} => r.of # Nothing
  BY <1>1, <1>3 DEF NextOK, RequestOK, StageOf
<1>8. Stage(n) \notin {"predecessors", "markDeleted"}
  BY <1>1, <1>3 DEF NextOK, StageOf
<1> QED BY <1>2, <1>4, <1>5, <1>6, <1>7, <1>8 DEF RequestOK

-----------------------------------------------------------------------------
(* The lists of the code, written out.                                     *)

LEMMA RecalculateIs ==
    <<"readActivity", "writeActivity">> \o SyncPhase = <<"readActivity", "writeActivity", "readPhase", "writePhase">>
<1> DEFINE s == <<"readActivity", "writeActivity">> \o <<"readPhase", "writePhase">>
           t == <<"readActivity", "writeActivity", "readPhase", "writePhase">>
<1>1. s \in Seq(Steps) /\ Len(s) = 4
  BY DEF Steps
<1>2. t \in Seq(Steps) /\ Len(t) = 4
  BY DEF Steps
<1>3. \A i \in 1..4 : s[i] = t[i]
  OBVIOUS
<1> HIDE DEF s, t
<1>4. s = t
  BY <1>1, <1>2, <1>3, SeqEqual
<1> QED BY <1>4 DEF s, t, SyncPhase

LEMMA LinkThen ==
    <<"link">> \o Recalculate = <<"link", "readActivity", "writeActivity", "readPhase", "writePhase">>
<1> DEFINE s == <<"link">> \o <<"readActivity", "writeActivity", "readPhase", "writePhase">>
           t == <<"link", "readActivity", "writeActivity", "readPhase", "writePhase">>
<1>1. s \in Seq(Steps) /\ Len(s) = 5
  BY DEF Steps
<1>2. t \in Seq(Steps) /\ Len(t) = 5
  BY DEF Steps
<1>3. \A i \in 1..5 : s[i] = t[i]
  OBVIOUS
<1> HIDE DEF s, t
<1>4. s = t
  BY <1>1, <1>2, <1>3, SeqEqual
<1> QED BY <1>4, RecalculateIs DEF s, t, Recalculate

LEMMA LinkThenBoth ==
    (<<"link">> \o Recalculate) \o SyncPhase = <<"link", "readActivity", "writeActivity", "readPhase", "writePhase", "readPhase", "writePhase">>
<1> DEFINE s == <<"link", "readActivity", "writeActivity", "readPhase", "writePhase">> \o <<"readPhase", "writePhase">>
           t == <<"link", "readActivity", "writeActivity", "readPhase", "writePhase", "readPhase", "writePhase">>
<1>1. s \in Seq(Steps) /\ Len(s) = 7
  BY DEF Steps
<1>2. t \in Seq(Steps) /\ Len(t) = 7
  BY DEF Steps
<1>3. \A i \in 1..7 : s[i] = t[i]
  OBVIOUS
<1> HIDE DEF s, t
<1>4. s = t
  BY <1>1, <1>2, <1>3, SeqEqual
<1> QED BY <1>4, LinkThen DEF s, t, SyncPhase

LEMMA UnlinkThen ==
    <<"unlink">> \o Recalculate = <<"unlink", "readActivity", "writeActivity", "readPhase", "writePhase">>
<1> DEFINE s == <<"unlink">> \o <<"readActivity", "writeActivity", "readPhase", "writePhase">>
           t == <<"unlink", "readActivity", "writeActivity", "readPhase", "writePhase">>
<1>1. s \in Seq(Steps) /\ Len(s) = 5
  BY DEF Steps
<1>2. t \in Seq(Steps) /\ Len(t) = 5
  BY DEF Steps
<1>3. \A i \in 1..5 : s[i] = t[i]
  OBVIOUS
<1> HIDE DEF s, t
<1>4. s = t
  BY <1>1, <1>2, <1>3, SeqEqual
<1> QED BY <1>4, RecalculateIs DEF s, t, Recalculate

LEMMA UnlinkThenBoth ==
    (<<"unlink">> \o Recalculate) \o SyncPhase = <<"unlink", "readActivity", "writeActivity", "readPhase", "writePhase", "readPhase", "writePhase">>
<1> DEFINE s == <<"unlink", "readActivity", "writeActivity", "readPhase", "writePhase">> \o <<"readPhase", "writePhase">>
           t == <<"unlink", "readActivity", "writeActivity", "readPhase", "writePhase", "readPhase", "writePhase">>
<1>1. s \in Seq(Steps) /\ Len(s) = 7
  BY DEF Steps
<1>2. t \in Seq(Steps) /\ Len(t) = 7
  BY DEF Steps
<1>3. \A i \in 1..7 : s[i] = t[i]
  OBVIOUS
<1> HIDE DEF s, t
<1>4. s = t
  BY <1>1, <1>2, <1>3, SeqEqual
<1> QED BY <1>4, UnlinkThen DEF s, t, SyncPhase

LEMMA RefreshThen ==
    <<"findLink", "refresh">> \o Recalculate = <<"findLink", "refresh", "readActivity", "writeActivity", "readPhase", "writePhase">>
<1> DEFINE s == <<"findLink", "refresh">> \o <<"readActivity", "writeActivity", "readPhase", "writePhase">>
           t == <<"findLink", "refresh", "readActivity", "writeActivity", "readPhase", "writePhase">>
<1>1. s \in Seq(Steps) /\ Len(s) = 6
  BY DEF Steps
<1>2. t \in Seq(Steps) /\ Len(t) = 6
  BY DEF Steps
<1>3. \A i \in 1..6 : s[i] = t[i]
  OBVIOUS
<1> HIDE DEF s, t
<1>4. s = t
  BY <1>1, <1>2, <1>3, SeqEqual
<1> QED BY <1>4, RecalculateIs DEF s, t, Recalculate

LEMMA DropThen ==
    <<"findLink", "dropLink">> \o Recalculate = <<"findLink", "dropLink", "readActivity", "writeActivity", "readPhase", "writePhase">>
<1> DEFINE s == <<"findLink", "dropLink">> \o <<"readActivity", "writeActivity", "readPhase", "writePhase">>
           t == <<"findLink", "dropLink", "readActivity", "writeActivity", "readPhase", "writePhase">>
<1>1. s \in Seq(Steps) /\ Len(s) = 6
  BY DEF Steps
<1>2. t \in Seq(Steps) /\ Len(t) = 6
  BY DEF Steps
<1>3. \A i \in 1..6 : s[i] = t[i]
  OBVIOUS
<1> HIDE DEF s, t
<1>4. s = t
  BY <1>1, <1>2, <1>3, SeqEqual
<1> QED BY <1>4, RecalculateIs DEF s, t, Recalculate

LEMMA DropThenDelete ==
    (<<"findLink", "dropLink">> \o Recalculate) \o <<"deleteAppointment">> = <<"findLink", "dropLink", "readActivity", "writeActivity", "readPhase", "writePhase", "deleteAppointment">>
<1> DEFINE s == <<"findLink", "dropLink", "readActivity", "writeActivity", "readPhase", "writePhase">> \o <<"deleteAppointment">>
           t == <<"findLink", "dropLink", "readActivity", "writeActivity", "readPhase", "writePhase", "deleteAppointment">>
<1>1. s \in Seq(Steps) /\ Len(s) = 7
  BY DEF Steps
<1>2. t \in Seq(Steps) /\ Len(t) = 7
  BY DEF Steps
<1>3. \A i \in 1..7 : s[i] = t[i]
  OBVIOUS
<1> HIDE DEF s, t
<1>4. s = t
  BY <1>1, <1>2, <1>3, SeqEqual
<1> QED BY <1>4, DropThen DEF s, t, SyncPhase

LEMMA UpdateThen ==
    <<"update">> \o SyncPhase = <<"update", "readPhase", "writePhase">>
<1> DEFINE s == <<"update">> \o <<"readPhase", "writePhase">>
           t == <<"update", "readPhase", "writePhase">>
<1>1. s \in Seq(Steps) /\ Len(s) = 3
  BY DEF Steps
<1>2. t \in Seq(Steps) /\ Len(t) = 3
  BY DEF Steps
<1>3. \A i \in 1..3 : s[i] = t[i]
  OBVIOUS
<1> HIDE DEF s, t
<1>4. s = t
  BY <1>1, <1>2, <1>3, SeqEqual
<1> QED BY <1>4 DEF s, t, SyncPhase

LEMMA MarkDeletedThen ==
    <<"markDeleted">> \o SyncPhase = <<"markDeleted", "readPhase", "writePhase">>
<1> DEFINE s == <<"markDeleted">> \o <<"readPhase", "writePhase">>
           t == <<"markDeleted", "readPhase", "writePhase">>
<1>1. s \in Seq(Steps) /\ Len(s) = 3
  BY DEF Steps
<1>2. t \in Seq(Steps) /\ Len(t) = 3
  BY DEF Steps
<1>3. \A i \in 1..3 : s[i] = t[i]
  OBVIOUS
<1> HIDE DEF s, t
<1>4. s = t
  BY <1>1, <1>2, <1>3, SeqEqual
<1> QED BY <1>4 DEF s, t, SyncPhase

LEMMA PredecessorsUpdate ==
    <<"predecessors">> \o <<"update">> = <<"predecessors", "update">>
<1> DEFINE s == <<"predecessors">> \o <<"update">>
           t == <<"predecessors", "update">>
<1>1. s \in Seq(Steps) /\ Len(s) = 2
  BY DEF Steps
<1>2. t \in Seq(Steps) /\ Len(t) = 2
  BY DEF Steps
<1>3. \A i \in 1..2 : s[i] = t[i]
  OBVIOUS
<1> HIDE DEF s, t
<1>4. s = t
  BY <1>1, <1>2, <1>3, SeqEqual
<1> QED BY <1>4 DEF s, t, SyncPhase

LEMMA PredecessorsThen ==
    <<"predecessors", "update">> \o SyncPhase = <<"predecessors", "update", "readPhase", "writePhase">>
<1> DEFINE s == <<"predecessors", "update">> \o <<"readPhase", "writePhase">>
           t == <<"predecessors", "update", "readPhase", "writePhase">>
<1>1. s \in Seq(Steps) /\ Len(s) = 4
  BY DEF Steps
<1>2. t \in Seq(Steps) /\ Len(t) = 4
  BY DEF Steps
<1>3. \A i \in 1..4 : s[i] = t[i]
  OBVIOUS
<1> HIDE DEF s, t
<1>4. s = t
  BY <1>1, <1>2, <1>3, SeqEqual
<1> QED BY <1>4 DEF s, t, SyncPhase

LEMMA JustUpdate ==
    << >> \o <<"update">> = <<"update">>
<1> DEFINE s == << >> \o <<"update">>
           t == <<"update">>
<1>1. s \in Seq(Steps) /\ Len(s) = 1
  BY DEF Steps
<1>2. t \in Seq(Steps) /\ Len(t) = 1
  BY DEF Steps
<1>3. \A i \in 1..1 : s[i] = t[i]
  OBVIOUS
<1> HIDE DEF s, t
<1>4. s = t
  BY <1>1, <1>2, <1>3, SeqEqual
<1> QED BY <1>4 DEF s, t, SyncPhase

-----------------------------------------------------------------------------
(* The rows and the requests fit, in every reachable state.                *)

IsActivity(row) ==
    /\ row = [exists |-> row.exists, deleted |-> row.deleted, duration |-> row.duration,
              hours |-> row.hours, progress |-> row.progress]
    /\ row.exists \in BOOLEAN /\ row.deleted \in BOOLEAN

ProgressBase ==
    /\ appointment \in [Appointments -> {0} \cup Lengths]
    /\ link \in [Appointments -> Link \cup {Nothing}]
    /\ activity = [a \in Activities |-> activity[a]] /\ \A a \in Activities : IsActivity(activity[a])
    /\ made \in Nat
    /\ \A p \in Appointments : link[p] # Nothing =>
          link[p].id <= made /\ activity[link[p].of].exists /\ appointment[p] # 0
    /\ request = [c \in Clients |-> request[c]]
    /\ \A c \in Clients : RequestOK(request[c], link, activity, made)

LEMMA BaseGoesOn ==
    ASSUME ProgressBase, NEW c \in Clients, NEW n, request' = [request EXCEPT ![c] = n],
           RequestOK(n, link', activity', made'),
           GoesOn(link, link', activity, activity', made, made'),
           appointment' \in [Appointments -> {0} \cup Lengths],
           link' \in [Appointments -> Link \cup {Nothing}],
           activity' = [a \in Activities |-> activity'[a]],
           \A a \in Activities : IsActivity(activity'[a]),
           \A p \in Appointments : link'[p] # Nothing =>
              link'[p].id <= made' /\ activity'[link'[p].of].exists /\ appointment'[p] # 0
    PROVE  ProgressBase'
<1>1. request = [d \in Clients |-> request[d]] /\ made \in Nat
      /\ \A d \in Clients : RequestOK(request[d], link, activity, made)
  BY DEF ProgressBase
<1>2. request'[c] = n /\ \A d \in Clients \ {c} : request'[d] = request[d]
  BY <1>1
<1>3. ASSUME NEW d \in Clients PROVE RequestOK(request'[d], link', activity', made')
  <2>1. CASE d = c
    BY <2>1, <1>2
  <2>2. CASE d # c
    <3>1. PICK r : r = request[d]
      OBVIOUS
    <3>2. RequestOK(r, link', activity', made')
      BY <3>1, <1>1, RequestGoesOn
    <3> QED BY <3>1, <3>2, <2>2, <1>2
  <2> QED BY <2>1, <2>2
<1>4. request' = [d \in Clients |-> request'[d]] /\ made' \in Nat
  BY <1>1 DEF GoesOn
<1> QED BY <1>3, <1>4 DEF ProgressBase

\* The same where no link and no activity changes.
LEMMA NothingChanges ==
    ASSUME ProgressBase, UNCHANGED <<link, activity, made>>
    PROVE  GoesOn(link, link', activity, activity', made, made')
BY DEF ProgressBase, GoesOn

LEMMA QuietBase ==
    ASSUME ProgressBase, NEW c \in Clients, NEW n, request' = [request EXCEPT ![c] = n],
           RequestOK(n, link, activity, made), UNCHANGED <<link, activity, made>>,
           appointment' \in [Appointments -> {0} \cup Lengths],
           \A p \in Appointments : appointment[p] # 0 => appointment'[p] # 0
    PROVE  ProgressBase'
<1>1. GoesOn(link, link', activity, activity', made, made')
  BY NothingChanges
<1>2. RequestOK(n, link', activity', made')
  OBVIOUS
<1>3. /\ link' \in [Appointments -> Link \cup {Nothing}]
      /\ activity' = [a \in Activities |-> activity'[a]]
      /\ \A a \in Activities : IsActivity(activity'[a])
      /\ \A p \in Appointments : link'[p] # Nothing =>
            link'[p].id <= made' /\ activity'[link'[p].of].exists /\ appointment'[p] # 0
  BY DEF ProgressBase
<1> QED BY <1>1, <1>2, <1>3, BaseGoesOn

\* What is left of a request after a statement.
After(r, steps) == IF steps = << >> THEN Idle ELSE [r EXCEPT !.todo = steps]

LEMMA AfterIs ==
    ASSUME NEW r, IsRequest(r), NEW steps
    PROVE  /\ IsRequest(After(r, steps)) /\ Stage(After(r, steps)) = StageOf(steps)
           /\ After(r, steps).todo = steps
           /\ steps # << >> =>
                 /\ After(r, steps).of = r.of /\ After(r, steps).appt = r.appt
                 /\ After(r, steps).minutes = r.minutes /\ After(r, steps).linkId = r.linkId
                 /\ After(r, steps).seen = r.seen /\ After(r, steps).dto = r.dto
           /\ steps = << >> => After(r, steps) = Idle
<1>1. CASE steps = << >>
  BY <1>1 DEF After, Idle, IsRequest, Stage, StageOf
<1>2. CASE steps # << >>
  <2>1. PICK n : n = [r EXCEPT !.todo = steps]
    OBVIOUS
  <2>2. n = [todo |-> steps, of |-> r.of, appt |-> r.appt, minutes |-> r.minutes, linkId |-> r.linkId,
             dto |-> r.dto, seen |-> r.seen]
    BY <2>1 DEF IsRequest
  <2>3. IsRequest(n) /\ Stage(n) = StageOf(steps)
    BY <2>2 DEF IsRequest, Stage
  <2> QED BY <1>2, <2>1, <2>2, <2>3 DEF After
<1> QED BY <1>1, <1>2

\* A statement has been run, and those after it are left.
LEMMA AfterIsOK ==
    ASSUME NEW r, NEW steps, NEW ln, NEW acts, NEW mk \in Nat, RequestOK(r, ln, acts, mk),
           r.todo # << >>, Stage(r) # "findLink",
           \/ steps = << >> \/ steps = Tail(r.todo)
           \/ Stage(r) = "readActivity" /\ steps = Skip(Tail(r.todo)),
           Stage(r) = "dropLink" /\ steps # << >> => ln[r.appt] = Nothing
    PROVE  RequestOK(After(r, steps), ln, acts, mk)
<1>1. IsRequest(r)
  BY DEF RequestOK
<1>2. CASE steps = << >>
  BY <1>1, <1>2, AfterIs, IdleIsOK
<1>3. CASE steps # << >>
  <2>1. PICK n : n = After(r, steps)
    OBVIOUS
  <2>2. /\ IsRequest(n) /\ n.todo = steps /\ n.of = r.of /\ n.appt = r.appt /\ n.minutes = r.minutes
        /\ n.linkId = r.linkId
    BY <1>1, <1>3, <2>1, AfterIs
  <2>3. n.todo = Tail(r.todo) \/ (Stage(r) = "readActivity" /\ n.todo = Skip(Tail(r.todo)))
    BY <2>2, <1>3
  <2>4. RequestOK(n, ln, acts, mk)
    BY <2>2, <2>3, <1>3, NextIsOK
  <2> QED BY <2>1, <2>4
<1> QED BY <1>2, <1>3

LEMMA GoesOnWith ==
    ASSUME NEW c, NEW steps, GoOn(c, steps), NEW r, r = request[c]
    PROVE  request' = [request EXCEPT ![c] = After(r, steps)]
BY DEF GoOn, After

\* What a request at a statement is.
LEMMA RequestAt ==
    ASSUME ProgressBase, NEW c \in Clients, NEW step, At(c, step), NEW r, r = request[c]
    PROVE  /\ RequestOK(r, link, activity, made) /\ r.todo # << >> /\ Stage(r) = step /\ IsRequest(r)
           /\ NextOK(r.todo) /\ Rest(c) = Tail(r.todo) /\ made \in Nat
<1>1. RequestOK(r, link, activity, made) /\ made \in Nat
  BY DEF ProgressBase
<1>2. r.todo # << >> /\ Head(r.todo) = step /\ Rest(c) = Tail(r.todo)
  BY DEF At, Rest
<1> QED BY <1>1, <1>2, WhatFollows DEF RequestOK, Stage, StageOf

-----------------------------------------------------------------------------
(* The invariant.  A request that has changed a link owes its activity a    *)
(* recalculation until it writes it, one that changes an appointment owes   *)
(* its link the minutes unless it finds none, and one that has written an   *)
(* activity owes the phase; before its change it owes nothing, and may end. *)

OwesTotal(r, a) == r.of = a /\ Stage(r) \in {"readActivity", "writeActivity"}
OwesMinutes(r, l) == r.todo = ToRefresh \/ (Stage(r) = "refresh" /\ l.id = r.linkId)
OwesPhase(r) == Stage(r) \in {"readPhase", "writePhase"}

TotalHolds(a) ==
    /\ activity[a].hours = HoursFor(MinutesOf(a))
    /\ a \notin byHand =>
         activity[a].progress =
             ProgressFor(activity[a], a \in Milestones, Cardinality(LinksOf(a)), MinutesOf(a))

TotalAt(a) ==
    (Live(a) /\ a \notin overtaken /\ \A c \in Clients : ~OwesTotal(request[c], a)) => TotalHolds(a)

MinutesAt(p) ==
    (link[p] # Nothing /\ p \notin skewed
         /\ \A c \in Clients : ~(request[c].appt = p /\ OwesMinutes(request[c], link[p])))
    => link[p].minutes = appointment[p]

PhaseFollows ==
    (~phaseOvertaken /\ \A c \in Clients : ~OwesPhase(request[c])) => phase = PhaseFor(Children, activity)

ProgressIInv ==
    /\ ProgressBase
    /\ \A a \in Activities : TotalAt(a)
    /\ \A p \in Appointments : MinutesAt(p)
    /\ PhaseFollows

LEMMA OneMoves ==
    ASSUME ProgressBase, NEW c \in Clients, NEW n, request' = [request EXCEPT ![c] = n]
    PROVE  request'[c] = n /\ \A d \in Clients \ {c} : request'[d] = request[d]
BY DEF ProgressBase

LEMMA TotalKept ==
    ASSUME ProgressBase, NEW a \in Activities, TotalAt(a), NEW c \in Clients, NEW n,
           request' = [request EXCEPT ![c] = n],
           Live(a)' /\ a \notin overtaken' /\ ~OwesTotal(n, a) =>
              /\ Live(a) /\ a \notin overtaken /\ ~OwesTotal(request[c], a)
              /\ TotalHolds(a) => TotalHolds(a)'
    PROVE  TotalAt(a)'
<1>1. request'[c] = n /\ \A d \in Clients \ {c} : request'[d] = request[d]
  BY OneMoves
<1> SUFFICES ASSUME Live(a)', a \notin overtaken', \A d \in Clients : ~OwesTotal(request'[d], a)
             PROVE  TotalHolds(a)'
  BY DEF TotalAt, OwesTotal, Stage
<1>2. ~OwesTotal(n, a)
  BY <1>1
<1>3. \A d \in Clients : ~OwesTotal(request[d], a)
  BY <1>1, <1>2
<1> QED BY <1>2, <1>3 DEF TotalAt

LEMMA MinutesKept ==
    ASSUME ProgressBase, NEW p \in Appointments, MinutesAt(p), NEW c \in Clients, NEW n,
           request' = [request EXCEPT ![c] = n], UNCHANGED <<link[p], appointment[p]>>,
           p \notin skewed' => p \notin skewed,
           link[p] # Nothing /\ p \notin skewed' /\ request[c].appt = p /\ OwesMinutes(request[c], link[p])
              => n.appt = p /\ OwesMinutes(n, link[p])
    PROVE  MinutesAt(p)'
<1>1. request'[c] = n /\ \A d \in Clients \ {c} : request'[d] = request[d]
  BY OneMoves
<1>2. link'[p] = link[p] /\ appointment'[p] = appointment[p]
  OBVIOUS
<1> SUFFICES ASSUME link[p] # Nothing, p \notin skewed',
                    \A d \in Clients : ~(request'[d].appt = p /\ OwesMinutes(request'[d], link[p]))
             PROVE  link[p].minutes = appointment[p]
  BY <1>2 DEF MinutesAt, OwesMinutes, Stage
<1>3. ~(n.appt = p /\ OwesMinutes(n, link[p]))
  BY <1>1
<1>4. \A d \in Clients : ~(request[d].appt = p /\ OwesMinutes(request[d], link[p]))
  BY <1>1, <1>3
<1> QED BY <1>4 DEF MinutesAt

LEMMA PhaseKept ==
    ASSUME ProgressBase, PhaseFollows, NEW c \in Clients, NEW n, request' = [request EXCEPT ![c] = n],
           ~phaseOvertaken' /\ ~OwesPhase(n) =>
              /\ ~phaseOvertaken /\ ~OwesPhase(request[c])
              /\ phase = PhaseFor(Children, activity) => (phase = PhaseFor(Children, activity))'
    PROVE  PhaseFollows'
<1>1. request'[c] = n /\ \A d \in Clients \ {c} : request'[d] = request[d]
  BY OneMoves
<1> SUFFICES ASSUME ~phaseOvertaken', \A d \in Clients : ~OwesPhase(request'[d])
             PROVE  (phase = PhaseFor(Children, activity))'
  BY DEF PhaseFollows, OwesPhase, Stage
<1>2. ~OwesPhase(n)
  BY <1>1
<1>3. \A d \in Clients : ~OwesPhase(request[d])
  BY <1>1, <1>2
<1> QED BY <1>2, <1>3 DEF PhaseFollows

\* The links of an activity decide its minutes.
LEMMA LinksSame ==
    ASSUME NEW a, \A p \in Appointments : /\ (p \in LinksOf(a))' <=> p \in LinksOf(a)
                                          /\ p \in LinksOf(a) => link'[p].minutes = link[p].minutes
    PROVE  LinksOf(a)' = LinksOf(a) /\ MinutesOf(a)' = MinutesOf(a)
<1>1. LinksOf(a) \subseteq Appointments /\ LinksOf(a)' \subseteq Appointments
  BY DEF LinksOf
<1>2. LinksOf(a)' = LinksOf(a)
  BY <1>1
<1>3. [p \in LinksOf(a) |-> link[p].minutes]' = [p \in LinksOf(a) |-> link[p].minutes]
  BY <1>1, <1>2
<1> QED BY <1>2, <1>3 DEF MinutesOf

LEMMA TotalSame ==
    ASSUME NEW a, UNCHANGED <<link, activity[a]>>, a \notin byHand' => a \notin byHand, TotalHolds(a)
    PROVE  TotalHolds(a)'
<1>1. LinksOf(a)' = LinksOf(a) /\ MinutesOf(a)' = MinutesOf(a)
  BY LinksSame DEF LinksOf
<1>2. activity'[a] = activity[a]
  OBVIOUS
<1> QED BY <1>1, <1>2 DEF TotalHolds

LEMMA PhaseSame ==
    UNCHANGED activity => PhaseFor(Children, activity)' = PhaseFor(Children, activity)
BY DEF Children, Live

\* A step that changes no row, and neither drops nor takes on what a request owes.
LEMMA QuietStep ==
    ASSUME ProgressIInv, NEW c \in Clients, NEW n, NEW r, r = request[c],
           request' = [request EXCEPT ![c] = n], RequestOK(n, link, activity, made),
           UNCHANGED <<appointment, link, activity, phase, made, overtaken, skewed, phaseOvertaken, byHand>>,
           \A a \in Activities : Live(a) /\ OwesTotal(r, a) => OwesTotal(n, a),
           \A p \in Appointments : link[p] # Nothing /\ r.appt = p /\ OwesMinutes(r, link[p])
              => n.appt = p /\ OwesMinutes(n, link[p]),
           OwesPhase(r) => OwesPhase(n)
    PROVE  ProgressIInv'
<1>1. ProgressBase'
  BY QuietBase DEF ProgressIInv, ProgressBase
<1>2. ASSUME NEW a \in Activities PROVE TotalAt(a)'
  <2>1. UNCHANGED <<link, activity[a]>> /\ (Live(a)' <=> Live(a))
    BY DEF Live
  <2>2. ProgressBase /\ TotalAt(a)
    BY DEF ProgressIInv
  <2> QED BY <2>1, <2>2, TotalSame, TotalKept
<1>3. ASSUME NEW p \in Appointments PROVE MinutesAt(p)'
  <2>1. ProgressBase /\ MinutesAt(p) /\ UNCHANGED <<link[p], appointment[p]>>
    BY DEF ProgressIInv
  <2> QED BY <2>1, MinutesKept
<1>4. PhaseFollows'
  <2>1. ProgressBase /\ PhaseFollows
    BY DEF ProgressIInv
  <2> QED BY <2>1, PhaseSame, PhaseKept
<1> QED BY <1>1, <1>2, <1>3, <1>4 DEF ProgressIInv

-----------------------------------------------------------------------------
(* Requests begin.                                                         *)

LEMMA NothingOwed ==
    /\ \A a \in Activities : ~OwesTotal(Idle, a)
    /\ \A l : ~OwesMinutes(Idle, l)
    /\ ~OwesPhase(Idle)
<1>1. Stage(Idle) = "none" /\ Idle.todo # ToRefresh
  BY DEF Stage, StageOf, Idle, ToRefresh
<1> QED BY <1>1 DEF OwesTotal, OwesMinutes, OwesPhase

\* A request that begins without a change of its own.
LEMMA QuietStart ==
    ASSUME ProgressIInv, NEW c \in Clients, NEW n, Begin(c, n), RequestOK(n, link, activity, made),
           UNCHANGED <<appointment, link, activity, phase, made, overtaken, skewed, phaseOvertaken, byHand>>
    PROVE  ProgressIInv'
<1>1. request' = [request EXCEPT ![c] = n] /\ request[c] = Idle
  BY DEF Begin
<1> QED BY <1>1, NothingOwed, QuietStep

\* The fields a request begins with.
LEMMA Fields ==
    ASSUME NEW todo, NEW of, NEW appt, NEW minutes, NEW linkId, NEW dto, NEW seen, NEW n,
           n = [todo |-> todo, of |-> of, appt |-> appt, minutes |-> minutes, linkId |-> linkId,
                dto |-> dto, seen |-> seen]
    PROVE  /\ IsRequest(n) /\ n.todo = todo /\ n.of = of /\ n.appt = appt /\ n.minutes = minutes
           /\ n.linkId = linkId /\ Stage(n) = StageOf(todo)
BY DEF IsRequest, Stage

LEMMA LiveExists == ASSUME NEW a \in Activities, Live(a) PROVE activity[a].exists /\ a # Nothing
BY ProgressAssumption DEF Live

LEMMA LinkAppointmentStep ==
    ASSUME ProgressIInv, NEW c \in Clients, NEW p \in Appointments, NEW a \in Activities,
           LinkAppointment(c, p, a)
    PROVE  ProgressIInv'
<1>1. PICK todo : todo = <<"link", "readActivity", "writeActivity", "readPhase", "writePhase", "readPhase", "writePhase">>
  OBVIOUS
<1>2. PICK n : n = [Idle EXCEPT !.todo = todo, !.of = a, !.appt = p, !.minutes = appointment[p]]
  OBVIOUS
<1>3. /\ Begin(c, n) /\ appointment[p] # 0 /\ Live(a)
      /\ UNCHANGED <<appointment, link, activity, phase, made, overtaken, skewed, phaseOvertaken, byHand>>
  BY <1>1, <1>2, LinkThenBoth DEF LinkAppointment
<1>4. n = [todo |-> todo, of |-> a, appt |-> p, minutes |-> appointment[p], linkId |-> 0,
           dto |-> Idle.dto, seen |-> << >>]
  BY <1>2 DEF Idle
<1>5. /\ IsRequest(n) /\ n.todo = todo /\ n.of = a /\ n.appt = p /\ n.minutes = appointment[p]
      /\ n.linkId = 0 /\ Stage(n) = StageOf(todo)
  BY <1>4, Fields
<1>6. todo \in Lists /\ StageOf(todo) = "link"
  BY <1>1 DEF Lists, Linked, StageOf
<1>7. todo \notin Dropped
  BY <1>1 DEF Dropped
<1>8. made \in Nat /\ appointment[p] \in Lengths
  BY <1>3 DEF ProgressIInv, ProgressBase
<1>9. RequestOK(n, link, activity, made)
  BY <1>3, <1>5, <1>6, <1>7, <1>8, LiveExists DEF RequestOK
<1> QED BY <1>3, <1>9, QuietStart

LEMMA RemoveAppointmentStep ==
    ASSUME ProgressIInv, NEW c \in Clients, NEW p \in Appointments, RemoveAppointment(c, p)
    PROVE  ProgressIInv'
<1>1. PICK todo : todo = <<"findLink", "dropLink", "readActivity", "writeActivity", "readPhase", "writePhase", "deleteAppointment">>
  OBVIOUS
<1>2. PICK n : n = [Idle EXCEPT !.todo = todo, !.appt = p]
  OBVIOUS
<1>3. /\ Begin(c, n)
      /\ UNCHANGED <<appointment, link, activity, phase, made, overtaken, skewed, phaseOvertaken, byHand>>
  BY <1>1, <1>2, DropThenDelete DEF RemoveAppointment
<1>4. n = [todo |-> todo, of |-> Nothing, appt |-> p, minutes |-> 0, linkId |-> 0,
           dto |-> Idle.dto, seen |-> << >>]
  BY <1>2 DEF Idle
<1>5. /\ IsRequest(n) /\ n.todo = todo /\ n.of = Nothing /\ n.appt = p
      /\ n.linkId = 0 /\ Stage(n) = StageOf(todo)
  BY <1>4, Fields
<1>6. todo \in Lists /\ StageOf(todo) = "findLink"
  BY <1>1 DEF Lists, Looking, StageOf
<1>7. todo \notin Dropped /\ todo # ToRefresh
  BY <1>1 DEF Dropped, ToRefresh
<1>8. made \in Nat
  BY DEF ProgressIInv, ProgressBase
<1>9. RequestOK(n, link, activity, made)
  BY <1>5, <1>6, <1>7, <1>8 DEF RequestOK
<1> QED BY <1>3, <1>9, QuietStart

LEMMA UnlinkAppointmentStep ==
    ASSUME ProgressIInv, NEW c \in Clients, NEW p \in Appointments, UnlinkAppointment(c, p)
    PROVE  ProgressIInv'
<1>1. PICK todo : todo = <<"unlink", "readActivity", "writeActivity", "readPhase", "writePhase", "readPhase", "writePhase">>
  OBVIOUS
<1>2. PICK n : n = [Idle EXCEPT !.todo = todo, !.of = link[p].of, !.appt = p, !.linkId = link[p].id]
  OBVIOUS
<1>3. /\ Begin(c, n) /\ link[p] # Nothing /\ Live(link[p].of)
      /\ UNCHANGED <<appointment, link, activity, phase, made, overtaken, skewed, phaseOvertaken, byHand>>
  BY <1>1, <1>2, UnlinkThenBoth DEF UnlinkAppointment
<1>4. n = [todo |-> todo, of |-> link[p].of, appt |-> p, minutes |-> 0, linkId |-> link[p].id,
           dto |-> Idle.dto, seen |-> << >>]
  BY <1>2 DEF Idle
<1>5. /\ IsRequest(n) /\ n.todo = todo /\ n.of = link[p].of /\ n.appt = p
      /\ n.linkId = link[p].id /\ Stage(n) = StageOf(todo)
  BY <1>4, Fields
<1>6. todo \in Lists /\ StageOf(todo) = "unlink"
  BY <1>1 DEF Lists, Linked, StageOf
<1>7. todo \notin Dropped /\ todo # ToRefresh
  BY <1>1 DEF Dropped, ToRefresh
<1>8. link[p].id \in Nat /\ link[p].id <= made /\ link[p].of \in Activities
  BY <1>3 DEF ProgressIInv, ProgressBase, Link
<1>9. RequestOK(n, link, activity, made)
  BY <1>3, <1>5, <1>6, <1>7, <1>8, LiveExists DEF RequestOK
<1> QED BY <1>3, <1>9, QuietStart

LEMMA DeleteActivityStep ==
    ASSUME ProgressIInv, NEW c \in Clients, NEW a \in Activities, DeleteActivity(c, a)
    PROVE  ProgressIInv'
<1>1. PICK todo : todo = <<"markDeleted", "readPhase", "writePhase">>
  OBVIOUS
<1>2. PICK n : n = [Idle EXCEPT !.todo = todo, !.of = a]
  OBVIOUS
<1>3. /\ Begin(c, n) /\ Live(a)
      /\ UNCHANGED <<appointment, link, activity, phase, made, overtaken, skewed, phaseOvertaken, byHand>>
  BY <1>1, <1>2, MarkDeletedThen DEF DeleteActivity
<1>4. n = [todo |-> todo, of |-> a, appt |-> Nothing, minutes |-> 0, linkId |-> 0,
           dto |-> Idle.dto, seen |-> << >>]
  BY <1>2 DEF Idle
<1>5. IsRequest(n) /\ n.todo = todo /\ n.of = a /\ n.linkId = 0 /\ Stage(n) = StageOf(todo)
  BY <1>4, Fields
<1>6. todo \in Lists /\ StageOf(todo) = "markDeleted"
  BY <1>1 DEF Lists, Short, StageOf
<1>7. todo \notin Dropped /\ todo # ToRefresh
  BY <1>1 DEF Dropped, ToRefresh
<1>8. made \in Nat
  BY DEF ProgressIInv, ProgressBase
<1>9. RequestOK(n, link, activity, made)
  BY <1>3, <1>5, <1>6, <1>7, <1>8, LiveExists DEF RequestOK
<1> QED BY <1>3, <1>9, QuietStart

LEMMA UpdateActivityStep ==
    ASSUME ProgressIInv, NEW c \in Clients, NEW a \in Activities, NEW dto, UpdateActivity(c, a, dto)
    PROVE  ProgressIInv'
<1>1. PICK todo \in {<<"predecessors", "update", "readPhase", "writePhase">>, <<"update", "readPhase", "writePhase">>} :
         Begin(c, [Idle EXCEPT !.todo = todo, !.of = a, !.dto = dto, !.seen = <<activity[a]>>])
  BY PredecessorsUpdate, PredecessorsThen, JustUpdate, UpdateThen DEF UpdateActivity
<1>2. PICK n : n = [Idle EXCEPT !.todo = todo, !.of = a, !.dto = dto, !.seen = <<activity[a]>>]
  OBVIOUS
<1>3. /\ Begin(c, n) /\ Live(a)
      /\ UNCHANGED <<appointment, link, activity, phase, made, overtaken, skewed, phaseOvertaken, byHand>>
  BY <1>1, <1>2 DEF UpdateActivity
<1>4. n = [todo |-> todo, of |-> a, appt |-> Nothing, minutes |-> 0, linkId |-> 0,
           dto |-> dto, seen |-> <<activity[a]>>]
  BY <1>2 DEF Idle
<1>5. IsRequest(n) /\ n.todo = todo /\ n.of = a /\ n.linkId = 0 /\ Stage(n) = StageOf(todo)
  BY <1>4, Fields
<1>6. todo \in Lists /\ StageOf(todo) \in {"predecessors", "update"}
  BY DEF Lists, Short, StageOf
<1>7. todo \notin Dropped /\ todo # ToRefresh
  BY DEF Dropped, ToRefresh
<1>8. made \in Nat
  BY DEF ProgressIInv, ProgressBase
<1>9. RequestOK(n, link, activity, made)
  BY <1>3, <1>5, <1>6, <1>7, <1>8, LiveExists DEF RequestOK
<1> QED BY <1>3, <1>9, QuietStart

\* The minutes of an appointment change: it owes its link the new ones.
LEMMA EditAppointmentStep ==
    ASSUME ProgressIInv, NEW c \in Clients, NEW p \in Appointments, NEW m \in Lengths,
           EditAppointment(c, p, m)
    PROVE  ProgressIInv'
<1>1. PICK todo : todo = ToRefresh
  OBVIOUS
<1>2. PICK n : n = [Idle EXCEPT !.todo = todo, !.appt = p, !.minutes = m]
  OBVIOUS
<1>3. /\ Begin(c, n) /\ appointment' = [appointment EXCEPT ![p] = m] /\ appointment[p] # 0
      /\ UNCHANGED <<link, activity, phase, made, overtaken, skewed, phaseOvertaken, byHand>>
  BY <1>1, <1>2, RefreshThen DEF EditAppointment, ToRefresh
<1>4. n = [todo |-> todo, of |-> Nothing, appt |-> p, minutes |-> m, linkId |-> 0,
           dto |-> Idle.dto, seen |-> << >>]
  BY <1>2 DEF Idle
<1>5. /\ IsRequest(n) /\ n.todo = todo /\ n.of = Nothing /\ n.appt = p /\ n.minutes = m
      /\ n.linkId = 0 /\ Stage(n) = StageOf(todo)
  BY <1>4, Fields
<1>6. todo \in Lists /\ StageOf(todo) = "findLink"
  BY <1>1 DEF Lists, Looking, StageOf, ToRefresh
<1>7. todo \notin Dropped
  BY <1>1 DEF Dropped, ToRefresh
<1>8. made \in Nat /\ ProgressBase
  BY DEF ProgressIInv, ProgressBase
<1>9. RequestOK(n, link, activity, made)
  BY <1>5, <1>6, <1>7, <1>8 DEF RequestOK
<1>10. request' = [request EXCEPT ![c] = n] /\ request[c] = Idle
  BY <1>3 DEF Begin
<1>11. /\ appointment' \in [Appointments -> {0} \cup Lengths]
       /\ \A q \in Appointments : appointment[q] # 0 => appointment'[q] # 0
       /\ \A q \in Appointments \ {p} : appointment'[q] = appointment[q]
  BY <1>3, <1>8, ProgressAssumption DEF ProgressBase
<1>12. ProgressBase'
  BY <1>3, <1>8, <1>9, <1>10, <1>11, QuietBase
<1>13. ASSUME NEW a \in Activities PROVE TotalAt(a)'
  <2>1. UNCHANGED <<link, activity[a]>> /\ (Live(a)' <=> Live(a)) /\ TotalAt(a)
    BY <1>3 DEF Live, ProgressIInv
  <2> QED BY <2>1, <1>3, <1>8, <1>10, NothingOwed, TotalSame, TotalKept
<1>14. ASSUME NEW q \in Appointments PROVE MinutesAt(q)'
  <2>1. MinutesAt(q)
    BY DEF ProgressIInv
  <2>2. CASE q = p
    <3>1. request'[c].appt = p /\ request'[c].todo = ToRefresh
      BY <1>1, <1>5, <1>8, <1>10, OneMoves
    <3> QED BY <3>1, <2>2 DEF MinutesAt, OwesMinutes
  <2>3. CASE q # p
    <3>1. UNCHANGED <<link[q], appointment[q]>>
      BY <2>3, <1>3, <1>11
    <3> QED BY <3>1, <2>1, <1>3, <1>8, <1>10, NothingOwed, MinutesKept
  <2> QED BY <2>2, <2>3
<1>15. PhaseFollows'
  BY <1>3, <1>8, <1>10, NothingOwed, PhaseSame, PhaseKept DEF ProgressIInv
<1> QED BY <1>12, <1>13, <1>14, <1>15 DEF ProgressIInv

LEMMA CreateAppointmentStep ==
    ASSUME ProgressIInv, NEW c \in Clients, NEW p \in Appointments, NEW a \in Activities,
           NEW m \in Lengths, CreateAppointment(c, p, a, m)
    PROVE  ProgressIInv'
<1>1. PICK todo : todo = <<"link", "readActivity", "writeActivity", "readPhase", "writePhase">>
  OBVIOUS
<1>2. PICK n : n = [Idle EXCEPT !.todo = todo, !.of = a, !.appt = p, !.minutes = m]
  OBVIOUS
<1>3. /\ Begin(c, n) /\ appointment' = [appointment EXCEPT ![p] = m] /\ appointment[p] = 0 /\ Live(a)
      /\ UNCHANGED <<link, activity, phase, made, overtaken, skewed, phaseOvertaken, byHand>>
  BY <1>1, <1>2, LinkThen DEF CreateAppointment
<1>4. n = [todo |-> todo, of |-> a, appt |-> p, minutes |-> m, linkId |-> 0,
           dto |-> Idle.dto, seen |-> << >>]
  BY <1>2 DEF Idle
<1>5. /\ IsRequest(n) /\ n.todo = todo /\ n.of = a /\ n.appt = p /\ n.minutes = m
      /\ n.linkId = 0 /\ Stage(n) = StageOf(todo)
  BY <1>4, Fields
<1>6. todo \in Lists /\ StageOf(todo) = "link"
  BY <1>1 DEF Lists, Linked, StageOf
<1>7. todo \notin Dropped
  BY <1>1 DEF Dropped
<1>8. made \in Nat /\ ProgressBase
  BY DEF ProgressIInv, ProgressBase
<1>9. RequestOK(n, link, activity, made)
  BY <1>3, <1>5, <1>6, <1>7, <1>8, LiveExists DEF RequestOK
<1>10. request' = [request EXCEPT ![c] = n] /\ request[c] = Idle
  BY <1>3 DEF Begin
<1>11. /\ appointment' \in [Appointments -> {0} \cup Lengths]
       /\ \A q \in Appointments : appointment[q] # 0 => appointment'[q] # 0
       /\ \A q \in Appointments \ {p} : appointment'[q] = appointment[q]
  BY <1>3, <1>8, ProgressAssumption DEF ProgressBase
<1>12. ProgressBase'
  BY <1>3, <1>8, <1>9, <1>10, <1>11, QuietBase
<1>13. ASSUME NEW b \in Activities PROVE TotalAt(b)'
  <2>1. UNCHANGED <<link, activity[b]>> /\ (Live(b)' <=> Live(b)) /\ TotalAt(b)
    BY <1>3 DEF Live, ProgressIInv
  <2> QED BY <2>1, <1>3, <1>8, <1>10, NothingOwed, TotalSame, TotalKept
<1>14. ASSUME NEW q \in Appointments PROVE MinutesAt(q)'
  <2>1. MinutesAt(q)
    BY DEF ProgressIInv
  <2>2. CASE q = p
    <3>1. link'[p] = Nothing
      BY <1>3, <1>8 DEF ProgressBase
    <3> QED BY <3>1, <2>2 DEF MinutesAt
  <2>3. CASE q # p
    <3>1. UNCHANGED <<link[q], appointment[q]>>
      BY <2>3, <1>3, <1>11
    <3> QED BY <3>1, <2>1, <1>3, <1>8, <1>10, NothingOwed, MinutesKept
  <2> QED BY <2>2, <2>3
<1>15. PhaseFollows'
  BY <1>3, <1>8, <1>10, NothingOwed, PhaseSame, PhaseKept DEF ProgressIInv
<1> QED BY <1>12, <1>13, <1>14, <1>15 DEF ProgressIInv

\* An activity that begins has no appointment linked to it.
LEMMA CreateActivityStep ==
    ASSUME ProgressIInv, NEW c \in Clients, NEW a \in Activities, NEW duration, NEW progress,
           CreateActivity(c, a, duration, progress)
    PROVE  ProgressIInv'
<1>1. PICK n : n = [Idle EXCEPT !.todo = SyncPhase, !.of = a]
  OBVIOUS
<1>2. PICK row : row = [exists |-> TRUE, deleted |-> FALSE, hours |-> 0, progress |-> progress,
                        duration |-> IF a \in Milestones THEN 0 ELSE duration]
  OBVIOUS
<1>3. /\ Begin(c, n) /\ activity' = [activity EXCEPT ![a] = row] /\ ~activity[a].exists
      /\ byHand' = (IF progress = 0 THEN byHand ELSE byHand \cup {a})
      /\ UNCHANGED <<appointment, link, phase, made, overtaken, skewed, phaseOvertaken>>
  BY <1>1, <1>2 DEF CreateActivity
<1>4. n = [todo |-> SyncPhase, of |-> a, appt |-> Nothing, minutes |-> 0, linkId |-> 0,
           dto |-> Idle.dto, seen |-> << >>]
  BY <1>1 DEF Idle
<1>5. IsRequest(n) /\ n.todo = SyncPhase /\ n.of = a /\ n.linkId = 0 /\ Stage(n) = StageOf(SyncPhase)
  BY <1>4, Fields
<1>6. SyncPhase \in Lists /\ StageOf(SyncPhase) = "readPhase"
  BY DEF Lists, Short, StageOf, SyncPhase
<1>7. SyncPhase \notin Dropped /\ SyncPhase # ToRefresh
  BY DEF Dropped, ToRefresh, SyncPhase
<1>8. made \in Nat /\ ProgressBase
  BY DEF ProgressIInv, ProgressBase
<1>9. row.exists /\ ~row.deleted /\ row.hours = 0 /\ row.progress = progress /\ IsActivity(row)
  BY <1>2 DEF IsActivity
<1>10. activity'[a] = row /\ \A b \in Activities \ {a} : activity'[b] = activity[b]
  BY <1>3, <1>8 DEF ProgressBase
<1>11. \A b \in Activities : activity[b].exists => activity'[b].exists
  BY <1>9, <1>10
<1>12. RequestOK(n, link', activity', made')
  BY <1>3, <1>5, <1>6, <1>7, <1>8, <1>9, <1>10 DEF RequestOK
<1>13. request' = [request EXCEPT ![c] = n] /\ request[c] = Idle
  BY <1>3 DEF Begin
<1>14. ProgressBase'
  <2>1. GoesOn(link, link', activity, activity', made, made')
    BY <1>3, <1>8, <1>11 DEF GoesOn, ProgressBase
  <2>2. /\ activity' = [b \in Activities |-> activity'[b]]
        /\ \A b \in Activities : IsActivity(activity'[b])
    BY <1>3, <1>8, <1>9, <1>10 DEF ProgressBase
  <2>3. /\ appointment' \in [Appointments -> {0} \cup Lengths]
        /\ link' \in [Appointments -> Link \cup {Nothing}]
        /\ \A p \in Appointments : link'[p] # Nothing =>
              link'[p].id <= made' /\ activity'[link'[p].of].exists /\ appointment'[p] # 0
    BY <1>3, <1>8, <1>11 DEF ProgressBase, Link
  <2> QED BY <2>1, <2>2, <2>3, <1>8, <1>12, <1>13, BaseGoesOn
<1>15. ASSUME NEW b \in Activities PROVE TotalAt(b)'
  <2>1. CASE b # a
    <3>1. UNCHANGED <<link, activity[b]>> /\ (Live(b)' <=> Live(b)) /\ TotalAt(b)
      BY <2>1, <1>3, <1>10 DEF Live, ProgressIInv
    <3>2. b \notin byHand' => b \notin byHand
      BY <1>3
    <3> QED BY <3>1, <3>2, <1>3, <1>8, <1>13, NothingOwed, TotalSame, TotalKept
  <2>2. CASE b = a
    <3>1. LinksOf(a)' = {}
      BY <1>3, <1>8 DEF LinksOf, ProgressBase
    <3>2. MinutesOf(a)' = 0 /\ Cardinality(LinksOf(a))' = 0
      BY <3>1, FS_EmptySet DEF MinutesOf
    <3>3. PICK m : m = (a \in Milestones)
      OBVIOUS
    <3>4. HoursFor(0) = 0 /\ (progress = 0 => ProgressFor(row, m, 0, 0) = 0)
      BY <1>9 DEF HoursFor, ProgressFor
    <3>5. a \notin byHand' => progress = 0
      BY <1>3
    <3>6. TotalHolds(a)'
      BY <1>9, <1>10, <3>2, <3>3, <3>4, <3>5 DEF TotalHolds
    <3> QED BY <3>6, <2>2 DEF TotalAt
  <2> QED BY <2>1, <2>2
<1>16. ASSUME NEW q \in Appointments PROVE MinutesAt(q)'
  <2>1. UNCHANGED <<link[q], appointment[q]>> /\ MinutesAt(q)
    BY <1>3 DEF ProgressIInv
  <2> QED BY <2>1, <1>3, <1>8, <1>13, NothingOwed, MinutesKept
<1>17. PhaseFollows'
  <2>1. OwesPhase(n)
    BY <1>5, <1>6 DEF OwesPhase
  <2> QED BY <2>1, <1>8, <1>13, PhaseKept DEF ProgressIInv
<1> QED BY <1>14, <1>15, <1>16, <1>17 DEF ProgressIInv

-----------------------------------------------------------------------------
(* Requests go on: the statements that only read.                          *)

LEMMA OwedAt ==
    ASSUME NEW r, r.todo # << >>
    PROVE  /\ Stage(r) # "findLink" => r.todo # ToRefresh
           /\ Stage(r) \notin {"findLink", "refresh"} => \A l : ~OwesMinutes(r, l)
           /\ Stage(r) \notin {"readActivity", "writeActivity"} => \A a : ~OwesTotal(r, a)
           /\ Stage(r) \notin {"readPhase", "writePhase"} => ~OwesPhase(r)
<1>1. ToRefresh # << >> /\ Head(ToRefresh) = "findLink"
  BY DEF ToRefresh
<1> QED BY <1>1 DEF OwesMinutes, OwesTotal, OwesPhase, Stage, StageOf

LEMMA ReadPhaseStep ==
    ASSUME ProgressIInv, NEW c \in Clients, ReadPhase(c)
    PROVE  ProgressIInv'
<1>1. PICK r : r = request[c]
  OBVIOUS
<1>0. PICK left, seen : left = Rest(c) /\ seen = PhaseAsRead
  OBVIOUS
<1>2. PICK n : n = [r EXCEPT !.todo = left, !.seen = seen]
  OBVIOUS
<1>3. /\ At(c, "readPhase") /\ request' = [request EXCEPT ![c] = n]
      /\ UNCHANGED <<appointment, link, activity, phase, made, overtaken, skewed, phaseOvertaken, byHand>>
  BY <1>0, <1>1, <1>2 DEF ReadPhase
<1>4. /\ RequestOK(r, link, activity, made) /\ r.todo # << >> /\ Stage(r) = "readPhase" /\ IsRequest(r)
      /\ NextOK(r.todo) /\ Rest(c) = Tail(r.todo)
  BY <1>1, <1>3, RequestAt DEF ProgressIInv
<1>5. n = [todo |-> left, of |-> r.of, appt |-> r.appt, minutes |-> r.minutes,
           linkId |-> r.linkId, dto |-> r.dto, seen |-> seen]
  BY <1>2, <1>4 DEF IsRequest
<1>6. /\ IsRequest(n) /\ n.todo = left /\ n.of = r.of /\ n.appt = r.appt /\ n.minutes = r.minutes
      /\ n.linkId = r.linkId /\ Stage(n) = StageOf(left)
  BY <1>5, Fields
<1>10. left = Tail(r.todo)
  BY <1>0, <1>4
<1>7. RequestOK(n, link, activity, made)
  BY <1>4, <1>6, <1>10, NextIsOK
<1>8. Stage(n) = "writePhase"
  BY <1>4, <1>6, <1>10 DEF NextOK, Stage, StageOf
<1>9. OwesPhase(n)
  BY <1>8 DEF OwesPhase
<1> QED BY <1>1, <1>3, <1>4, <1>7, <1>9, OwedAt, QuietStep

LEMMA ReadActivityStep ==
    ASSUME ProgressIInv, NEW c \in Clients, ReadActivity(c)
    PROVE  ProgressIInv'
<1>1. PICK r : r = request[c]
  OBVIOUS
<1>2. /\ At(c, "readActivity")
      /\ UNCHANGED <<appointment, link, activity, phase, made, overtaken, skewed, phaseOvertaken, byHand>>
  BY DEF ReadActivity
<1>3. /\ RequestOK(r, link, activity, made) /\ r.todo # << >> /\ Stage(r) = "readActivity" /\ IsRequest(r)
      /\ NextOK(r.todo) /\ Rest(c) = Tail(r.todo) /\ made \in Nat
  BY <1>1, <1>2, RequestAt DEF ProgressIInv
<1>4. CASE Live(r.of)
  <2>0. PICK left, seen : left = Rest(c) /\ seen = ActivityAsRead(r.of)
    OBVIOUS
  <2>1. PICK n : n = [r EXCEPT !.todo = left, !.seen = seen]
    OBVIOUS
  <2>2. request' = [request EXCEPT ![c] = n]
    BY <1>1, <1>4, <2>0, <2>1 DEF ReadActivity
  <2>3. n = [todo |-> left, of |-> r.of, appt |-> r.appt, minutes |-> r.minutes,
             linkId |-> r.linkId, dto |-> r.dto, seen |-> seen]
    BY <1>3, <2>1 DEF IsRequest
  <2>4. /\ IsRequest(n) /\ n.todo = left /\ n.of = r.of /\ n.appt = r.appt /\ n.minutes = r.minutes
        /\ n.linkId = r.linkId /\ Stage(n) = StageOf(left)
    BY <2>3, Fields
  <2>8. left = Tail(r.todo)
    BY <1>3, <2>0
  <2>5. RequestOK(n, link, activity, made)
    BY <1>3, <2>4, <2>8, NextIsOK
  <2>6. Stage(n) = "writeActivity"
    BY <1>3, <2>4, <2>8 DEF NextOK, Stage, StageOf
  <2>7. \A a \in Activities : OwesTotal(r, a) => OwesTotal(n, a)
    BY <2>4, <2>6 DEF OwesTotal
  <2> QED BY <1>1, <1>2, <1>3, <2>2, <2>5, <2>7, OwedAt, QuietStep
<1>5. CASE ~Live(r.of)
  <2>1. PICK steps : steps = Skip(Tail(r.todo))
    OBVIOUS
  <2>2. GoOn(c, steps)
    BY <1>1, <1>3, <1>5, <2>1 DEF ReadActivity, Skip
  <2>3. PICK n : n = After(r, steps)
    OBVIOUS
  <2>4. request' = [request EXCEPT ![c] = n]
    BY <1>1, <2>2, <2>3, GoesOnWith
  <2>5. RequestOK(n, link, activity, made)
    BY <1>3, <2>1, <2>3, AfterIsOK
  <2>6. \A a \in Activities : Live(a) => ~OwesTotal(r, a)
    BY <1>5 DEF OwesTotal
  <2> QED BY <1>1, <1>2, <1>3, <2>4, <2>5, <2>6, OwedAt, QuietStep
<1> QED BY <1>4, <1>5

LEMMA CheckPredecessorsStep ==
    ASSUME ProgressIInv, NEW c \in Clients, CheckPredecessors(c)
    PROVE  ProgressIInv'
<1>1. PICK r : r = request[c]
  OBVIOUS
<1>2. /\ At(c, "predecessors")
      /\ UNCHANGED <<appointment, link, activity, phase, made, overtaken, skewed, phaseOvertaken, byHand>>
  BY DEF CheckPredecessors
<1>3. /\ RequestOK(r, link, activity, made) /\ r.todo # << >> /\ Stage(r) = "predecessors" /\ IsRequest(r)
      /\ NextOK(r.todo) /\ Rest(c) = Tail(r.todo) /\ made \in Nat
  BY <1>1, <1>2, RequestAt DEF ProgressIInv
<1>4. PICK steps \in {Tail(r.todo), << >>} : GoOn(c, steps)
  BY <1>3 DEF CheckPredecessors
<1>5. PICK n : n = After(r, steps)
  OBVIOUS
<1>6. request' = [request EXCEPT ![c] = n]
  BY <1>1, <1>4, <1>5, GoesOnWith
<1>7. RequestOK(n, link, activity, made)
  BY <1>3, <1>5, AfterIsOK
<1> QED BY <1>1, <1>2, <1>3, <1>6, <1>7, OwedAt, QuietStep

LEMMA FindLinkStep ==
    ASSUME ProgressIInv, NEW c \in Clients, FindLink(c)
    PROVE  ProgressIInv'
<1>1. PICK r : r = request[c]
  OBVIOUS
<1>2. /\ At(c, "findLink")
      /\ UNCHANGED <<appointment, link, activity, phase, made, overtaken, skewed, phaseOvertaken, byHand>>
  BY DEF FindLink
<1>3. /\ RequestOK(r, link, activity, made) /\ r.todo # << >> /\ Stage(r) = "findLink" /\ IsRequest(r)
      /\ NextOK(r.todo) /\ Rest(c) = Tail(r.todo) /\ made \in Nat
  BY <1>1, <1>2, RequestAt DEF ProgressIInv
<1>4. PICK p : p = r.appt
  OBVIOUS
<1>5. p \in Appointments /\ (r.todo = ToRefresh => r.minutes \in Lengths)
  BY <1>3, <1>4 DEF RequestOK
<1>6. (\A a \in Activities : ~OwesTotal(r, a)) /\ ~OwesPhase(r)
  BY <1>3, OwedAt
<1>7. CASE link[p] # Nothing
  <2>1. PICK left : left = Tail(r.todo)
    OBVIOUS
  <2>2. PICK n : n = [r EXCEPT !.todo = left, !.of = link[p].of, !.linkId = link[p].id]
    OBVIOUS
  <2>3. request' = [request EXCEPT ![c] = n]
    BY <1>1, <1>3, <1>4, <1>7, <2>1, <2>2 DEF FindLink
  <2>4. n = [todo |-> left, of |-> link[p].of, appt |-> p, minutes |-> r.minutes,
             linkId |-> link[p].id, dto |-> r.dto, seen |-> r.seen]
    BY <1>3, <1>4, <2>2 DEF IsRequest
  <2>5. /\ IsRequest(n) /\ n.todo = left /\ n.of = link[p].of /\ n.appt = p /\ n.minutes = r.minutes
        /\ n.linkId = link[p].id /\ Stage(n) = StageOf(left)
    BY <2>4, Fields
  <2>6. left \in Lists /\ StageOf(left) \in {"refresh", "dropLink"} /\ (StageOf(left) = "refresh" <=> r.todo = ToRefresh)
    BY <1>3, <2>1 DEF NextOK, Stage, StageOf
  <2>7. left \notin Dropped /\ left # ToRefresh
    <3>1. \A t \in Dropped : t # << >> /\ Head(t) \in {"readActivity", "writeActivity", "readPhase", "writePhase", "deleteAppointment"}
      BY DEF Dropped
    <3>2. ToRefresh # << >> /\ Head(ToRefresh) = "findLink"
      BY DEF ToRefresh
    <3> QED BY <3>1, <3>2, <2>6 DEF StageOf
  <2>8. /\ link[p].id \in Nat /\ link[p].id <= made /\ link[p].of \in Activities
        /\ activity[link[p].of].exists /\ link[p].of # Nothing
    BY <1>5, <1>7, ProgressAssumption DEF ProgressIInv, ProgressBase, Link
  <2>9. RequestOK(n, link, activity, made)
    BY <1>5, <2>5, <2>6, <2>7, <2>8 DEF RequestOK
  <2>10. \A q \in Appointments : link[q] # Nothing /\ r.appt = q /\ OwesMinutes(r, link[q])
              => n.appt = q /\ OwesMinutes(n, link[q])
    BY <1>3, <1>4, <2>5, <2>6 DEF OwesMinutes
  <2> QED BY <1>1, <1>2, <1>6, <2>3, <2>9, <2>10, QuietStep
<1>8. CASE link[p] = Nothing /\ HasYetTo(c, "deleteAppointment")
  <2>1. PICK left : left = <<"deleteAppointment">>
    OBVIOUS
  <2>2. PICK n : n = [r EXCEPT !.todo = left, !.linkId = made]
    OBVIOUS
  <2>3. request' = [request EXCEPT ![c] = n]
    BY <1>1, <1>3, <1>4, <1>8, <2>1, <2>2 DEF FindLink
  <2>4. n = [todo |-> left, of |-> r.of, appt |-> p, minutes |-> r.minutes,
             linkId |-> made, dto |-> r.dto, seen |-> r.seen]
    BY <1>3, <1>4, <2>2 DEF IsRequest
  <2>5. /\ IsRequest(n) /\ n.todo = left /\ n.of = r.of /\ n.appt = p /\ n.minutes = r.minutes
        /\ n.linkId = made /\ Stage(n) = StageOf(left)
    BY <2>4, Fields
  <2>6. left \in Lists /\ StageOf(left) = "deleteAppointment" /\ left # ToRefresh
    BY <2>1 DEF Lists, Dropped, StageOf, ToRefresh
  <2>7. RequestOK(n, link, activity, made)
    BY <1>3, <1>5, <1>8, <2>5, <2>6 DEF RequestOK
  <2>8. \A q \in Appointments : ~(link[q] # Nothing /\ r.appt = q)
    BY <1>4, <1>8
  <2> QED BY <1>1, <1>2, <1>6, <2>3, <2>7, <2>8, QuietStep
<1>9. CASE link[p] = Nothing /\ ~HasYetTo(c, "deleteAppointment")
  <2>1. request' = [request EXCEPT ![c] = Idle]
    BY <1>1, <1>4, <1>9 DEF FindLink
  <2>2. RequestOK(Idle, link, activity, made)
    BY <1>3, IdleIsOK
  <2>3. \A q \in Appointments : ~(link[q] # Nothing /\ r.appt = q)
    BY <1>4, <1>9
  <2> QED BY <1>1, <1>2, <1>6, <2>1, <2>2, <2>3, QuietStep
<1> QED BY <1>7, <1>8, <1>9

-----------------------------------------------------------------------------
(* The statements that change a link.                                      *)

\* Only the activity p was linked to, or is linked to now, owes a total.
LEMMA OtherLinks ==
    ASSUME NEW p \in Appointments, NEW l, NEW a, link' = [link EXCEPT ![p] = l],
           link = [q \in Appointments |-> link[q]],
           link[p] # Nothing => link[p].of # a, l # Nothing => l.of # a
    PROVE  LinksOf(a)' = LinksOf(a) /\ MinutesOf(a)' = MinutesOf(a)
<1>1. link'[p] = l /\ \A q \in Appointments \ {p} : link'[q] = link[q]
  OBVIOUS
<1>2. ASSUME NEW q \in Appointments
      PROVE  /\ (q \in LinksOf(a))' <=> q \in LinksOf(a)
             /\ q \in LinksOf(a) => link'[q].minutes = link[q].minutes
  BY <1>1, <1>2 DEF LinksOf
<1> QED BY <1>2, LinksSame

\* A request r makes l of the link of its appointment p, and goes on as n: it
\* leaves its activity to recalculate.
LinkMoves(c, r, n, p, l) ==
    /\ r = request[c] /\ r.todo # << >> /\ Stage(r) \in {"link", "unlink", "dropLink", "refresh"}
    /\ r.appt = p /\ p \in Appointments
    /\ request' = [request EXCEPT ![c] = n] /\ Stage(n) = "readActivity" /\ n.of = r.of
    /\ link' = [link EXCEPT ![p] = l]
    /\ link[p] # Nothing => link[p].of = r.of
    /\ l # Nothing => l.of = r.of
    /\ l # Nothing /\ p \notin skewed' => l.minutes = appointment[p]
    /\ \A q \in Appointments \ {p} : q \notin skewed' => q \notin skewed
    /\ UNCHANGED <<appointment, activity, phase, overtaken, phaseOvertaken, byHand>>

LEMMA LinkChanges ==
    ASSUME ProgressIInv, NEW c \in Clients, NEW r, NEW n, NEW p, NEW l, LinkMoves(c, r, n, p, l),
           ProgressBase'
    PROVE  ProgressIInv'
<1> USE DEF LinkMoves
<1>1. ProgressBase /\ link = [q \in Appointments |-> link[q]]
  BY DEF ProgressIInv, ProgressBase
<1>2. link'[p] = l /\ \A q \in Appointments \ {p} : link'[q] = link[q]
  BY <1>1
<1>3. ASSUME NEW a \in Activities PROVE TotalAt(a)'
  <2>1. TotalAt(a) /\ (Live(a)' <=> Live(a)) /\ ~OwesTotal(r, a)
    BY OwedAt DEF Live, ProgressIInv
  <2>2. CASE a = r.of
    <3>1. OwesTotal(n, a)
      BY <2>2 DEF OwesTotal
    <3> QED BY <3>1, <2>1, <1>1, TotalKept
  <2>3. CASE a # r.of
    <3>1. LinksOf(a)' = LinksOf(a) /\ MinutesOf(a)' = MinutesOf(a)
      BY <2>3, <1>1, OtherLinks
    <3>2. TotalHolds(a) => TotalHolds(a)'
      BY <3>1 DEF TotalHolds
    <3> QED BY <3>2, <2>1, <1>1, TotalKept
  <2> QED BY <2>2, <2>3
<1>4. ASSUME NEW q \in Appointments PROVE MinutesAt(q)'
  <2>1. CASE q = p
    <3>1. l # Nothing /\ p \notin skewed' => l.minutes = appointment'[p]
      OBVIOUS
    <3> QED BY <3>1, <2>1, <1>2 DEF MinutesAt
  <2>2. CASE q # p
    <3>1. UNCHANGED <<link[q], appointment[q]>> /\ MinutesAt(q)
      BY <2>2, <1>2 DEF ProgressIInv
    <3>2. request[c].appt # q
      BY <2>2
    <3>3. q \notin skewed' => q \notin skewed
      BY <2>2
    <3> QED BY <3>1, <3>2, <3>3, <1>1, MinutesKept
  <2> QED BY <2>1, <2>2
<1>5. PhaseFollows'
  <2>1. PhaseFollows /\ ~OwesPhase(r)
    BY OwedAt DEF ProgressIInv
  <2> QED BY <2>1, <1>1, PhaseSame, PhaseKept
<1> QED BY <1>3, <1>4, <1>5 DEF ProgressIInv

\* A request ends without having changed anything.
LEMMA EndsQuietly ==
    ASSUME ProgressIInv, NEW c \in Clients, NEW r, r = request[c], r.todo # << >>,
           GoOn(c, << >>),
           Stage(r) \in {"link", "unlink", "dropLink", "refresh"},
           Stage(r) = "refresh" => ~(link[r.appt] # Nothing /\ link[r.appt].id = r.linkId),
           UNCHANGED <<appointment, link, activity, phase, made, overtaken, skewed, phaseOvertaken, byHand>>
    PROVE  ProgressIInv'
<1>1. request' = [request EXCEPT ![c] = Idle]
  BY GoesOnWith DEF After
<1>2. RequestOK(Idle, link, activity, made)
  BY IdleIsOK DEF ProgressIInv, ProgressBase
<1>3. ~OwesPhase(r) /\ (\A a \in Activities : ~OwesTotal(r, a)) /\ r.todo # ToRefresh
  BY OwedAt
<1>4. \A p \in Appointments : ~(link[p] # Nothing /\ r.appt = p /\ OwesMinutes(r, link[p]))
  BY <1>3 DEF OwesMinutes
<1> QED BY <1>1, <1>2, <1>3, <1>4, QuietStep

LEMMA MakeLinkStep ==
    ASSUME ProgressIInv, NEW c \in Clients, MakeLink(c)
    PROVE  ProgressIInv'
<1>1. PICK r : r = request[c]
  OBVIOUS
<1>2. /\ At(c, "link")
      /\ UNCHANGED <<appointment, activity, phase, overtaken, phaseOvertaken, byHand>>
  BY DEF MakeLink
<1>3. /\ RequestOK(r, link, activity, made) /\ r.todo # << >> /\ Stage(r) = "link" /\ IsRequest(r)
      /\ NextOK(r.todo) /\ Rest(c) = Tail(r.todo) /\ made \in Nat /\ ProgressBase
  BY <1>1, <1>2, RequestAt DEF ProgressIInv
<1>4. PICK p : p = r.appt
  OBVIOUS
<1>5. /\ p \in Appointments /\ r.minutes \in Lengths /\ r.of \in Activities /\ activity[r.of].exists
      /\ Nothing \notin Link
  BY <1>3, <1>4, ProgressAssumption DEF RequestOK
<1>6. CASE link[p] # Nothing \/ appointment[p] = 0
  <2>1. GoOn(c, << >>) /\ UNCHANGED <<link, made, skewed>>
    BY <1>1, <1>4, <1>6 DEF MakeLink
  <2>2. UNCHANGED <<appointment, link, activity, phase, made, overtaken, skewed, phaseOvertaken, byHand>>
    BY <2>1, <1>2
  <2>3. /\ Stage(r) \in {"link", "unlink", "dropLink", "refresh"}
        /\ Stage(r) = "refresh" => ~(link[r.appt] # Nothing /\ link[r.appt].id = r.linkId)
    BY <1>3, <1>4, <1>6
  <2> QED BY <2>1, <2>2, <2>3, <1>1, <1>3, EndsQuietly
<1>7. CASE link[p] = Nothing /\ appointment[p] # 0
  <2>1. PICK l : l = [id |-> made + 1, of |-> r.of, minutes |-> r.minutes]
    OBVIOUS
  <2>2. l \in Link /\ l.of = r.of /\ l.minutes = r.minutes /\ l.id = made + 1
    BY <2>1, <1>3, <1>5 DEF Link
  <2>3. /\ made' = made + 1 /\ link' = [link EXCEPT ![p] = l] /\ GoOn(c, Rest(c))
        /\ skewed' = (IF r.minutes = appointment[p] THEN skewed \ {p} ELSE skewed \cup {p})
    BY <1>1, <1>4, <1>7, <2>1 DEF MakeLink
  <2>4. PICK steps : steps = Tail(r.todo)
    OBVIOUS
  <2>5. PICK n : n = After(r, steps)
    OBVIOUS
  <2>6. request' = [request EXCEPT ![c] = n]
    BY <1>1, <1>3, <2>3, <2>4, <2>5, GoesOnWith
  <2>7. StageOf(steps) = "readActivity" /\ steps # << >>
    BY <1>3, <2>4 DEF NextOK, Stage, StageOf
  <2>8. Stage(n) = "readActivity" /\ n.of = r.of
    BY <1>3, <2>5, <2>7, AfterIs
  <2>9. link'[p] = l /\ \A q \in Appointments \ {p} : link'[q] = link[q]
    BY <2>3, <1>3, <1>5 DEF ProgressBase
  <2>10. GoesOn(link, link', activity, activity', made, made')
    BY <2>2, <2>3, <2>9, <1>2, <1>3 DEF GoesOn
  <2>11. RequestOK(n, link', activity', made')
    <3>1. RequestOK(n, link, activity, made)
      BY <1>3, <2>4, <2>5, AfterIsOK
    <3> QED BY <3>1, <2>10, <1>3, RequestGoesOn
  <2>12. ProgressBase'
    <3>1. link' \in [Appointments -> Link \cup {Nothing}] /\ appointment' \in [Appointments -> {0} \cup Lengths]
      BY <2>2, <2>3, <1>2, <1>3 DEF ProgressBase
    <3>2. ASSUME NEW q \in Appointments, link'[q] # Nothing
          PROVE  link'[q].id <= made' /\ activity'[link'[q].of].exists /\ appointment'[q] # 0
      BY <3>2, <2>2, <2>3, <2>9, <1>2, <1>3, <1>5, <1>7 DEF ProgressBase, Link
    <3>3. /\ activity' = [a \in Activities |-> activity'[a]]
          /\ \A a \in Activities : IsActivity(activity'[a])
      BY <1>2, <1>3 DEF ProgressBase
    <3> QED BY <3>1, <3>2, <3>3, <2>6, <2>10, <2>11, <1>3, BaseGoesOn
  <2>13. /\ p \notin skewed' => l.minutes = appointment[p]
         /\ \A q \in Appointments \ {p} : q \notin skewed' => q \notin skewed
    BY <2>2, <2>3
  <2>14. LinkMoves(c, r, n, p, l)
    BY <1>1, <1>2, <1>3, <1>4, <1>5, <1>7, <2>2, <2>3, <2>6, <2>8, <2>13 DEF LinkMoves
  <2> QED BY <2>12, <2>14, LinkChanges
<1> QED BY <1>6, <1>7

LEMMA DropLinkStep ==
    ASSUME ProgressIInv, NEW c \in Clients, DropLink(c)
    PROVE  ProgressIInv'
<1>1. PICK r : r = request[c]
  OBVIOUS
<1>2. /\ At(c, "unlink") \/ At(c, "dropLink")
      /\ UNCHANGED <<appointment, activity, phase, overtaken, skewed, phaseOvertaken, byHand, made>>
  BY DEF DropLink
<1>3. /\ RequestOK(r, link, activity, made) /\ r.todo # << >> /\ Stage(r) \in {"unlink", "dropLink"} /\ IsRequest(r)
      /\ NextOK(r.todo) /\ Rest(c) = Tail(r.todo) /\ made \in Nat /\ ProgressBase
  BY <1>1, <1>2, RequestAt DEF ProgressIInv
<1>4. PICK p : p = r.appt
  OBVIOUS
<1>5. p \in Appointments /\ r.of \in Activities
  BY <1>3, <1>4 DEF RequestOK
<1>6. CASE ~(link[p] # Nothing /\ link[p].id = r.linkId)
  <2>1. GoOn(c, << >>) /\ UNCHANGED link
    BY <1>1, <1>4, <1>6 DEF DropLink
  <2>2. UNCHANGED <<appointment, link, activity, phase, made, overtaken, skewed, phaseOvertaken, byHand>>
    BY <2>1, <1>2
  <2>3. /\ Stage(r) \in {"link", "unlink", "dropLink", "refresh"}
        /\ Stage(r) = "refresh" => ~(link[r.appt] # Nothing /\ link[r.appt].id = r.linkId)
    BY <1>3, <1>4, <1>6
  <2> QED BY <2>1, <2>2, <2>3, <1>1, <1>3, EndsQuietly
<1>7. CASE link[p] # Nothing /\ link[p].id = r.linkId
  <2>2. link[p].of = r.of
    BY <1>3, <1>4, <1>7 DEF RequestOK
  <2>3. link' = [link EXCEPT ![p] = Nothing] /\ GoOn(c, Rest(c))
    BY <1>1, <1>4, <1>7 DEF DropLink
  <2>4. PICK steps : steps = Tail(r.todo)
    OBVIOUS
  <2>5. PICK n : n = After(r, steps)
    OBVIOUS
  <2>6. request' = [request EXCEPT ![c] = n]
    BY <1>1, <1>3, <2>3, <2>4, <2>5, GoesOnWith
  <2>7. StageOf(steps) = "readActivity" /\ steps # << >>
    BY <1>3, <2>4 DEF NextOK, Stage, StageOf
  <2>8. Stage(n) = "readActivity" /\ n.of = r.of
    BY <1>3, <2>5, <2>7, AfterIs
  <2>9. link'[p] = Nothing /\ \A q \in Appointments \ {p} : link'[q] = link[q]
    BY <2>3, <1>3, <1>5 DEF ProgressBase
  <2>10. GoesOn(link, link', activity, activity', made, made')
    BY <2>3, <2>9, <1>2, <1>3 DEF GoesOn
  <2>11. RequestOK(n, link', activity', made')
    <3>1. RequestOK(r, link', activity', made')
      BY <2>10, <1>3, RequestGoesOn
    <3>2. made' \in Nat /\ link'[r.appt] = Nothing
      BY <1>2, <1>3, <1>4, <2>9
    <3> QED BY <3>1, <3>2, <1>3, <2>4, <2>5, AfterIsOK
  <2>12. ProgressBase'
    <3>1. link' \in [Appointments -> Link \cup {Nothing}] /\ appointment' \in [Appointments -> {0} \cup Lengths]
      BY <2>3, <1>2, <1>3 DEF ProgressBase
    <3>2. ASSUME NEW q \in Appointments, link'[q] # Nothing
          PROVE  link'[q].id <= made' /\ activity'[link'[q].of].exists /\ appointment'[q] # 0
      BY <3>2, <2>9, <1>2, <1>3, <1>5 DEF ProgressBase
    <3>3. /\ activity' = [a \in Activities |-> activity'[a]]
          /\ \A a \in Activities : IsActivity(activity'[a])
      BY <1>2, <1>3 DEF ProgressBase
    <3> QED BY <3>1, <3>2, <3>3, <2>6, <2>10, <2>11, <1>3, BaseGoesOn
  <2>14. LinkMoves(c, r, n, p, Nothing)
    BY <1>1, <1>2, <1>3, <1>4, <1>5, <2>2, <2>3, <2>6, <2>8 DEF LinkMoves
  <2> QED BY <2>12, <2>14, LinkChanges
<1> QED BY <1>6, <1>7

LEMMA RefreshLinkStep ==
    ASSUME ProgressIInv, NEW c \in Clients, RefreshLink(c)
    PROVE  ProgressIInv'
<1>1. PICK r : r = request[c]
  OBVIOUS
<1>2. /\ At(c, "refresh")
      /\ UNCHANGED <<appointment, activity, phase, overtaken, phaseOvertaken, byHand, made>>
  BY DEF RefreshLink
<1>3. /\ RequestOK(r, link, activity, made) /\ r.todo # << >> /\ Stage(r) = "refresh" /\ IsRequest(r)
      /\ NextOK(r.todo) /\ Rest(c) = Tail(r.todo) /\ made \in Nat /\ ProgressBase
  BY <1>1, <1>2, RequestAt DEF ProgressIInv
<1>4. PICK p : p = r.appt
  OBVIOUS
<1>5. p \in Appointments /\ r.of \in Activities /\ r.minutes \in Lengths /\ Nothing \notin Link
  BY <1>3, <1>4, ProgressAssumption DEF RequestOK
<1>6. CASE ~(link[p] # Nothing /\ link[p].id = r.linkId)
  <2>1. GoOn(c, << >>) /\ UNCHANGED <<link, skewed>>
    BY <1>1, <1>4, <1>6 DEF RefreshLink
  <2>2. UNCHANGED <<appointment, link, activity, phase, made, overtaken, skewed, phaseOvertaken, byHand>>
    BY <2>1, <1>2
  <2>3. /\ Stage(r) \in {"link", "unlink", "dropLink", "refresh"}
        /\ Stage(r) = "refresh" => ~(link[r.appt] # Nothing /\ link[r.appt].id = r.linkId)
    BY <1>3, <1>4, <1>6
  <2> QED BY <2>1, <2>2, <2>3, <1>1, <1>3, <1>4, <1>6, EndsQuietly
<1>7. CASE link[p] # Nothing /\ link[p].id = r.linkId
  <2>1. PICK l : l = [link[p] EXCEPT !.minutes = r.minutes]
    OBVIOUS
  <2>2. l \in Link /\ l.of = r.of /\ l.minutes = r.minutes /\ l.id = link[p].id /\ link[p].of = r.of
    BY <1>3, <1>4, <1>5, <1>7, <2>1 DEF RequestOK, ProgressBase, Link
  <2>3. /\ link' = [link EXCEPT ![p] = l] /\ GoOn(c, Rest(c))
        /\ skewed' = (IF r.minutes = appointment[p] THEN skewed \ {p} ELSE skewed \cup {p})
    BY <1>1, <1>4, <1>7, <2>1 DEF RefreshLink
  <2>4. PICK steps : steps = Tail(r.todo)
    OBVIOUS
  <2>5. PICK n : n = After(r, steps)
    OBVIOUS
  <2>6. request' = [request EXCEPT ![c] = n]
    BY <1>1, <1>3, <2>3, <2>4, <2>5, GoesOnWith
  <2>7. StageOf(steps) = "readActivity" /\ steps # << >>
    BY <1>3, <2>4 DEF NextOK, Stage, StageOf
  <2>8. Stage(n) = "readActivity" /\ n.of = r.of
    BY <1>3, <2>5, <2>7, AfterIs
  <2>9. link'[p] = l /\ \A q \in Appointments \ {p} : link'[q] = link[q]
    BY <2>3, <1>3, <1>5 DEF ProgressBase
  <2>10. GoesOn(link, link', activity, activity', made, made')
    BY <2>2, <2>3, <2>9, <1>2, <1>3, <1>7 DEF GoesOn
  <2>11. RequestOK(n, link', activity', made')
    <3>1. RequestOK(n, link, activity, made)
      BY <1>3, <2>4, <2>5, AfterIsOK
    <3> QED BY <3>1, <2>10, <1>3, RequestGoesOn
  <2>12. ProgressBase'
    <3>1. link' \in [Appointments -> Link \cup {Nothing}] /\ appointment' \in [Appointments -> {0} \cup Lengths]
      BY <2>2, <2>3, <1>2, <1>3 DEF ProgressBase
    <3>2. ASSUME NEW q \in Appointments, link'[q] # Nothing
          PROVE  link'[q].id <= made' /\ activity'[link'[q].of].exists /\ appointment'[q] # 0
      BY <3>2, <2>2, <2>9, <1>2, <1>3, <1>5, <1>7 DEF ProgressBase
    <3>3. /\ activity' = [a \in Activities |-> activity'[a]]
          /\ \A a \in Activities : IsActivity(activity'[a])
      BY <1>2, <1>3 DEF ProgressBase
    <3> QED BY <3>1, <3>2, <3>3, <2>6, <2>10, <2>11, <1>3, BaseGoesOn
  <2>13. /\ p \notin skewed' => l.minutes = appointment[p]
         /\ \A q \in Appointments \ {p} : q \notin skewed' => q \notin skewed
    BY <2>2, <2>3
  <2>14. LinkMoves(c, r, n, p, l)
    BY <1>1, <1>2, <1>3, <1>4, <1>5, <1>7, <2>2, <2>3, <2>6, <2>8, <2>13 DEF LinkMoves
  <2> QED BY <2>12, <2>14, LinkChanges
<1> QED BY <1>6, <1>7

\* The link that goes with the row of its appointment was made after the look.
LEMMA DeleteAppointmentRowStep ==
    ASSUME ProgressIInv, NEW c \in Clients, DeleteAppointmentRow(c)
    PROVE  ProgressIInv'
<1>1. PICK r : r = request[c]
  OBVIOUS
<1>2. /\ At(c, "deleteAppointment")
      /\ UNCHANGED <<activity, phase, phaseOvertaken, byHand, made>>
  BY DEF DeleteAppointmentRow
<1>3. /\ RequestOK(r, link, activity, made) /\ r.todo # << >> /\ Stage(r) = "deleteAppointment" /\ IsRequest(r)
      /\ NextOK(r.todo) /\ Rest(c) = Tail(r.todo) /\ made \in Nat /\ ProgressBase
  BY <1>1, <1>2, RequestAt DEF ProgressIInv
<1>4. PICK p : p = r.appt
  OBVIOUS
<1>5. r.todo \in Dropped /\ Tail(r.todo) = << >>
  <2>1. \A t \in Linked \cup Looking \cup Short : t # << >> /\ Head(t) # "deleteAppointment"
    BY DEF Linked, Looking, Short
  <2> QED BY <2>1, <1>3 DEF RequestOK, Lists, NextOK, Stage, StageOf
<1>6. p \in Appointments /\ (link[p] # Nothing => link[p].id > r.linkId)
  BY <1>3, <1>4, <1>5 DEF RequestOK
<1>7. /\ appointment' = [appointment EXCEPT ![p] = 0] /\ link' = [link EXCEPT ![p] = Nothing]
      /\ overtaken' = (IF link[p] # Nothing THEN overtaken \cup {link[p].of} ELSE overtaken)
      /\ skewed' = skewed \ {p} /\ GoOn(c, << >>)
  BY <1>1, <1>3, <1>4, <1>5, <1>6 DEF DeleteAppointmentRow
<1>8. request' = [request EXCEPT ![c] = Idle]
  BY <1>1, <1>7, GoesOnWith DEF After
<1>9. /\ link'[p] = Nothing /\ \A q \in Appointments \ {p} : link'[q] = link[q]
      /\ \A q \in Appointments \ {p} : appointment'[q] = appointment[q]
  BY <1>3, <1>6, <1>7 DEF ProgressBase
<1>10. ~OwesPhase(r) /\ (\A a \in Activities : ~OwesTotal(r, a)) /\ \A l : ~OwesMinutes(r, l)
  BY <1>3, OwedAt
<1>11. ProgressBase'
  <2>1. GoesOn(link, link', activity, activity', made, made')
    BY <1>2, <1>3, <1>9 DEF GoesOn
  <2>2. RequestOK(Idle, link', activity', made')
    BY <1>2, <1>3, IdleIsOK
  <2>3. link' \in [Appointments -> Link \cup {Nothing}] /\ appointment' \in [Appointments -> {0} \cup Lengths]
    BY <1>7, <1>3 DEF ProgressBase
  <2>4. ASSUME NEW q \in Appointments, link'[q] # Nothing
        PROVE  link'[q].id <= made' /\ activity'[link'[q].of].exists /\ appointment'[q] # 0
    BY <2>4, <1>2, <1>3, <1>9 DEF ProgressBase
  <2>5. /\ activity' = [a \in Activities |-> activity'[a]]
        /\ \A a \in Activities : IsActivity(activity'[a])
    BY <1>2, <1>3 DEF ProgressBase
  <2> QED BY <2>1, <2>2, <2>3, <2>4, <2>5, <1>3, <1>8, BaseGoesOn
<1>12. ASSUME NEW a \in Activities PROVE TotalAt(a)'
  <2>1. TotalAt(a) /\ (Live(a)' <=> Live(a)) /\ ~OwesTotal(r, a)
    BY <1>2, <1>10 DEF Live, ProgressIInv
  <2>2. CASE link[p] # Nothing /\ link[p].of = a
    <3>1. a \in overtaken'
      BY <2>2, <1>7
    <3> QED BY <3>1 DEF TotalAt
  <2>3. CASE ~(link[p] # Nothing /\ link[p].of = a)
    <3>1. link = [q \in Appointments |-> link[q]]
      BY <1>3 DEF ProgressBase
    <3>2. LinksOf(a)' = LinksOf(a) /\ MinutesOf(a)' = MinutesOf(a)
      BY <2>3, <3>1, <1>6, <1>7, OtherLinks
    <3>3. TotalHolds(a) => TotalHolds(a)'
      BY <3>2, <1>2 DEF TotalHolds
    <3>4. a \notin overtaken' => a \notin overtaken
      BY <1>7
    <3> QED BY <3>3, <3>4, <2>1, <1>1, <1>3, <1>8, TotalKept
  <2> QED BY <2>2, <2>3
<1>13. ASSUME NEW q \in Appointments PROVE MinutesAt(q)'
  <2>1. CASE q = p
    BY <2>1, <1>9 DEF MinutesAt
  <2>2. CASE q # p
    <3>1. UNCHANGED <<link[q], appointment[q]>> /\ MinutesAt(q)
      BY <2>2, <1>9 DEF ProgressIInv
    <3>2. q \notin skewed' => q \notin skewed
      BY <2>2, <1>7
    <3> QED BY <3>1, <3>2, <1>1, <1>3, <1>8, <1>10, MinutesKept
  <2> QED BY <2>1, <2>2
<1>14. PhaseFollows'
  <2>1. PhaseFollows
    BY DEF ProgressIInv
  <2> QED BY <2>1, <1>1, <1>2, <1>3, <1>8, <1>10, PhaseSame, PhaseKept
<1> QED BY <1>11, <1>12, <1>13, <1>14 DEF ProgressIInv

-----------------------------------------------------------------------------
(* The statements that write an activity or the phase.                     *)

\* A request r writes the row of an activity that exists, and goes on to the phase as n.
Writes(c, r, n, a, row) ==
    /\ r = request[c] /\ r.todo # << >> /\ Stage(r) \in {"writeActivity", "update", "markDeleted"}
    /\ RequestOK(n, link, activity, made)
    /\ request' = [request EXCEPT ![c] = n] /\ Stage(n) = "readPhase"
    /\ activity' = [activity EXCEPT ![a] = row]
    /\ a \in Activities /\ IsActivity(row) /\ row.exists
    /\ \A b \in Activities \ {a} : /\ ~OwesTotal(r, b)
                                   /\ b \notin overtaken' => b \notin overtaken
                                   /\ b \notin byHand' => b \notin byHand
    /\ UNCHANGED <<appointment, link, phase, skewed, phaseOvertaken, made>>

LEMMA ActivityWritten ==
    ASSUME ProgressIInv, NEW c \in Clients, NEW r, NEW n, NEW a, NEW row, Writes(c, r, n, a, row),
           TotalAt(a)'
    PROVE  ProgressIInv'
<1> USE DEF Writes
<1>1. ProgressBase /\ made \in Nat
  BY DEF ProgressIInv, ProgressBase
<1>2. activity'[a] = row /\ \A b \in Activities \ {a} : activity'[b] = activity[b]
  BY <1>1 DEF ProgressBase
<1>3. \A b \in Activities : activity[b].exists => activity'[b].exists
  BY <1>2
<1>4. GoesOn(link, link', activity, activity', made, made')
  BY <1>1, <1>3 DEF GoesOn, ProgressBase
<1>5. ProgressBase'
  <2>1. RequestOK(n, link', activity', made')
    BY <1>1, <1>4, RequestGoesOn
  <2>2. /\ activity' = [b \in Activities |-> activity'[b]]
        /\ \A b \in Activities : IsActivity(activity'[b])
    BY <1>1, <1>2 DEF ProgressBase
  <2>3. /\ appointment' \in [Appointments -> {0} \cup Lengths]
        /\ link' \in [Appointments -> Link \cup {Nothing}]
        /\ \A p \in Appointments : link'[p] # Nothing =>
              link'[p].id <= made' /\ activity'[link'[p].of].exists /\ appointment'[p] # 0
    BY <1>1, <1>3 DEF ProgressBase, Link
  <2> QED BY <2>1, <2>2, <2>3, <1>1, <1>4, BaseGoesOn
<1>6. ASSUME NEW b \in Activities PROVE TotalAt(b)'
  <2>1. CASE b = a
    BY <2>1
  <2>2. CASE b # a
    <3>1. UNCHANGED <<link, activity[b]>> /\ (Live(b)' <=> Live(b)) /\ TotalAt(b)
      BY <2>2, <1>2 DEF Live, ProgressIInv
    <3>2. /\ b \notin byHand' => b \notin byHand
          /\ b \notin overtaken' => b \notin overtaken
          /\ ~OwesTotal(request[c], b)
      BY <2>2
    <3> QED BY <3>1, <3>2, <1>1, TotalSame, TotalKept
  <2> QED BY <2>1, <2>2
<1>7. ASSUME NEW q \in Appointments PROVE MinutesAt(q)'
  <2>1. UNCHANGED <<link[q], appointment[q]>> /\ MinutesAt(q)
    BY DEF ProgressIInv
  <2>2. \A l : ~OwesMinutes(request[c], l)
    BY OwedAt
  <2> QED BY <2>1, <2>2, <1>1, MinutesKept
<1>8. PhaseFollows'
  <2>1. OwesPhase(n)
    BY DEF OwesPhase
  <2> QED BY <2>1, <1>1, PhaseKept DEF ProgressIInv
<1> QED BY <1>5, <1>6, <1>7, <1>8 DEF ProgressIInv

\* The progress that is derived is derived again from the row that has it.
LEMMA DerivedAgain ==
    ASSUME NEW row, NEW row2, NEW m \in BOOLEAN, NEW links, NEW minutes,
           row2.duration = row.duration, row2.progress = ProgressFor(row, m, links, minutes)
    PROVE  row2.progress = ProgressFor(row2, m, links, minutes)
BY DEF ProgressFor

LEMMA WriteActivityStep ==
    ASSUME ProgressIInv, NEW c \in Clients, WriteActivity(c)
    PROVE  ProgressIInv'
<1>1. PICK r : r = request[c]
  OBVIOUS
<1>2. At(c, "writeActivity") /\ UNCHANGED <<appointment, link, phase, skewed, phaseOvertaken, made>>
  BY DEF WriteActivity
<1>3. /\ RequestOK(r, link, activity, made) /\ r.todo # << >> /\ Stage(r) = "writeActivity" /\ IsRequest(r)
      /\ NextOK(r.todo) /\ Rest(c) = Tail(r.todo) /\ made \in Nat /\ ProgressBase
  BY <1>1, <1>2, RequestAt DEF ProgressIInv
<1>4. PICK a : a = r.of
  OBVIOUS
<1>5. a \in Activities /\ activity[a].exists
  BY <1>3, <1>4 DEF RequestOK
<1>6. PICK hours, progress : hours = HoursFor(r.seen[3])
                    /\ progress = ProgressFor(r.seen[1], a \in Milestones, r.seen[2], r.seen[3])
  OBVIOUS
<1>7. PICK row : row = [activity[a] EXCEPT !.hours = hours, !.progress = progress]
  OBVIOUS
<1>8. row = Recalculated(a, r.seen)
  BY <1>6, <1>7 DEF Recalculated
<1>9. row = [exists |-> activity[a].exists, deleted |-> activity[a].deleted,
             duration |-> activity[a].duration, hours |-> hours, progress |-> progress]
  <2>1. PICK old : old = activity[a]
    OBVIOUS
  <2>2. IsActivity(old)
    BY <2>1, <1>3, <1>5 DEF ProgressBase
  <2>3. row = [old EXCEPT !.hours = hours, !.progress = progress]
    BY <2>1, <1>7
  <2>4. row = [exists |-> old.exists, deleted |-> old.deleted, duration |-> old.duration,
               hours |-> hours, progress |-> progress]
    BY <2>2, <2>3 DEF IsActivity
  <2> QED BY <2>1, <2>4
<1>10. IsActivity(row) /\ row.exists /\ row.duration = activity[a].duration
  BY <1>3, <1>5, <1>9 DEF ProgressBase, IsActivity
<1>11. PICK now : now = Recalculated(a, ActivityAsRead(a))
  OBVIOUS
<1>12. /\ activity' = [activity EXCEPT ![a] = row] /\ byHand' = byHand \ {a} /\ GoOn(c, Rest(c))
       /\ overtaken' = (IF activity'[a] = now THEN overtaken \ {a} ELSE overtaken \cup {a})
  BY <1>1, <1>4, <1>8, <1>11 DEF WriteActivity
<1>13. PICK steps : steps = Tail(r.todo)
  OBVIOUS
<1>14. PICK n : n = After(r, steps)
  OBVIOUS
<1>15. request' = [request EXCEPT ![c] = n]
  BY <1>1, <1>3, <1>12, <1>13, <1>14, GoesOnWith
<1>16. StageOf(steps) = "readPhase" /\ steps # << >>
  BY <1>3, <1>13 DEF NextOK, Stage, StageOf
<1>17. Stage(n) = "readPhase"
  BY <1>3, <1>14, <1>16, AfterIs
<1>18. RequestOK(n, link, activity, made)
  BY <1>3, <1>13, <1>14, AfterIsOK
<1>19. Writes(c, r, n, a, row)
  BY <1>1, <1>2, <1>3, <1>4, <1>5, <1>10, <1>12, <1>15, <1>17, <1>18 DEF Writes, OwesTotal
<1>20. TotalAt(a)'
  <2> SUFFICES ASSUME a \notin overtaken' PROVE TotalHolds(a)'
    BY DEF TotalAt
  <2>1. row = now
    BY <1>3, <1>5, <1>12 DEF ProgressBase
  <2>2. PICK m, links, minutes : m = (a \in Milestones) /\ links = Cardinality(LinksOf(a)) /\ minutes = MinutesOf(a)
    OBVIOUS
  <2>3. PICK seen : seen = ActivityAsRead(a)
    OBVIOUS
  <2>4. seen[1] = activity[a] /\ seen[2] = links /\ seen[3] = minutes
    BY <2>2, <2>3 DEF ActivityAsRead
  <2>5. now = [activity[a] EXCEPT !.hours = HoursFor(minutes), !.progress = ProgressFor(activity[a], m, links, minutes)]
    BY <1>11, <2>2, <2>3, <2>4 DEF Recalculated
  <2>6. PICK h, g : h = HoursFor(minutes) /\ g = ProgressFor(activity[a], m, links, minutes)
    OBVIOUS
  <2>7. now = [activity[a] EXCEPT !.hours = h, !.progress = g]
    BY <2>5, <2>6
  <2>8. now.hours = h /\ now.progress = g
    BY <2>7, <1>3, <1>5 DEF ProgressBase, IsActivity
  <2>9. row.hours = HoursFor(minutes) /\ row.progress = ProgressFor(row, m, links, minutes)
    <3>1. m \in BOOLEAN
      BY <2>2
    <3>2. PICK old : old = activity[a]
      OBVIOUS
    <3>3. row.duration = old.duration /\ row.progress = ProgressFor(old, m, links, minutes)
      BY <1>10, <2>1, <2>6, <2>8, <3>2
    <3>4. row.progress = ProgressFor(row, m, links, minutes)
      BY <3>1, <3>3, DerivedAgain
    <3> QED BY <3>4, <2>1, <2>6, <2>8
  <2>10. activity'[a] = row
    BY <1>3, <1>5, <1>12 DEF ProgressBase
  <2>11. LinksOf(a)' = LinksOf(a) /\ MinutesOf(a)' = MinutesOf(a)
    BY <1>2, LinksSame DEF LinksOf
  <2> QED BY <2>2, <2>9, <2>10, <2>11 DEF TotalHolds
<1> QED BY <1>19, <1>20, ActivityWritten

LEMMA WriteUpdateStep ==
    ASSUME ProgressIInv, NEW c \in Clients, WriteUpdate(c)
    PROVE  ProgressIInv'
<1>1. PICK r : r = request[c]
  OBVIOUS
<1>2. At(c, "update") /\ UNCHANGED <<appointment, link, phase, skewed, phaseOvertaken, made>>
  BY DEF WriteUpdate
<1>3. /\ RequestOK(r, link, activity, made) /\ r.todo # << >> /\ Stage(r) = "update" /\ IsRequest(r)
      /\ NextOK(r.todo) /\ Rest(c) = Tail(r.todo) /\ made \in Nat /\ ProgressBase
  BY <1>1, <1>2, RequestAt DEF ProgressIInv
<1>4. PICK a : a = r.of
  OBVIOUS
<1>5. a \in Activities /\ activity[a].exists
  BY <1>3, <1>4 DEF RequestOK
<1>6. PICK progress, duration :
         /\ progress = (IF r.dto.progress = Keep THEN r.seen[1].progress ELSE r.dto.progress)
         /\ duration = (IF a \in Milestones THEN 0
                        ELSE IF r.dto.duration = Keep THEN r.seen[1].duration ELSE r.dto.duration)
  OBVIOUS
<1>7. PICK row : row = [activity[a] EXCEPT !.progress = progress, !.duration = duration]
  OBVIOUS
<1>8. row = [exists |-> activity[a].exists, deleted |-> activity[a].deleted,
             duration |-> duration, hours |-> activity[a].hours, progress |-> progress]
  <2>1. PICK old : old = activity[a]
    OBVIOUS
  <2>2. IsActivity(old)
    BY <2>1, <1>3, <1>5 DEF ProgressBase
  <2>3. row = [old EXCEPT !.progress = progress, !.duration = duration]
    BY <2>1, <1>7
  <2>4. row = [exists |-> old.exists, deleted |-> old.deleted, duration |-> duration,
               hours |-> old.hours, progress |-> progress]
    BY <2>2, <2>3 DEF IsActivity
  <2> QED BY <2>1, <2>4
<1>9. IsActivity(row) /\ row.exists
  BY <1>3, <1>5, <1>8 DEF ProgressBase, IsActivity
<1>10. activity' = [activity EXCEPT ![a].progress = progress, ![a].duration = duration]
  BY <1>1, <1>4, <1>6 DEF WriteUpdate
<1>11. activity' = [activity EXCEPT ![a] = row]
  BY <1>3, <1>5, <1>7, <1>10 DEF ProgressBase
<1>12. /\ byHand' = (IF r.dto.progress # Keep \/ duration # activity[a].duration
                     THEN byHand \cup {a} ELSE byHand)
       /\ overtaken' = (IF r.dto.progress = Keep /\ progress # activity[a].progress
                        THEN overtaken \cup {a} ELSE overtaken)
       /\ GoOn(c, Rest(c))
  BY <1>1, <1>4, <1>6 DEF WriteUpdate
<1>13. PICK steps : steps = Tail(r.todo)
  OBVIOUS
<1>14. PICK n : n = After(r, steps)
  OBVIOUS
<1>15. request' = [request EXCEPT ![c] = n]
  BY <1>1, <1>3, <1>12, <1>13, <1>14, GoesOnWith
<1>16. StageOf(steps) = "readPhase" /\ steps # << >>
  BY <1>3, <1>13 DEF NextOK, Stage, StageOf
<1>17. Stage(n) = "readPhase"
  BY <1>3, <1>14, <1>16, AfterIs
<1>18. RequestOK(n, link, activity, made)
  BY <1>3, <1>13, <1>14, AfterIsOK
<1>19. Writes(c, r, n, a, row)
  BY <1>1, <1>2, <1>3, <1>5, <1>9, <1>11, <1>12, <1>15, <1>17, <1>18 DEF Writes, OwesTotal
<1>20. TotalAt(a)'
  <2>1. activity'[a] = row
    BY <1>3, <1>5, <1>11 DEF ProgressBase
  <2>2. Live(a)' <=> Live(a)
    BY <2>1, <1>8 DEF Live
  <2>3. a \notin overtaken' => a \notin overtaken
    BY <1>12
  <2>4. ~OwesTotal(n, a) /\ ~OwesTotal(request[c], a)
    BY <1>1, <1>3, <1>17 DEF OwesTotal
  <2>5. LinksOf(a)' = LinksOf(a) /\ MinutesOf(a)' = MinutesOf(a)
    BY <1>2, LinksSame DEF LinksOf
  <2>6. ASSUME a \notin overtaken', TotalHolds(a) PROVE TotalHolds(a)'
    <3>1. activity'[a].hours = HoursFor(MinutesOf(a))'
      BY <2>1, <2>5, <2>6, <1>8 DEF TotalHolds
    <3>2. CASE a \in byHand'
      BY <3>1, <3>2 DEF TotalHolds
    <3>3. CASE a \notin byHand'
      <4>1. r.dto.progress = Keep /\ duration = activity[a].duration /\ byHand' = byHand
        BY <3>3, <1>12
      <4>2. progress = activity[a].progress
        BY <4>1, <2>6, <1>12
      <4>3. activity'[a] = activity[a]
        BY <4>1, <4>2, <2>1, <1>3, <1>5, <1>8 DEF ProgressBase, IsActivity
      <4> QED BY <4>1, <4>3, <2>5, <2>6 DEF TotalHolds
    <3> QED BY <3>2, <3>3
  <2>7. TotalAt(a)
    BY <1>5 DEF ProgressIInv
  <2> QED BY <2>2, <2>3, <2>4, <2>6, <2>7, <1>3, <1>5, <1>15, TotalKept
<1> QED BY <1>19, <1>20, ActivityWritten

LEMMA MarkDeletedStep ==
    ASSUME ProgressIInv, NEW c \in Clients, MarkDeleted(c)
    PROVE  ProgressIInv'
<1>1. PICK r : r = request[c]
  OBVIOUS
<1>2. /\ At(c, "markDeleted")
      /\ UNCHANGED <<appointment, link, phase, overtaken, skewed, phaseOvertaken, byHand, made>>
  BY DEF MarkDeleted
<1>3. /\ RequestOK(r, link, activity, made) /\ r.todo # << >> /\ Stage(r) = "markDeleted" /\ IsRequest(r)
      /\ NextOK(r.todo) /\ Rest(c) = Tail(r.todo) /\ made \in Nat /\ ProgressBase
  BY <1>1, <1>2, RequestAt DEF ProgressIInv
<1>4. PICK a : a = r.of
  OBVIOUS
<1>5. a \in Activities /\ activity[a].exists
  BY <1>3, <1>4 DEF RequestOK
<1>6. PICK row : row = [activity[a] EXCEPT !.deleted = TRUE]
  OBVIOUS
<1>7. row = [exists |-> activity[a].exists, deleted |-> TRUE, duration |-> activity[a].duration,
             hours |-> activity[a].hours, progress |-> activity[a].progress]
  <2>1. PICK old : old = activity[a]
    OBVIOUS
  <2>2. IsActivity(old)
    BY <2>1, <1>3, <1>5 DEF ProgressBase
  <2>3. row = [old EXCEPT !.deleted = TRUE]
    BY <2>1, <1>6
  <2>4. row = [exists |-> old.exists, deleted |-> TRUE, duration |-> old.duration,
               hours |-> old.hours, progress |-> old.progress]
    BY <2>2, <2>3 DEF IsActivity
  <2> QED BY <2>1, <2>4
<1>8. IsActivity(row) /\ row.exists /\ row.deleted
  BY <1>3, <1>5, <1>7 DEF ProgressBase, IsActivity
<1>9. activity' = [activity EXCEPT ![a] = row] /\ GoOn(c, Rest(c))
  BY <1>1, <1>4, <1>6 DEF MarkDeleted
<1>10. PICK steps : steps = Tail(r.todo)
  OBVIOUS
<1>11. PICK n : n = After(r, steps)
  OBVIOUS
<1>12. request' = [request EXCEPT ![c] = n]
  BY <1>1, <1>3, <1>9, <1>10, <1>11, GoesOnWith
<1>13. StageOf(steps) = "readPhase" /\ steps # << >>
  BY <1>3, <1>10 DEF NextOK, Stage, StageOf
<1>14. Stage(n) = "readPhase"
  BY <1>3, <1>11, <1>13, AfterIs
<1>15. RequestOK(n, link, activity, made)
  BY <1>3, <1>10, <1>11, AfterIsOK
<1>16. Writes(c, r, n, a, row)
  BY <1>1, <1>2, <1>3, <1>5, <1>8, <1>9, <1>12, <1>14, <1>15 DEF Writes, OwesTotal
<1>17. TotalAt(a)'
  <2>1. activity'[a] = row
    BY <1>3, <1>5, <1>9 DEF ProgressBase
  <2> QED BY <2>1, <1>8 DEF TotalAt, Live
<1> QED BY <1>16, <1>17, ActivityWritten

LEMMA WritePhaseStep ==
    ASSUME ProgressIInv, NEW c \in Clients, WritePhase(c)
    PROVE  ProgressIInv'
<1>1. PICK r : r = request[c]
  OBVIOUS
<1>2. /\ At(c, "writePhase") /\ GoOn(c, Rest(c))
      /\ UNCHANGED <<appointment, link, activity, overtaken, skewed, byHand, made>>
      /\ phaseOvertaken' = (phase' # PhaseFor(Children, activity))
  BY DEF WritePhase
<1>3. /\ RequestOK(r, link, activity, made) /\ r.todo # << >> /\ Stage(r) = "writePhase" /\ IsRequest(r)
      /\ NextOK(r.todo) /\ Rest(c) = Tail(r.todo) /\ made \in Nat /\ ProgressBase
  BY <1>1, <1>2, RequestAt DEF ProgressIInv
<1>4. PICK steps : steps = Tail(r.todo)
  OBVIOUS
<1>5. PICK n : n = After(r, steps)
  OBVIOUS
<1>6. request' = [request EXCEPT ![c] = n]
  BY <1>1, <1>2, <1>3, <1>4, <1>5, GoesOnWith
<1>7. RequestOK(n, link, activity, made)
  BY <1>3, <1>4, <1>5, AfterIsOK
<1>8. (\A a \in Activities : ~OwesTotal(r, a)) /\ \A l : ~OwesMinutes(r, l)
  BY <1>3, OwedAt
<1>9. ProgressBase'
  <2>1. /\ appointment' \in [Appointments -> {0} \cup Lengths]
        /\ \A p \in Appointments : appointment[p] # 0 => appointment'[p] # 0
        /\ UNCHANGED <<link, activity, made>>
    BY <1>2, <1>3 DEF ProgressBase
  <2> QED BY <2>1, <1>3, <1>6, <1>7, QuietBase
<1>10. ASSUME NEW a \in Activities PROVE TotalAt(a)'
  <2>1. UNCHANGED <<link, activity[a]>> /\ (Live(a)' <=> Live(a)) /\ TotalAt(a)
    BY <1>2 DEF Live, ProgressIInv
  <2> QED BY <2>1, <1>1, <1>2, <1>3, <1>6, <1>8, TotalSame, TotalKept
<1>11. ASSUME NEW q \in Appointments PROVE MinutesAt(q)'
  <2>1. UNCHANGED <<link[q], appointment[q]>> /\ MinutesAt(q)
    BY <1>2 DEF ProgressIInv
  <2> QED BY <2>1, <1>1, <1>2, <1>3, <1>6, <1>8, MinutesKept
<1>12. PhaseFollows'
  BY <1>2, PhaseSame DEF PhaseFollows
<1> QED BY <1>9, <1>10, <1>11, <1>12 DEF ProgressIInv

-----------------------------------------------------------------------------
(* What a request owes it has yet to do, so who ends half way leaves the    *)
(* activity, the link or the phase marked.                                  *)

LEMMA ListsAreSequences == ASSUME NEW t \in Lists PROVE t \in Seq(Steps)
<1>1. CASE t = << >>
  BY <1>1
<1>2. CASE t = <<"readActivity", "writeActivity", "readPhase", "writePhase", "deleteAppointment">>
  BY <1>2 DEF Steps
<1>3. CASE t = <<"writeActivity", "readPhase", "writePhase", "deleteAppointment">>
  BY <1>3 DEF Steps
<1>4. CASE t = <<"readPhase", "writePhase", "deleteAppointment">>
  BY <1>4 DEF Steps
<1>5. CASE t = <<"writePhase", "deleteAppointment">>
  BY <1>5 DEF Steps
<1>6. CASE t = <<"deleteAppointment">>
  BY <1>6 DEF Steps
<1>7. CASE t = <<"link", "readActivity", "writeActivity", "readPhase", "writePhase", "readPhase", "writePhase">>
  BY <1>7 DEF Steps
<1>8. CASE t = <<"readActivity", "writeActivity", "readPhase", "writePhase", "readPhase", "writePhase">>
  BY <1>8 DEF Steps
<1>9. CASE t = <<"writeActivity", "readPhase", "writePhase", "readPhase", "writePhase">>
  BY <1>9 DEF Steps
<1>10. CASE t = <<"link", "readActivity", "writeActivity", "readPhase", "writePhase">>
  BY <1>10 DEF Steps
<1>11. CASE t = <<"refresh", "readActivity", "writeActivity", "readPhase", "writePhase">>
  BY <1>11 DEF Steps
<1>12. CASE t = <<"unlink", "readActivity", "writeActivity", "readPhase", "writePhase", "readPhase", "writePhase">>
  BY <1>12 DEF Steps
<1>13. CASE t = <<"findLink", "refresh", "readActivity", "writeActivity", "readPhase", "writePhase">>
  BY <1>13 DEF Steps
<1>14. CASE t = <<"findLink", "dropLink", "readActivity", "writeActivity", "readPhase", "writePhase", "deleteAppointment">>
  BY <1>14 DEF Steps
<1>15. CASE t = <<"dropLink", "readActivity", "writeActivity", "readPhase", "writePhase", "deleteAppointment">>
  BY <1>15 DEF Steps
<1>16. CASE t = <<"readPhase", "writePhase", "readPhase", "writePhase">>
  BY <1>16 DEF Steps
<1>17. CASE t = <<"writePhase", "readPhase", "writePhase">>
  BY <1>17 DEF Steps
<1>18. CASE t = <<"readPhase", "writePhase">>
  BY <1>18 DEF Steps
<1>19. CASE t = <<"writePhase">>
  BY <1>19 DEF Steps
<1>20. CASE t = <<"readActivity", "writeActivity", "readPhase", "writePhase">>
  BY <1>20 DEF Steps
<1>21. CASE t = <<"writeActivity", "readPhase", "writePhase">>
  BY <1>21 DEF Steps
<1>22. CASE t = <<"predecessors", "update", "readPhase", "writePhase">>
  BY <1>22 DEF Steps
<1>23. CASE t = <<"update", "readPhase", "writePhase">>
  BY <1>23 DEF Steps
<1>24. CASE t = <<"markDeleted", "readPhase", "writePhase">>
  BY <1>24 DEF Steps
<1> QED BY <1>1, <1>2, <1>3, <1>4, <1>5, <1>6, <1>7, <1>8, <1>9, <1>10, <1>11, <1>12, <1>13, <1>14, <1>15, <1>16, <1>17, <1>18, <1>19, <1>20, <1>21, <1>22, <1>23, <1>24 DEF Lists, Dropped, Linked, Looking, Short

LEMMA LeftOver ==
    ASSUME NEW t \in Lists
    PROVE  /\ StageOf(t) \in {"readActivity", "writeActivity"} => \E i \in 1..Len(t) : t[i] = "writeActivity"
           /\ t = ToRefresh \/ StageOf(t) = "refresh" => \E i \in 1..Len(t) : t[i] = "refresh"
           /\ StageOf(t) \in {"readPhase", "writePhase"} => \E i \in 1..Len(t) : t[i] = "writePhase"
<1>1. t \in Seq(Steps)
  BY ListsAreSequences
<1>2. CASE t = << >>
  <2>1. ToRefresh # << >>
    BY DEF ToRefresh
  <2> QED BY <2>1, <1>2 DEF StageOf
<1>3. CASE t # << >>
  <2>1. Len(t) >= 1 /\ t[1] = StageOf(t)
    BY <1>1, <1>3 DEF StageOf
  <2>2. NextOK(t) /\ Head(t) = StageOf(t)
    BY <1>3, WhatFollows DEF StageOf
  <2>3. ASSUME NEW s, s # "none", StageOf(Tail(t)) = s PROVE \E i \in 1..Len(t) : t[i] = s
    <3>1. Tail(t) # << >> /\ Head(Tail(t)) = s
      BY <2>3 DEF StageOf
    <3>2. Len(t) >= 2 /\ t[2] = s
      BY <3>1, <2>1, <1>1
    <3> QED BY <3>2, <1>1
  <2>4. StageOf(t) = "readActivity" => StageOf(Tail(t)) = "writeActivity"
    BY <2>2 DEF NextOK
  <2>5. StageOf(t) = "readPhase" => StageOf(Tail(t)) = "writePhase"
    BY <2>2 DEF NextOK
  <2>6. t = ToRefresh => StageOf(Tail(t)) = "refresh"
    BY <2>2 DEF NextOK, ToRefresh
  <2>7. ASSUME NEW s, StageOf(t) = s PROVE \E i \in 1..Len(t) : t[i] = s
    BY <2>1, <2>7, <1>1
  <2> QED BY <2>3, <2>4, <2>5, <2>6, <2>7
<1> QED BY <1>2, <1>3

LEMMA OwedIsLeft ==
    ASSUME ProgressBase, NEW c \in Clients
    PROVE  /\ \A a : OwesTotal(request[c], a) => request[c].of = a /\ HasYetTo(c, "writeActivity")
           /\ \A l : OwesMinutes(request[c], l) => HasYetTo(c, "refresh")
           /\ OwesPhase(request[c]) => HasYetTo(c, "writePhase")
<1>1. request[c].todo \in Lists
  BY DEF ProgressBase, RequestOK
<1> QED BY <1>1, LeftOver DEF OwesTotal, OwesMinutes, OwesPhase, HasYetTo, Stage

LEMMA RequestBreaksStep ==
    ASSUME ProgressIInv, NEW c \in Clients, RequestBreaks(c)
    PROVE  ProgressIInv'
<1>1. PICK r : r = request[c]
  OBVIOUS
<1>2. /\ overtaken' = (IF HasYetTo(c, "writeActivity") THEN overtaken \cup ({r.of} \ {Nothing}) ELSE overtaken)
      /\ skewed' = (IF HasYetTo(c, "refresh") THEN skewed \cup {r.appt} ELSE skewed)
      /\ phaseOvertaken' = (phaseOvertaken \/ HasYetTo(c, "writePhase"))
      /\ GoOn(c, << >>)
      /\ UNCHANGED <<appointment, link, activity, phase, byHand, made>>
  BY <1>1 DEF RequestBreaks
<1>3. ProgressBase /\ made \in Nat
  BY DEF ProgressIInv, ProgressBase
<1>4. request' = [request EXCEPT ![c] = Idle]
  BY <1>1, <1>2, GoesOnWith DEF After
<1>5. RequestOK(Idle, link, activity, made)
  BY <1>3, IdleIsOK
<1>6. ProgressBase'
  <2>1. /\ appointment' \in [Appointments -> {0} \cup Lengths]
        /\ \A p \in Appointments : appointment[p] # 0 => appointment'[p] # 0
        /\ UNCHANGED <<link, activity, made>>
    BY <1>2, <1>3 DEF ProgressBase
  <2> QED BY <2>1, <1>3, <1>4, <1>5, QuietBase
<1>7. ASSUME NEW a \in Activities PROVE TotalAt(a)'
  <2>1. UNCHANGED <<link, activity[a]>> /\ (Live(a)' <=> Live(a)) /\ TotalAt(a) /\ byHand' = byHand
    BY <1>2 DEF Live, ProgressIInv
  <2>2. TotalHolds(a) => TotalHolds(a)'
    BY <2>1, TotalSame
  <2>3. a # Nothing
    BY ProgressAssumption
  <2>4. a \notin overtaken' => a \notin overtaken /\ ~OwesTotal(request[c], a)
    BY <2>3, <1>1, <1>2, <1>3, OwedIsLeft
  <2> QED BY <2>1, <2>2, <2>4, <1>3, <1>4, TotalKept
<1>8. ASSUME NEW q \in Appointments PROVE MinutesAt(q)'
  <2>1. UNCHANGED <<link[q], appointment[q]>> /\ MinutesAt(q)
    BY <1>2 DEF ProgressIInv
  <2>2. q \notin skewed' => q \notin skewed /\ ~(request[c].appt = q /\ OwesMinutes(request[c], link[q]))
    BY <1>1, <1>2, <1>3, OwedIsLeft
  <2> QED BY <2>1, <2>2, <1>3, <1>4, MinutesKept
<1>9. PhaseFollows'
  <2>1. PhaseFollows /\ (~phaseOvertaken' => ~phaseOvertaken /\ ~OwesPhase(request[c]))
    BY <1>2, <1>3, OwedIsLeft DEF ProgressIInv
  <2> QED BY <2>1, <1>2, <1>3, <1>4, PhaseSame, PhaseKept
<1> QED BY <1>6, <1>7, <1>8, <1>9 DEF ProgressIInv

-----------------------------------------------------------------------------
(* The invariant holds in every reachable state.                           *)

\* The link and the row that ProgressInit gives.
FirstLink(of, minutes) == IF of = Nothing THEN Nothing ELSE [id |-> 0, of |-> of, minutes |-> minutes]
FirstRow(present, a) ==
    LET row == [exists |-> a \in present, deleted |-> FALSE, hours |-> 0, progress |-> 0,
                duration |-> IF a \in present \ Milestones THEN CHOOSE d \in Durations : TRUE ELSE 0]
    IN [row EXCEPT !.hours = HoursFor(MinutesOf(a)),
                   !.progress = ProgressFor(row, a \in Milestones, Cardinality(LinksOf(a)), MinutesOf(a))]

LEMMA ProgressStarts == ASSUME ProgressInit PROVE ProgressIInv
<1>1. PICK present \in SUBSET Activities : \E of \in [Appointments -> present \cup {Nothing}] :
        /\ \A p \in Appointments : of[p] # Nothing => appointment[p] # 0
        /\ link = [p \in Appointments |-> FirstLink(of[p], appointment[p])]
        /\ activity = [a \in Activities |-> FirstRow(present, a)]
  BY DEF ProgressInit, FirstLink, FirstRow
<1>2. PICK of \in [Appointments -> present \cup {Nothing}] :
        /\ \A p \in Appointments : of[p] # Nothing => appointment[p] # 0
        /\ link = [p \in Appointments |-> FirstLink(of[p], appointment[p])]
        /\ activity = [a \in Activities |-> FirstRow(present, a)]
  BY <1>1
<1>3. /\ appointment \in [Appointments -> {0} \cup Lengths] /\ phase = PhaseFor(Children, activity)
      /\ request = [c \in Clients |-> Idle] /\ made = 0
  BY DEF ProgressInit
<1>4. ASSUME NEW p \in Appointments, link[p] # Nothing
      PROVE  /\ link[p] \in Link /\ link[p].id = 0 /\ link[p].of = of[p] /\ link[p].minutes = appointment[p]
             /\ of[p] \in present /\ appointment[p] # 0
  <2>1. PICK o, m, l : o = of[p] /\ m = appointment[p] /\ l = link[p]
    OBVIOUS
  <2>2. l = FirstLink(o, m) /\ l # Nothing
    BY <1>2, <1>4, <2>1
  <2>3. l = [id |-> 0, of |-> o, minutes |-> m] /\ o # Nothing
    BY <2>2 DEF FirstLink
  <2>4. o \in present /\ o \in Activities /\ m # 0 /\ m \in Lengths
    BY <1>2, <1>3, <2>1, <2>3
  <2>5. l \in Link /\ l.id = 0 /\ l.of = o /\ l.minutes = m
    BY <2>3, <2>4 DEF Link
  <2> QED BY <2>1, <2>4, <2>5
<1>5. ASSUME NEW a \in Activities
      PROVE  /\ IsActivity(activity[a]) /\ activity[a].exists = (a \in present)
             /\ activity[a].hours = HoursFor(MinutesOf(a))
             /\ activity[a].progress =
                   ProgressFor(activity[a], a \in Milestones, Cardinality(LinksOf(a)), MinutesOf(a))
  <2>1. PICK m, links, minutes : m = (a \in Milestones) /\ links = Cardinality(LinksOf(a)) /\ minutes = MinutesOf(a)
    OBVIOUS
  <2>2. PICK there, duration : /\ there = (a \in present)
                               /\ duration = (IF a \in present \ Milestones
                                              THEN CHOOSE d \in Durations : TRUE ELSE 0)
    OBVIOUS
  <2>3. PICK row : row = [exists |-> there, deleted |-> FALSE, hours |-> 0, progress |-> 0, duration |-> duration]
    OBVIOUS
  <2>4. PICK h, g : h = HoursFor(minutes) /\ g = ProgressFor(row, m, links, minutes)
    OBVIOUS
  <2>5. PICK row2 : row2 = activity[a]
    OBVIOUS
  <2>6. row2 = [row EXCEPT !.hours = h, !.progress = g]
    <3>1. row2 = FirstRow(present, a)
      BY <1>2, <2>5
    <3> QED BY <3>1, <2>1, <2>2, <2>3, <2>4 DEF FirstRow
  <2>7. row2 = [exists |-> there, deleted |-> FALSE, hours |-> h, progress |-> g, duration |-> duration]
    BY <2>3, <2>6
  <2>8. there \in BOOLEAN /\ m \in BOOLEAN
    BY <2>1, <2>2
  <2>9. /\ IsActivity(row2) /\ row2.exists = there /\ row2.hours = h /\ row2.progress = g
        /\ row2.duration = row.duration
    BY <2>3, <2>7, <2>8 DEF IsActivity
  <2>10. row2.progress = ProgressFor(row2, m, links, minutes)
    BY <2>4, <2>8, <2>9, DerivedAgain
  <2> QED BY <2>1, <2>2, <2>4, <2>5, <2>9, <2>10
<1>6. ProgressBase
  <2>1. ASSUME NEW p \in Appointments, link[p] # Nothing
        PROVE  link[p] \in Link /\ link[p].id <= made /\ activity[link[p].of].exists /\ appointment[p] # 0
    <3>1. link[p].of = of[p] /\ of[p] \in Activities /\ activity[of[p]].exists
      BY <1>4, <1>5, <2>1
    <3> QED BY <3>1, <1>3, <1>4, <2>1
  <2>2. link \in [Appointments -> Link \cup {Nothing}]
    <3>1. link = [p \in Appointments |-> link[p]]
      BY <1>2
    <3> QED BY <3>1, <2>1
  <2>3. activity = [a \in Activities |-> activity[a]]
    BY <1>2
  <2>4. made \in Nat /\ request = [c \in Clients |-> request[c]]
    BY <1>3
  <2>5. ASSUME NEW c \in Clients PROVE RequestOK(request[c], link, activity, made)
    BY <2>4, <1>3, IdleIsOK
  <2> QED BY <1>3, <1>5, <2>1, <2>2, <2>3, <2>4, <2>5 DEF ProgressBase
<1>7. ASSUME NEW a \in Activities PROVE TotalAt(a)
  BY <1>5 DEF TotalAt, TotalHolds
<1>8. ASSUME NEW p \in Appointments PROVE MinutesAt(p)
  BY <1>4 DEF MinutesAt
<1>9. PhaseFollows
  BY <1>3 DEF PhaseFollows
<1> QED BY <1>6, <1>7, <1>8, <1>9 DEF ProgressIInv

LEMMA ProgressGoesOn ==
    ASSUME ProgressIInv, [ProgressNext]_progressVars
    PROVE  ProgressIInv'
<1>1. CASE UNCHANGED progressVars
  <2>1. /\ appointment' = appointment /\ link' = link /\ activity' = activity /\ phase' = phase
        /\ request' = request /\ overtaken' = overtaken /\ skewed' = skewed
        /\ phaseOvertaken' = phaseOvertaken /\ byHand' = byHand /\ made' = made
    BY <1>1 DEF progressVars
  <2>2. ProgressBase'
    BY <2>1 DEF ProgressIInv, ProgressBase
  <2>3. ASSUME NEW a \in Activities PROVE TotalAt(a)'
    <3>1. TotalAt(a) /\ (Live(a)' <=> Live(a)) /\ UNCHANGED <<link, activity[a]>>
      BY <2>1 DEF Live, ProgressIInv
    <3>2. TotalHolds(a) => TotalHolds(a)'
      BY <2>1, <3>1, TotalSame
    <3> QED BY <2>1, <3>1, <3>2 DEF TotalAt, OwesTotal, Stage
  <2>4. ASSUME NEW p \in Appointments PROVE MinutesAt(p)'
    BY <2>1 DEF ProgressIInv, MinutesAt, OwesMinutes, Stage
  <2>5. PhaseFollows'
    BY <2>1, PhaseSame DEF ProgressIInv, PhaseFollows, OwesPhase, Stage
  <2> QED BY <2>2, <2>3, <2>4, <2>5 DEF ProgressIInv
<1>2. ASSUME NEW c \in Clients, RequestStep(c) PROVE ProgressIInv'
  BY <1>2, MakeLinkStep, DropLinkStep, FindLinkStep, RefreshLinkStep, DeleteAppointmentRowStep,
     ReadActivityStep, WriteActivityStep, ReadPhaseStep, WritePhaseStep, CheckPredecessorsStep,
     WriteUpdateStep, MarkDeletedStep DEF RequestStep
<1>3. CASE ProgressNext
  BY <1>2, <1>3, RequestBreaksStep, RemoveAppointmentStep, UnlinkAppointmentStep, EditAppointmentStep,
     LinkAppointmentStep, CreateAppointmentStep, DeleteActivityStep, UpdateActivityStep,
     CreateActivityStep DEF ProgressNext
<1> QED BY <1>1, <1>3

LEMMA ProgressFollows == ProgressIInv => ProgressIsCurrent
<1> SUFFICES ASSUME ProgressIInv PROVE ProgressIsCurrent
  OBVIOUS
<1>1. ProgressBase
  BY DEF ProgressIInv
<1>2. TotalsAreCurrent
  <2> SUFFICES ASSUME NEW a \in Activities, Live(a), a \notin overtaken,
                      \A c \in Clients : request[c].of = a => ~HasYetTo(c, "writeActivity")
               PROVE  TotalHolds(a)
    BY DEF TotalsAreCurrent, TotalHolds
  <2>1. \A c \in Clients : ~OwesTotal(request[c], a)
    BY <1>1, OwedIsLeft
  <2> QED BY <2>1 DEF ProgressIInv, TotalAt
<1>3. LinksAreCurrent
  <2> SUFFICES ASSUME NEW p \in Appointments, link[p] # Nothing, p \notin skewed,
                      \A c \in Clients : request[c].appt = p => ~HasYetTo(c, "refresh")
               PROVE  link[p].minutes = appointment[p]
    BY DEF LinksAreCurrent
  <2>1. \A c \in Clients : ~(request[c].appt = p /\ OwesMinutes(request[c], link[p]))
    BY <1>1, OwedIsLeft
  <2> QED BY <2>1 DEF ProgressIInv, MinutesAt
<1>4. PhaseIsCurrent
  <2> SUFFICES ASSUME ~phaseOvertaken, \A c \in Clients : ~HasYetTo(c, "writePhase")
               PROVE  phase = PhaseFor(Children, activity)
    BY DEF PhaseIsCurrent
  <2>1. \A c \in Clients : ~OwesPhase(request[c])
    BY <1>1, OwedIsLeft
  <2> QED BY <2>1 DEF ProgressIInv, PhaseFollows
<1> QED BY <1>2, <1>3, <1>4 DEF ProgressIsCurrent

\* After any interleaving of requests, of any number of them, what nobody has
\* yet to write is current: the hours and the progress of an activity are those
\* of the appointments linked to it, a link has the minutes of its appointment,
\* and the phase has the progress of its children, unless a request broke off
\* or wrote what another had overtaken.
THEOREM ProgressStaysCurrent == ProgressSpec => []ProgressIsCurrent
<1>1. ProgressInit => ProgressIInv
  BY ProgressStarts
<1>2. ProgressIInv /\ [ProgressNext]_progressVars => ProgressIInv'
  BY ProgressGoesOn
<1> QED BY <1>1, <1>2, ProgressFollows, PTL DEF ProgressSpec

-----------------------------------------------------------------------------
(* WorkedMinutes.  A fold is the run of a loop, so what holds at its start    *)
(* and after each round holds at its end; induction over the rounds is the    *)
(* one of SmallestNumber, with the rounds at which it holds as a set.  The    *)
(* loops of the count are then: a merged list has its intervals apart and the *)
(* minutes of the list it is made of; the lengths of intervals apart add up   *)
(* to their minutes; the cursor of subtractMinutes has counted what it has    *)
(* passed and nothing covers.  A sum over the days is one of a finite set.    *)

(* Loops.                                                                     *)

\* A set of numbers has a smallest one.
LEMMA SmallestNumber ==
    ASSUME NEW S, S \subseteq Nat, S # {}
    PROVE  \E x \in S : \A y \in S : x <= y
<1>1. PICK R : R = {ss \in Nat \X Nat : ss[1] < ss[2]}
  OBVIOUS
<1>2. IsWellFoundedOn(R, Nat)
  BY <1>1, NatLessThanWellFounded DEF OpToRel
<1>3. PICK x \in S : \A y \in S : ~(<<y, x>> \in R)
  BY <1>2, WFMin
<1>4. ASSUME NEW y \in S PROVE x <= y
  <2>1. ~(y < x)
    BY <1>1, <1>3
  <2> QED
    BY <2>1
<1> QED
  BY <1>4

\* What holds at the start of a loop of n rounds, and after a round if it did
\* before, holds after each: the set S is of the rounds after which it does.
LEMMA EveryRound ==
    ASSUME NEW n \in Nat, NEW S, 0 \in S,
           \A k \in 1..n : k - 1 \in S => k \in S
    PROVE  0..n \subseteq S
<1>1. SUFFICES ASSUME ~(0..n \subseteq S) PROVE FALSE
  OBVIOUS
<1>2. PICK T : T = {k \in 0..n : k \notin S}
  OBVIOUS
<1>3. T \subseteq Nat /\ T # {}
  BY <1>1, <1>2
<1>4. PICK x \in T : \A y \in T : x <= y
  BY <1>3, SmallestNumber
<1>5. x \in 1..n
  BY <1>2, <1>4
<1>6. x - 1 \in S
  <2>1. x - 1 \notin T
    BY <1>4, <1>5
  <2> QED
    BY <1>2, <1>5, <2>1
<1> QED
  BY <1>2, <1>4, <1>5, <1>6

LEMMA GreatestIn ==
    ASSUME NEW n \in Nat, NEW S \in SUBSET (1..n), S # {}
    PROVE  Max(S) \in S /\ \A y \in S : Max(S) >= y
<1>1. PICK T : T = {n - x : x \in S}
  OBVIOUS
<1>2. T \subseteq Nat /\ T # {}
  <2>1. \A x \in S : x \in 1..n
    OBVIOUS
  <2>2. \A x \in S : n - x \in Nat
    BY <2>1
  <2> QED
    BY <1>1, <2>2
<1>3. PICK z \in T : \A y \in T : z <= y
  BY <1>2, SmallestNumber
<1>4. PICK x \in S : z = n - x
  BY <1>1, <1>3
<1>5. \A y \in S : x >= y
  <2> TAKE y \in S
  <2>1. z <= n - y
    BY <1>1, <1>3
  <2> QED
    BY <1>4, <2>1
<1> QED
  BY <1>5 DEF Max

LEMMA Places ==
    ASSUME NEW B, NEW s \in Seq(B)
    PROVE  /\ \A S \in SUBSET (DOMAIN s) : S # {} =>
                  Max(S) \in DOMAIN s /\ s[Max(S)] \in B /\ S \ {Max(S)} \in SUBSET (DOMAIN s)
           /\ \A k \in 1..Len(s) :
                  /\ 1..k # {} /\ 1..k \in SUBSET (DOMAIN s) /\ s[k] \in B
                  /\ Max(1..k) = k /\ (1..k) \ {k} = 1..(k - 1)
<1>1. PICK n \in Nat : n = Len(s)
  OBVIOUS
<1>2. DOMAIN s = 1..n /\ \A k \in 1..n : s[k] \in B
  BY <1>1
<1>3. ASSUME NEW S \in SUBSET (1..n), S # {} PROVE Max(S) \in 1..n
  <2>1. Max(S) \in S
    BY <1>3, GreatestIn
  <2> QED
    BY <2>1
<1>4. ASSUME NEW k \in 1..n PROVE Max(1..k) = k
  <2>1. k \in Nat /\ 1..k # {} /\ 1..k \in SUBSET (1..k) /\ k \in 1..k
    OBVIOUS
  <2>2. PICK m : m = Max(1..k)
    OBVIOUS
  <2>3. m \in 1..k /\ m >= k
    BY <2>1, <2>2, GreatestIn
  <2> QED
    BY <2>2, <2>3
<1>5. ASSUME NEW k \in 1..n
      PROVE  (1..k) \ {k} = 1..(k - 1) /\ 1..k # {} /\ 1..k \in SUBSET (1..n)
  <2>1. k \in 1..k /\ 1..k \subseteq 1..n
    OBVIOUS
  <2>2. \A j : j \in (1..k) \ {k} <=> j \in 1..(k - 1)
    OBVIOUS
  <2> QED
    BY <2>1, <2>2
<1> QED
  BY <1>1, <1>2, <1>3, <1>4, <1>5

\* The table of a fold of f over s, from base: a result for every set of places.
IsTable(h, f, base, s) ==
    h = [S \in SUBSET (DOMAIN s) |-> IF S = {} THEN base
                                     ELSE f[<<h[S \ {Max(S)}], s[Max(S)]>>]]

LEMMA TableExists ==
    ASSUME NEW A, NEW B, NEW f \in [A \X B -> A], NEW base \in A, NEW s \in Seq(B)
    PROVE  \E h \in [SUBSET (DOMAIN s) -> A] : IsTable(h, f, base, s)
<1> DEFINE n == Len(s)
           Next1(h, S) == IF S = {} THEN base ELSE f[<<h[S \ {Max(S)}], s[Max(S)]>>]
           OK(k) == \E h \in [SUBSET (1..k) -> A] : \A S \in SUBSET (1..k) : h[S] = Next1(h, S)
           Done == {k \in 0..n : OK(k)}
<1>1. n \in Nat /\ DOMAIN s = 1..n /\ \A i \in 1..n : s[i] \in B
  OBVIOUS
<1> HIDE DEF n
<1>2. 0 \in Done
  <2>1. PICK h : h = [S \in SUBSET (1..0) |-> base]
    OBVIOUS
  <2>2. h \in [SUBSET (1..0) -> A] /\ \A S \in SUBSET (1..0) : S = {} /\ h[S] = base
    BY <2>1
  <2>3. OK(0)
    BY <2>2
  <2>4. 0 \in 0..n
    BY <1>1
  <2> HIDE DEF OK
  <2> QED
    BY <2>3, <2>4
<1>3. ASSUME NEW k \in 1..n, k - 1 \in Done PROVE k \in Done
  <2>1. PICK h \in [SUBSET (1..(k - 1)) -> A] : \A S \in SUBSET (1..(k - 1)) : h[S] = Next1(h, S)
    BY <1>3
  <2>2. PICK g : g = [S \in SUBSET (1..k) |-> Next1(h, S)]
    OBVIOUS
  <2>3. ASSUME NEW S \in SUBSET (1..k), S # {}
        PROVE  Max(S) \in 1..n /\ S \ {Max(S)} \in SUBSET (1..(k - 1))
    <3>1. k \in Nat
      BY <1>1
    <3>2. Max(S) \in S /\ \A y \in S : Max(S) >= y
      BY <2>3, <3>1, GreatestIn
    <3>3. PICK m : m = Max(S)
      OBVIOUS
    <3>4. m \in 1..k
      BY <3>2, <3>3
    <3>5. ASSUME NEW y \in S \ {m} PROVE y \in 1..(k - 1)
      <4>1. y \in 1..k /\ m >= y /\ y # m
        BY <3>2, <3>3, <3>5
      <4> QED
        BY <3>1, <3>4, <4>1
    <3>6. S \ {m} \in SUBSET (1..(k - 1))
      BY <3>5
    <3>7. m \in 1..n
      BY <1>1, <3>4
    <3> QED
      BY <3>3, <3>6, <3>7
  <2>4. ASSUME NEW S \in SUBSET (1..k) PROVE g[S] \in A
    <3>1. g[S] = Next1(h, S)
      BY <2>2
    <3>2. CASE S = {}
      BY <3>1, <3>2
    <3>3. CASE S # {}
      <4>1. h[S \ {Max(S)}] \in A /\ s[Max(S)] \in B
        BY <1>1, <2>3, <3>3
      <4> QED
        BY <3>1, <3>3, <4>1
    <3> QED
      BY <3>2, <3>3
  <2>5. ASSUME NEW S \in SUBSET (1..(k - 1)) PROVE g[S] = h[S]
    <3>1. S \in SUBSET (1..k)
      BY <1>1
    <3> QED
      BY <2>1, <2>2, <3>1
  <2>6. ASSUME NEW S \in SUBSET (1..k) PROVE g[S] = Next1(g, S)
    <3>1. g[S] = Next1(h, S)
      BY <2>2
    <3>2. S # {} => g[S \ {Max(S)}] = h[S \ {Max(S)}]
      BY <2>3, <2>5
    <3> QED
      BY <3>1, <3>2
  <2>7. g \in [SUBSET (1..k) -> A]
    BY <2>2, <2>4
  <2>8. OK(k)
    BY <2>6, <2>7
  <2>9. k \in 0..n
    BY <1>1
  <2> QED
    BY <2>8, <2>9
<1>4. n \in Done
  <2> HIDE DEF Done
  <2>1. 0..n \subseteq Done
    BY <1>1, <1>2, <1>3, EveryRound
  <2> QED
    BY <1>1, <2>1
<1>5. PICK h \in [SUBSET (1..n) -> A] : \A S \in SUBSET (1..n) : h[S] = Next1(h, S)
  BY <1>4
<1>6. h = [S \in SUBSET (1..n) |-> Next1(h, S)]
  BY <1>5
<1> QED
  BY <1>1, <1>5, <1>6 DEF IsTable

\* A loop over s that starts from base and applies f to its state and the next element.
IsLoop(A, B, f, base, s) == f \in [A \X B -> A] /\ base \in A /\ s \in Seq(B)

TypedTable(h, A, B, f, base, s) ==
    /\ IsTable(h, f, base, s)
    /\ \A S \in SUBSET (DOMAIN s) : S # {} => h[S \ {Max(S)}] \in A /\ s[Max(S)] \in B

LEMMA LoopHasTable ==
    ASSUME NEW A, NEW B, NEW f, NEW base, NEW s, IsLoop(A, B, f, base, s)
    PROVE  \E h : TypedTable(h, A, B, f, base, s)
<1>1. f \in [A \X B -> A] /\ base \in A /\ s \in Seq(B)
  BY DEF IsLoop
<1>2. PICK h \in [SUBSET (DOMAIN s) -> A] : IsTable(h, f, base, s)
  BY <1>1, TableExists
<1>3. \A S \in SUBSET (DOMAIN s) : S # {} => h[S \ {Max(S)}] \in A /\ s[Max(S)] \in B
  BY <1>1, <1>2, Places
<1> QED
  BY <1>2, <1>3 DEF TypedTable

\* The states of a loop that applies f to the elements of s, from base: acc[k] is the one
\* after the first k of them.
IsRun(acc, A, f, base, s) ==
    /\ acc \in [0..Len(s) -> A] /\ acc[0] = base
    /\ \A k \in 1..Len(s) : acc[k] = f[<<acc[k - 1], s[k]>>]

StepsBy(h, A, f, base, s) ==
    /\ h[{}] = base
    /\ \A k \in 1..Len(s) : h[1..(k - 1)] \in A => h[1..k] = f[<<h[1..(k - 1)], s[k]>>]

EndsIn(h, acc, s) == h[DOMAIN s] = acc[Len(s)]

\* A table, whatever it is chosen to be, holds the states of the loop.
LEMMA TableIsRun ==
    ASSUME NEW A, NEW B, NEW f, NEW base, NEW s, IsLoop(A, B, f, base, s),
           NEW h, StepsBy(h, A, f, base, s)
    PROVE  \E acc : IsRun(acc, A, f, base, s) /\ EndsIn(h, acc, s)
<1> DEFINE n == Len(s)
           Typed == {k \in 0..n : h[1..k] \in A}
<1> USE DEF IsLoop
<1>1. n \in Nat /\ DOMAIN s = 1..n /\ \A k \in 1..n : s[k] \in B
  OBVIOUS
<1>2. 1..0 = {}
  OBVIOUS
<1>3. 0 \in Typed
  BY <1>1, <1>2 DEF StepsBy
<1>4. ASSUME NEW k \in 1..n, k - 1 \in Typed PROVE k \in Typed
  <2>1. h[1..(k - 1)] \in A /\ s[k] \in B
    BY <1>1, <1>4
  <2>2. h[1..k] = f[<<h[1..(k - 1)], s[k]>>]
    BY <2>1 DEF StepsBy
  <2>3. h[1..k] \in A
    BY <2>1, <2>2
  <2>4. k \in 0..n
    BY <1>1
  <2> QED
    BY <2>3, <2>4
<1>5. 0..n \subseteq Typed
  <2> HIDE DEF Typed, n
  <2> QED
    BY <1>1, <1>3, <1>4, EveryRound
<1>6. \A k \in 0..n : h[1..k] \in A
  BY <1>5
<1>7. PICK acc : acc = [k \in 0..n |-> h[1..k]]
  OBVIOUS
<1> HIDE DEF n, Typed
<1>8. acc \in [0..n -> A] /\ acc[0] = base
  BY <1>1, <1>2, <1>6, <1>7 DEF StepsBy
<1>9. ASSUME NEW k \in 1..n PROVE acc[k] = f[<<acc[k - 1], s[k]>>]
  <2>1. k - 1 \in 0..n /\ k \in 0..n
    BY <1>1
  <2>2. acc[k - 1] = h[1..(k - 1)] /\ acc[k] = h[1..k]
    BY <1>7, <2>1
  <2> QED
    BY <1>6, <2>1, <2>2 DEF n, StepsBy
<1>10. h[DOMAIN s] = acc[n]
  BY <1>1, <1>7
<1> QED
  BY <1>8, <1>9, <1>10 DEF n, IsRun, EndsIn

-----------------------------------------------------------------------------
(* Sorting.                                                                   *)

\* Numbers can be put in order.
LEMMA SomeOrder ==
    ASSUME NEW n \in Nat, NEW x \in [1..n -> Int]
    PROVE  \E p \in [1..n -> 1..n] :
              IsInjective(p) /\ \A i, j \in 1..n : i < j => x[p[i]] <= x[p[j]]
<1> DEFINE Orders(p, k) ==
               /\ p \in [1..k -> 1..k]
               /\ \A i, j \in 1..k : i # j => p[i] # p[j]
               /\ \A i, j \in 1..k : i < j => x[p[i]] <= x[p[j]]
           Done == {k \in 0..n : \E p : Orders(p, k)}
<1>1. 0 \in Done
  <2>1. PICK p : p = [i \in 1..0 |-> i]
    OBVIOUS
  <2>2. Orders(p, 0)
    BY <2>1
  <2>3. 0 \in 0..n
    OBVIOUS
  <2> HIDE DEF Orders
  <2> QED
    BY <2>2, <2>3
<1>2. ASSUME NEW k \in 1..n, k - 1 \in Done PROVE k \in Done
  <2>1. PICK p : Orders(p, k - 1)
    BY <1>2
  <2>2. PICK S : S = {i \in 1..k : i < k => x[k] < x[p[i]]}
    OBVIOUS
  <2>3. k \in S /\ S \subseteq Nat
    BY <2>2
  <2>4. PICK at \in S : \A i \in S : at <= i
    BY <2>3, SmallestNumber
  <2>5. at \in 1..k
    BY <2>2
  <2>6. PICK q : q = [i \in 1..k |-> IF i < at THEN p[i] ELSE IF i = at THEN k ELSE p[i - 1]]
    OBVIOUS
  <2>7. \A i \in 1..(k - 1) : p[i] \in 1..(k - 1) /\ x[p[i]] \in Int
    BY <2>1
  <2>8. ASSUME NEW i \in 1..(k - 1), i < at PROVE x[p[i]] <= x[k]
    <3>1. i \notin S /\ i \in 1..k /\ i < k
      BY <2>4, <2>5, <2>8
    <3>2. ~(x[k] < x[p[i]])
      BY <2>2, <3>1
    <3> QED
      BY <2>7, <3>2
  <2>9. ASSUME NEW i \in 1..(k - 1), i >= at PROVE x[k] <= x[p[i]]
    <3>1. at < k /\ at \in 1..(k - 1)
      BY <2>5, <2>9
    <3>2. x[k] < x[p[at]]
      BY <2>2, <3>1
    <3>3. x[p[at]] <= x[p[i]]
      <4>1. CASE at = i
        BY <2>7, <3>1, <4>1
      <4>2. CASE at < i
        BY <2>1, <3>1, <4>2
      <4> QED
        BY <2>5, <2>9, <4>1, <4>2
    <3> QED
      BY <2>7, <3>1, <3>2, <3>3
  <2>10. q \in [1..k -> 1..k]
    <3>1. ASSUME NEW i \in 1..k PROVE q[i] \in 1..k
      <4>1. CASE i < at
        <5>1. i \in 1..(k - 1)
          BY <2>5, <4>1
        <5> QED
          BY <2>6, <2>7, <4>1, <5>1
      <4>2. CASE i = at
        BY <2>6, <4>2
      <4>3. CASE i > at
        <5>1. i - 1 \in 1..(k - 1)
          BY <2>5, <4>3
        <5> QED
          BY <2>5, <2>6, <2>7, <4>3, <5>1
      <4> QED
        BY <2>5, <4>1, <4>2, <4>3
    <3> QED
      BY <2>6, <3>1
  <2>11. ASSUME NEW i \in 1..k, NEW j \in 1..k, i < j
         PROVE  q[i] # q[j] /\ x[q[i]] <= x[q[j]]
    <3>1. CASE j < at
      <4>1. i \in 1..(k - 1) /\ j \in 1..(k - 1) /\ i < at
        BY <2>5, <2>11, <3>1
      <4>2. q[i] = p[i] /\ q[j] = p[j]
        BY <2>6, <3>1, <4>1
      <4> QED
        BY <2>1, <2>11, <4>1, <4>2
    <3>2. CASE j = at
      <4>1. i \in 1..(k - 1) /\ i < at
        BY <2>5, <2>11, <3>2
      <4>2. q[i] = p[i] /\ q[j] = k
        BY <2>6, <3>2, <4>1
      <4> QED
        BY <2>7, <2>8, <4>1, <4>2
    <3>3. CASE j > at /\ i < at
      <4>1. i \in 1..(k - 1) /\ j - 1 \in 1..(k - 1) /\ j - 1 >= at /\ i < j - 1
        BY <2>5, <2>11, <3>3
      <4>2. q[i] = p[i] /\ q[j] = p[j - 1]
        BY <2>5, <2>6, <3>3
      <4> QED
        BY <2>1, <4>1, <4>2
    <3>4. CASE j > at /\ i = at
      <4>1. j - 1 \in 1..(k - 1) /\ j - 1 >= at
        BY <2>5, <2>11, <3>4
      <4>2. q[i] = k /\ q[j] = p[j - 1]
        BY <2>5, <2>6, <3>4
      <4> QED
        BY <2>7, <2>9, <4>1, <4>2
    <3>5. CASE j > at /\ i > at
      <4>1. i - 1 \in 1..(k - 1) /\ j - 1 \in 1..(k - 1) /\ i - 1 < j - 1
        BY <2>5, <2>11, <3>5
      <4>2. q[i] = p[i - 1] /\ q[j] = p[j - 1]
        BY <2>5, <2>6, <3>5
      <4> QED
        BY <2>1, <4>1, <4>2
    <3> QED
      BY <2>5, <3>1, <3>2, <3>3, <3>4, <3>5
  <2>12. ASSUME NEW i \in 1..k, NEW j \in 1..k, i # j PROVE q[i] # q[j]
    <3>1. i < j \/ j < i
      BY <2>12
    <3> QED
      BY <2>11, <3>1
  <2>13. Orders(q, k)
    BY <2>10, <2>11, <2>12
  <2>14. k \in 0..n
    OBVIOUS
  <2> HIDE DEF Orders
  <2> QED
    BY <2>13, <2>14
<1>3. n \in Done
  <2> HIDE DEF Done
  <2>1. 0..n \subseteq Done
    BY <1>1, <1>2, EveryRound
  <2> QED
    BY <2>1
<1>4. PICK p : Orders(p, n)
  BY <1>3
<1>5. IsInjective(p)
  BY <1>4 DEF IsInjective
<1> QED
  BY <1>4, <1>5

-----------------------------------------------------------------------------
(* Lists of intervals.                                                        *)

Interval == {i \in [start: Nat, end: Nat] : i.start < i.end}
SpanOf(i) == {t \in Nat : i.start <= t /\ t < i.end}

\* The minutes of the first k intervals of a list, and of all of them.
MinutesTo(s, k) == {t \in Nat : \E n \in 1..k : s[n].start <= t /\ t < s[n].end}
MinutesOfAll(s) == MinutesTo(s, Len(s))

LEMMA InMinutes ==
    ASSUME NEW s, NEW k, NEW t \in Nat
    PROVE  t \in MinutesTo(s, k) <=> \E n \in 1..k : s[n].start <= t /\ t < s[n].end
  BY DEF MinutesTo

\* One after the other.
Apart(s) == \A m, n \in 1..Len(s) : m < n => s[m].end <= s[n].start
ByStart(s) == \A m, n \in 1..Len(s) : m < n => s[m].start <= s[n].start

\* Sorting moves the intervals of a list and neither adds nor loses one.
LEMMA SortedHasAll ==
    ASSUME NEW s \in Seq(Interval)
    PROVE  /\ SortedByStart(s) \in Seq(Interval) /\ Len(SortedByStart(s)) = Len(s)
           /\ ByStart(SortedByStart(s))
           /\ MinutesOfAll(SortedByStart(s)) = MinutesOfAll(s)
<1>1. PICK n \in Nat : n = Len(s)
  OBVIOUS
<1>2. \A k \in 1..n : s[k] \in Interval /\ s[k].start \in Int
  BY <1>1 DEF Interval
<1> DEFINE IsOrder(p) == /\ IsInjective(p)
                         /\ \A k, m \in 1..n : k < m => s[p[k]].start <= s[p[m]].start
           order == CHOOSE p \in [1..n -> 1..n] : IsOrder(p)
<1>3. \E p \in [1..n -> 1..n] : IsOrder(p)
  <2>1. PICK x : x = [k \in 1..n |-> s[k].start]
    OBVIOUS
  <2>2. x \in [1..n -> Int]
    BY <1>2, <2>1
  <2>3. PICK p \in [1..n -> 1..n] :
            IsInjective(p) /\ \A k, m \in 1..n : k < m => x[p[k]] <= x[p[m]]
    BY <2>2, SomeOrder
  <2>4. ASSUME NEW k \in 1..n PROVE x[p[k]] = s[p[k]].start
    BY <2>1, <2>3
  <2> QED
    BY <2>3, <2>4
<1>4. order \in [1..n -> 1..n] /\ IsOrder(order)
  BY <1>3
<1>5. SortedByStart(s) = [k \in 1..n |-> s[order[k]]]
  BY <1>1 DEF SortedByStart
<1> HIDE DEF order
<1>6. PICK z : z = SortedByStart(s)
  OBVIOUS
<1>7. \A k \in 1..n : z[k] = s[order[k]] /\ z[k] \in Interval
  BY <1>2, <1>4, <1>5, <1>6
<1>8. z \in Seq(Interval) /\ Len(z) = n
  BY <1>5, <1>6, <1>7
<1>9. ByStart(z)
  BY <1>4, <1>7, <1>8 DEF ByStart
<1>10. \A m \in 1..n : \E k \in 1..n : order[k] = m
  <2>1. order \in Injection(1..n, 1..n)
    BY <1>4 DEF Injection, IsInjective
  <2>2. IsFiniteSet(1..n)
    BY FS_Interval
  <2>3. order \in Surjection(1..n, 1..n)
    BY <2>1, <2>2, FS_Injection
  <2> QED
    BY <2>3 DEF Surjection
<1>11. MinutesOfAll(z) = MinutesOfAll(s)
  <2>1. ASSUME NEW t \in MinutesTo(z, n) PROVE t \in MinutesTo(s, n)
    <3>1. PICK k \in 1..n : z[k].start <= t /\ t < z[k].end
      BY <2>1 DEF MinutesTo
    <3>2. order[k] \in 1..n /\ z[k] = s[order[k]]
      BY <1>4, <1>7
    <3> QED
      BY <2>1, <3>1, <3>2 DEF MinutesTo
  <2>2. ASSUME NEW t \in MinutesTo(s, n) PROVE t \in MinutesTo(z, n)
    <3>1. PICK m \in 1..n : s[m].start <= t /\ t < s[m].end
      BY <2>2 DEF MinutesTo
    <3>2. PICK k \in 1..n : order[k] = m
      BY <1>10
    <3>3. z[k] = s[m]
      BY <1>7, <3>2
    <3> QED
      BY <2>2, <3>1, <3>3 DEF MinutesTo
  <2>3. MinutesTo(z, n) = MinutesTo(s, n)
    BY <2>1, <2>2
  <2> QED
    BY <1>1, <1>8, <2>3 DEF MinutesOfAll
<1> QED
  BY <1>1, <1>6, <1>8, <1>9, <1>11

LEMMA WithLast ==
    ASSUME NEW A, NEW s \in Seq(A), s # << >>, NEW e \in A
    PROVE  /\ Len(s) \in 1..Len(s)
           /\ Front(s) \o <<e>> \in Seq(A) /\ Len(Front(s) \o <<e>>) = Len(s)
           /\ \A k \in 1..(Len(s) - 1) : (Front(s) \o <<e>>)[k] = s[k]
           /\ (Front(s) \o <<e>>)[Len(s)] = e
<1>1. PICK n \in Nat : n = Len(s)
  OBVIOUS
<1>2. n # 0
  BY <1>1
<1>3. PICK f : f = Front(s)
  OBVIOUS
<1>4. f \in Seq(A) /\ Len(f) = n - 1 /\ \A k \in 1..(n - 1) : f[k] = s[k]
  BY <1>1, <1>2, <1>3 DEF Front
<1>5. f \o <<e>> \in Seq(A) /\ Len(f \o <<e>>) = n
  BY <1>2, <1>4
<1>6. \A k \in 1..(n - 1) : (f \o <<e>>)[k] = s[k]
  BY <1>2, <1>4
<1>7. (f \o <<e>>)[n] = e
  BY <1>2, <1>4
<1> QED
  BY <1>1, <1>2, <1>3, <1>5, <1>6, <1>7

\* What a merged list is after the intervals that start by t.
MergedTo(merged, t) ==
    /\ merged \in Seq(Interval) /\ Apart(merged)
    /\ \A k \in 1..Len(merged) : merged[k].start <= t

\* An interval that starts no earlier than all of a merged list is merged into it.
LEMMA MergesOne ==
    ASSUME NEW i \in Interval, NEW merged, MergedTo(merged, i.start)
    PROVE  /\ MergedTo(MergeNext(merged, i), i.start)
           /\ MinutesOfAll(MergeNext(merged, i)) = MinutesOfAll(merged) \cup SpanOf(i)
<1>1. PICK n \in Nat : n = Len(merged)
  BY DEF MergedTo
<1>2. merged \in Seq(Interval) /\ \A k \in 1..n : merged[k] \in Interval /\ merged[k].start <= i.start
  BY <1>1 DEF MergedTo
<1>3. \A k, m \in 1..n : k < m => merged[k].end <= merged[m].start
  BY <1>1 DEF MergedTo, Apart
<1>4. \A j \in Interval : j.start \in Nat /\ j.end \in Nat /\ j.start < j.end
  BY DEF Interval
<1>5. PICK next : next = MergeNext(merged, i)
  OBVIOUS
<1>6. CASE merged # << >> /\ i.start <= Last(merged).end
  <2>1. n # 0 /\ n \in 1..n
    BY <1>1, <1>2, <1>6
  <2>2. PICK e : e = [Last(merged) EXCEPT !.end = IF i.end > @ THEN i.end ELSE @]
    OBVIOUS
  <2>3. Last(merged) = merged[n] /\ merged[n] \in Interval
    BY <1>1, <1>2, <2>1 DEF Last
  <2>4. /\ e \in Interval /\ e.start = merged[n].start
        /\ e.end = IF i.end > merged[n].end THEN i.end ELSE merged[n].end
    BY <1>4, <2>2, <2>3 DEF Interval
  <2>5. next = Front(merged) \o <<e>>
    BY <1>5, <1>6, <2>2 DEF MergeNext
  <2>6. /\ next \in Seq(Interval) /\ Len(next) = n /\ next[n] = e
        /\ \A k \in 1..(n - 1) : next[k] = merged[k]
    BY <1>1, <1>2, <1>6, <2>4, <2>5, WithLast
  <2>7. \A k \in 1..n : k # n => k \in 1..(n - 1)
    OBVIOUS
  <2>8. \A k \in 1..n : next[k].start = merged[k].start
    BY <2>4, <2>6, <2>7
  <2>9. Apart(next)
    <3>1. ASSUME NEW k \in 1..n, NEW m \in 1..n, k < m PROVE next[k].end <= next[m].start
      <4>1. k \in 1..(n - 1)
        BY <3>1
      <4>2. next[k] = merged[k] /\ next[m].start = merged[m].start
        BY <2>6, <2>8, <4>1
      <4> QED
        BY <1>3, <3>1, <4>2
    <3> QED
      BY <2>6, <3>1 DEF Apart
  <2>10. MergedTo(next, i.start)
    BY <1>2, <2>6, <2>8, <2>9 DEF MergedTo
  <2>11. ASSUME NEW t \in Nat
         PROVE  t \in MinutesTo(next, n) <=> t \in MinutesTo(merged, n) \/ t \in SpanOf(i)
    <3>1. (\E k \in 1..n : next[k].start <= t /\ t < next[k].end)
          <=> \/ \E k \in 1..(n - 1) : merged[k].start <= t /\ t < merged[k].end
              \/ e.start <= t /\ t < e.end
      BY <2>1, <2>6, <2>7
    <3>2. (\E k \in 1..n : merged[k].start <= t /\ t < merged[k].end)
          <=> \/ \E k \in 1..(n - 1) : merged[k].start <= t /\ t < merged[k].end
              \/ merged[n].start <= t /\ t < merged[n].end
      BY <2>1, <2>7
    <3>3. e.start <= t /\ t < e.end
          <=> (merged[n].start <= t /\ t < merged[n].end) \/ (i.start <= t /\ t < i.end)
      <4>1. i.start <= merged[n].end /\ merged[n].start <= i.start
        BY <1>2, <1>6, <2>1, <2>3
      <4> QED
        BY <1>4, <2>3, <2>4, <4>1
    <3> QED
      BY <3>1, <3>2, <3>3, InMinutes DEF SpanOf
  <2>12. MinutesTo(next, n) = MinutesTo(merged, n) \cup SpanOf(i)
    BY <2>11 DEF MinutesTo, SpanOf
  <2> QED
    BY <1>1, <1>5, <2>6, <2>10, <2>12 DEF MinutesOfAll
<1>7. CASE ~(merged # << >> /\ i.start <= Last(merged).end)
  <2>1. next = Append(merged, i)
    BY <1>5, <1>7 DEF MergeNext
  <2>2. /\ next \in Seq(Interval) /\ Len(next) = n + 1 /\ next[n + 1] = i
        /\ \A k \in 1..n : next[k] = merged[k]
    BY <1>1, <1>2, <2>1
  <2>3. \A k \in 1..(n + 1) : k # n + 1 => k \in 1..n
    OBVIOUS
  <2>4. \A k \in 1..n : merged[k].end <= i.start
    <3>1. ASSUME NEW k \in 1..n PROVE merged[k].end <= i.start
      <4>1. n # 0 /\ n \in 1..n
        OBVIOUS
      <4>2. Last(merged) = merged[n] /\ merged # << >>
        BY <1>1, <4>1 DEF Last
      <4>3. ~(i.start <= merged[n].end)
        BY <1>7, <4>2
      <4>4. merged[n].end <= i.start
        BY <1>2, <1>4, <4>1, <4>3
      <4>5. k = n \/ merged[k].end <= merged[n].start
        BY <1>3, <4>1
      <4> QED
        BY <1>2, <1>4, <4>1, <4>4, <4>5
    <3> QED
      BY <3>1
  <2>5. Apart(next)
    <3>1. ASSUME NEW k \in 1..(n + 1), NEW m \in 1..(n + 1), k < m PROVE next[k].end <= next[m].start
      <4>1. k \in 1..n /\ next[k] = merged[k]
        BY <2>2, <3>1
      <4>2. CASE m = n + 1
        BY <2>2, <2>4, <4>1, <4>2
      <4>3. CASE m # n + 1
        BY <1>3, <2>2, <2>3, <3>1, <4>1, <4>3
      <4> QED
        BY <4>2, <4>3
    <3> QED
      BY <2>2, <3>1 DEF Apart
  <2>6. MergedTo(next, i.start)
    <3>1. ASSUME NEW k \in 1..(n + 1) PROVE next[k].start <= i.start
      BY <1>2, <1>4, <2>2, <2>3
    <3> QED
      BY <2>2, <2>5, <3>1 DEF MergedTo
  <2>7. ASSUME NEW t \in Nat
        PROVE  t \in MinutesTo(next, n + 1) <=> t \in MinutesTo(merged, n) \/ t \in SpanOf(i)
    <3>1. (\E k \in 1..(n + 1) : next[k].start <= t /\ t < next[k].end)
          <=> \/ \E k \in 1..n : merged[k].start <= t /\ t < merged[k].end
              \/ i.start <= t /\ t < i.end
      BY <2>2, <2>3
    <3> QED
      BY <3>1, InMinutes DEF SpanOf
  <2>8. MinutesTo(next, n + 1) = MinutesTo(merged, n) \cup SpanOf(i)
    BY <2>7 DEF MinutesTo, SpanOf
  <2> QED
    BY <1>1, <1>5, <2>2, <2>6, <2>8 DEF MinutesOfAll
<1> QED
  BY <1>6, <1>7

\* The states of the loop of mergeIntervals.
LEMMA MergeRuns ==
    ASSUME NEW s \in Seq(Interval)
    PROVE  \E acc : /\ acc \in [0..Len(s) -> Seq(Interval)] /\ acc[0] = << >>
                    /\ \A k \in 1..Len(s) : acc[k] = MergeNext(acc[k - 1], s[k])
                    /\ FoldLeft(MergeNext, << >>, s) = acc[Len(s)]
<1> DEFINE A == Seq(Interval)
           Table(g) == [S \in SUBSET (DOMAIN s) |->
                           IF S = {} THEN << >> ELSE MergeNext(g[S \ {Max(S)}], s[Max(S)])]
<1>1. ASSUME NEW x \in A, NEW i \in Interval PROVE MergeNext(x, i) \in A
  <2>1. CASE x # << >> /\ i.start <= Last(x).end
    <3>1. PICK e : e = [Last(x) EXCEPT !.end = IF i.end > @ THEN i.end ELSE @]
      OBVIOUS
    <3>2. Last(x) \in Interval
      BY <2>1 DEF Last
    <3>3. e \in Interval
      BY <3>1, <3>2 DEF Interval
    <3> QED
      BY <2>1, <3>1, <3>3, WithLast DEF MergeNext
  <2>2. CASE ~(x # << >> /\ i.start <= Last(x).end)
    BY <2>2 DEF MergeNext
  <2> QED
    BY <2>1, <2>2
<1>2. << >> \in A
  OBVIOUS
<1> HIDE DEF A
<1>3. PICK f : f = [xi \in A \X Interval |-> MergeNext(xi[1], xi[2])]
  OBVIOUS
<1>4. \A x \in A, i \in Interval : f[<<x, i>>] = MergeNext(x, i)
  BY <1>3
<1>5. IsLoop(A, Interval, f, << >>, s)
  BY <1>1, <1>2, <1>3 DEF IsLoop
<1>6. PICK h : TypedTable(h, A, Interval, f, << >>, s)
  BY <1>5, LoopHasTable
<1>7. h = Table(h)
  BY <1>4, <1>6 DEF IsTable, TypedTable
<1>8. PICK g : g = Table(g) /\ FoldLeft(MergeNext, << >>, s) = g[DOMAIN s]
  BY <1>7 DEF FoldLeft, MapThenFoldSet
<1>9. StepsBy(g, A, f, << >>, s)
  <2>1. g[{}] = << >>
    BY <1>8
  <2>2. ASSUME NEW k \in 1..Len(s) PROVE g[1..k] = MergeNext(g[1..(k - 1)], s[k]) /\ s[k] \in Interval
    <3>1. /\ 1..k # {} /\ 1..k \in SUBSET (DOMAIN s) /\ s[k] \in Interval
          /\ Max(1..k) = k /\ (1..k) \ {k} = 1..(k - 1)
      BY Places
    <3>2. Table(g)[1..k] = MergeNext(g[1..(k - 1)], s[k])
      BY <3>1
    <3> QED
      BY <1>8, <3>1, <3>2
  <2> QED
    BY <1>4, <2>1, <2>2 DEF StepsBy
<1> HIDE DEF Table
<1>10. PICK acc : IsRun(acc, A, f, << >>, s) /\ EndsIn(g, acc, s)
  BY <1>5, <1>9, TableIsRun
<1>11. ASSUME NEW k \in 1..Len(s) PROVE acc[k] = MergeNext(acc[k - 1], s[k])
  <2>1. k - 1 \in 0..Len(s) /\ s[k] \in Interval
    OBVIOUS
  <2>2. acc[k - 1] \in A /\ acc[k] = f[<<acc[k - 1], s[k]>>]
    BY <1>10, <2>1 DEF IsRun
  <2> QED
    BY <1>4, <2>1, <2>2
<1> QED
  BY <1>8, <1>10, <1>11 DEF A, IsRun, EndsIn

\* What mergeIntervals returns: intervals one after the other, with the same minutes.
LEMMA Merged ==
    ASSUME NEW s \in Seq(Interval)
    PROVE  /\ MergeIntervals(s) \in Seq(Interval) /\ Apart(MergeIntervals(s))
           /\ MinutesOfAll(MergeIntervals(s)) = MinutesOfAll(s)
<1>1. PICK z : z = SortedByStart(s)
  OBVIOUS
<1>2. /\ z \in Seq(Interval) /\ Len(z) = Len(s) /\ ByStart(z)
      /\ MinutesOfAll(z) = MinutesOfAll(s)
  BY <1>1, SortedHasAll
<1>3. PICK n \in Nat : n = Len(z)
  BY <1>2
<1>4. PICK acc : /\ acc \in [0..n -> Seq(Interval)] /\ acc[0] = << >>
                 /\ \A k \in 1..n : acc[k] = MergeNext(acc[k - 1], z[k])
                 /\ FoldLeft(MergeNext, << >>, z) = acc[n]
  BY <1>2, <1>3, MergeRuns
<1>5. MergeIntervals(s) = acc[n]
  BY <1>1, <1>4 DEF MergeIntervals
<1>6. \A k \in 1..n : z[k] \in Interval /\ z[k].start \in Nat
  BY <1>2, <1>3 DEF Interval
<1>7. \A j, k \in 1..n : j < k => z[j].start <= z[k].start
  BY <1>2, <1>3 DEF ByStart
<1> DEFINE Latest(k) == IF k = 0 THEN 0 ELSE z[k].start
           OK(k) == MergedTo(acc[k], Latest(k)) /\ MinutesOfAll(acc[k]) = MinutesTo(z, k)
           Done == {k \in 0..n : OK(k)}
<1>8. 0 \in Done
  <2>1. MinutesTo(z, 0) = {} /\ MinutesOfAll(<< >>) = {}
    BY DEF MinutesOfAll, MinutesTo
  <2>2. MergedTo(<< >>, 0)
    BY DEF MergedTo, Apart
  <2>3. OK(0)
    BY <1>4, <2>1, <2>2
  <2>4. 0 \in 0..n
    OBVIOUS
  <2> HIDE DEF OK
  <2> QED
    BY <2>3, <2>4
<1>9. ASSUME NEW k \in 1..n, k - 1 \in Done PROVE k \in Done
  <2>1. OK(k - 1) /\ k \in 0..n /\ k - 1 \in 0..n
    BY <1>9
  <2>2. PICK m : m = acc[k - 1]
    OBVIOUS
  <2>3. Latest(k - 1) <= z[k].start /\ Latest(k - 1) \in Nat
    <3>1. CASE k = 1
      BY <1>6, <3>1
    <3>2. CASE k # 1
      <4>1. k - 1 \in 1..n
        BY <3>2
      <4> QED
        BY <1>6, <1>7, <3>2, <4>1
    <3> QED
      BY <3>1, <3>2
  <2>4. MergedTo(m, z[k].start)
    <3>1. m \in Seq(Interval) /\ Apart(m) /\ \A j \in 1..Len(m) : m[j].start <= Latest(k - 1)
      BY <2>1, <2>2 DEF MergedTo
    <3>2. ASSUME NEW j \in 1..Len(m) PROVE m[j].start <= z[k].start
      <4>1. m[j] \in Interval /\ m[j].start <= Latest(k - 1)
        BY <3>1
      <4>2. m[j].start \in Nat
        BY <4>1 DEF Interval
      <4> HIDE DEF Latest
      <4> QED
        BY <1>6, <2>3, <4>1, <4>2
    <3> QED
      BY <3>1, <3>2 DEF MergedTo
  <2>5. acc[k] = MergeNext(m, z[k]) /\ z[k] \in Interval
    BY <1>4, <1>6, <2>2
  <2>6. /\ MergedTo(acc[k], z[k].start)
        /\ MinutesOfAll(acc[k]) = MinutesOfAll(m) \cup SpanOf(z[k])
    BY <2>4, <2>5, MergesOne
  <2>7. MinutesTo(z, k) = MinutesTo(z, k - 1) \cup SpanOf(z[k])
    <3>1. \A j : j \in 1..k <=> j \in 1..(k - 1) \/ j = k
      OBVIOUS
    <3> QED
      BY <3>1 DEF MinutesTo, SpanOf
  <2>8. MinutesOfAll(acc[k]) = MinutesTo(z, k)
    BY <2>1, <2>2, <2>6, <2>7
  <2>9. Latest(k) = z[k].start
    OBVIOUS
  <2>10. OK(k)
    BY <2>6, <2>8, <2>9
  <2> HIDE DEF OK
  <2> QED
    BY <2>1, <2>10
<1>10. OK(n)
  <2> HIDE DEF Done
  <2>1. 0..n \subseteq Done
    BY <1>8, <1>9, EveryRound
  <2>2. n \in Done
    BY <2>1
  <2> USE DEF Done
  <2> HIDE DEF OK
  <2> QED
    BY <2>2
<1>11. MinutesTo(z, n) = MinutesOfAll(z)
  BY <1>3 DEF MinutesOfAll
<1> QED
  BY <1>2, <1>5, <1>10, <1>11 DEF MergedTo

-----------------------------------------------------------------------------
(* Counting minutes.                                                          *)

LEMMA OneMore ==
    ASSUME NEW s, NEW k \in Nat \ {0}
    PROVE  MinutesTo(s, k) = MinutesTo(s, k - 1) \cup SpanOf(s[k])
<1>1. \A j : j \in 1..k <=> j \in 1..(k - 1) \/ j = k
  OBVIOUS
<1> QED
  BY <1>1 DEF MinutesTo, SpanOf

\* In a list of intervals one after the other, one more has no minute of those before.
LEMMA OneApart ==
    ASSUME NEW s \in Seq(Interval), Apart(s), NEW k \in 1..Len(s)
    PROVE  /\ s[k] \in Interval
           /\ MinutesTo(s, k) = MinutesTo(s, k - 1) \cup SpanOf(s[k])
           /\ MinutesTo(s, k - 1) \cap SpanOf(s[k]) = {}
<1>1. s[k] \in Interval /\ s[k].start \in Nat
  BY DEF Interval
<1>2. ASSUME NEW t \in MinutesTo(s, k - 1) PROVE t \notin SpanOf(s[k])
  <2>1. t \in Nat
    BY <1>2 DEF MinutesTo
  <2>2. PICK j \in 1..(k - 1) : s[j].start <= t /\ t < s[j].end
    BY <1>2, <2>1, InMinutes
  <2>3. j \in 1..Len(s) /\ j < k
    OBVIOUS
  <2>4. s[j].end <= s[k].start /\ s[j].end \in Nat
    BY <2>3 DEF Apart, Interval
  <2> QED
    BY <1>1, <2>1, <2>2, <2>4 DEF SpanOf
<1>3. MinutesTo(s, k) = MinutesTo(s, k - 1) \cup SpanOf(s[k])
  BY OneMore
<1> QED
  BY <1>1, <1>2, <1>3

LEMMA MinutesOfOne ==
    ASSUME NEW i \in Interval
    PROVE  /\ i.start \in Nat /\ i.end \in Nat /\ i.start < i.end
           /\ SpanOf(i) = i.start..(i.end - 1)
           /\ IsFiniteSet(SpanOf(i)) /\ Cardinality(SpanOf(i)) = i.end - i.start
<1>1. i.start \in Nat /\ i.end \in Nat /\ i.start < i.end
  BY DEF Interval
<1>2. SpanOf(i) = i.start..(i.end - 1)
  BY <1>1 DEF SpanOf
<1> QED
  BY <1>1, <1>2, FS_Interval

LEMMA MinutesBetween ==
    ASSUME NEW a \in Nat, NEW c \in Nat, NEW S, S = {t \in Nat : a <= t /\ t < c}
    PROVE  IsFiniteSet(S) /\ Cardinality(S) = IF c > a THEN c - a ELSE 0
<1>1. S = a..(c - 1)
  OBVIOUS
<1>2. PICK m \in Int : m = c - 1
  OBVIOUS
<1>3. IsFiniteSet(a..m) /\ Cardinality(a..m) = IF a > m THEN 0 ELSE m - a + 1
  BY FS_Interval
<1>4. (IF a > m THEN 0 ELSE m - a + 1) = IF c > a THEN c - a ELSE 0
  BY <1>2
<1> QED
  BY <1>1, <1>2, <1>3, <1>4

LEMMA CountsBoth ==
    ASSUME NEW S, NEW T, IsFiniteSet(S), IsFiniteSet(T), S \cap T = {}
    PROVE  /\ IsFiniteSet(S \cup T)
           /\ Cardinality(S \cup T) = Cardinality(S) + Cardinality(T)
           /\ Cardinality(S) \in Nat /\ Cardinality(T) \in Nat
  BY FS_Union, FS_EmptySet, FS_CardinalityType

\* The states of the sum of the lengths.
LEMMA LengthRuns ==
    ASSUME NEW s \in Seq(Interval)
    PROVE  \E acc : /\ acc \in [0..Len(s) -> Int] /\ acc[0] = 0
                    /\ \A k \in 1..Len(s) : acc[k] = acc[k - 1] + (s[k].end - s[k].start)
                    /\ SumOfLengths(s) = acc[Len(s)]
<1> DEFINE Op(x, i) == x + (i.end - i.start)
           Table(g) == [S \in SUBSET (DOMAIN s) |->
                           IF S = {} THEN 0 ELSE Op(g[S \ {Max(S)}], s[Max(S)])]
<1>1. \A x \in Int, i \in Interval : Op(x, i) \in Int
  BY DEF Interval
<1>2. PICK f : f = [xi \in Int \X Interval |-> Op(xi[1], xi[2])]
  OBVIOUS
<1>3. \A x \in Int, i \in Interval : f[<<x, i>>] = Op(x, i)
  BY <1>2
<1>4. IsLoop(Int, Interval, f, 0, s)
  BY <1>1, <1>2 DEF IsLoop
<1>5. PICK h : TypedTable(h, Int, Interval, f, 0, s)
  BY <1>4, LoopHasTable
<1>6. h = Table(h)
  <2> HIDE DEF Op
  <2> QED
    BY <1>3, <1>5 DEF IsTable, TypedTable
<1>7. PICK g : g = Table(g) /\ SumOfLengths(s) = g[DOMAIN s]
  BY <1>6 DEF SumOfLengths, FoldLeft, MapThenFoldSet
<1> HIDE DEF Op
<1>8. StepsBy(g, Int, f, 0, s)
  <2>1. g[{}] = 0
    BY <1>7
  <2>2. ASSUME NEW k \in 1..Len(s) PROVE g[1..k] = Op(g[1..(k - 1)], s[k]) /\ s[k] \in Interval
    <3>1. /\ 1..k # {} /\ 1..k \in SUBSET (DOMAIN s) /\ s[k] \in Interval
          /\ Max(1..k) = k /\ (1..k) \ {k} = 1..(k - 1)
      BY Places
    <3>2. Table(g)[1..k] = Op(g[1..(k - 1)], s[k])
      BY <3>1
    <3> QED
      BY <1>7, <3>1, <3>2
  <2> QED
    BY <1>3, <2>1, <2>2 DEF StepsBy
<1> HIDE DEF Table
<1>9. PICK acc : IsRun(acc, Int, f, 0, s) /\ EndsIn(g, acc, s)
  BY <1>4, <1>8, TableIsRun
<1>10. ASSUME NEW k \in 1..Len(s) PROVE acc[k] = Op(acc[k - 1], s[k])
  <2>1. k - 1 \in 0..Len(s) /\ s[k] \in Interval
    OBVIOUS
  <2>2. acc[k - 1] \in Int /\ acc[k] = f[<<acc[k - 1], s[k]>>]
    BY <1>9, <2>1 DEF IsRun
  <2> QED
    BY <1>3, <2>1, <2>2
<1> QED
  BY <1>7, <1>9, <1>10 DEF IsRun, EndsIn, Op

\* The lengths of intervals one after the other add up to their minutes.
LEMMA LengthsCount ==
    ASSUME NEW s \in Seq(Interval), Apart(s)
    PROVE  /\ IsFiniteSet(MinutesOfAll(s))
           /\ SumOfLengths(s) = Cardinality(MinutesOfAll(s))
<1>1. PICK n \in Nat : n = Len(s)
  OBVIOUS
<1>2. PICK acc : /\ acc \in [0..n -> Int] /\ acc[0] = 0
                 /\ \A k \in 1..n : acc[k] = acc[k - 1] + (s[k].end - s[k].start)
                 /\ SumOfLengths(s) = acc[n]
  BY <1>1, LengthRuns
<1> DEFINE OK(k) == IsFiniteSet(MinutesTo(s, k)) /\ acc[k] = Cardinality(MinutesTo(s, k))
           Done == {k \in 0..n : OK(k)}
<1>3. 0 \in Done
  <2>1. MinutesTo(s, 0) = {}
    BY DEF MinutesTo
  <2>2. IsFiniteSet(MinutesTo(s, 0)) /\ Cardinality(MinutesTo(s, 0)) = 0
    BY <2>1, FS_EmptySet
  <2>3. OK(0) /\ 0 \in 0..n
    BY <1>2, <2>2
  <2> HIDE DEF OK
  <2> QED
    BY <2>3
<1>4. ASSUME NEW k \in 1..n, k - 1 \in Done PROVE k \in Done
  <2>1. OK(k - 1) /\ k \in 0..n
    BY <1>4
  <2>2. /\ s[k] \in Interval /\ MinutesTo(s, k) = MinutesTo(s, k - 1) \cup SpanOf(s[k])
        /\ MinutesTo(s, k - 1) \cap SpanOf(s[k]) = {}
    BY <1>1, OneApart
  <2>3. IsFiniteSet(SpanOf(s[k])) /\ Cardinality(SpanOf(s[k])) = s[k].end - s[k].start
    BY <2>2, MinutesOfOne
  <2>4. /\ IsFiniteSet(MinutesTo(s, k))
        /\ Cardinality(MinutesTo(s, k)) = Cardinality(MinutesTo(s, k - 1)) + (s[k].end - s[k].start)
    BY <2>1, <2>2, <2>3, CountsBoth
  <2>5. OK(k)
    BY <1>2, <2>1, <2>4
  <2> HIDE DEF OK
  <2> QED
    BY <2>1, <2>5
<1>5. n \in Done
  <2> HIDE DEF Done
  <2>1. 0..n \subseteq Done
    BY <1>3, <1>4, EveryRound
  <2> QED
    BY <2>1
<1>6. OK(n)
  <2> HIDE DEF OK
  <2> QED
    BY <1>5
<1> QED
  BY <1>1, <1>2, <1>6 DEF MinutesOfAll

\* The states of the cursor of subtractMinutes in a segment.
LEMMA CursorRuns ==
    ASSUME NEW seg \in Interval, NEW b \in Seq(Interval)
    PROVE  \E acc : /\ acc \in [0..Len(b) -> [total: Int, cursor: Nat]]
                    /\ acc[0] = [total |-> 0, cursor |-> seg.start]
                    /\ \A k \in 1..Len(b) : acc[k] = PastInterval(seg, acc[k - 1], b[k])
                    /\ Uncovered(seg, b) = acc[Len(b)].total
                          + (IF acc[Len(b)].cursor < seg.end THEN seg.end - acc[Len(b)].cursor ELSE 0)
<1> DEFINE A == [total: Int, cursor: Nat]
           base == [total |-> 0, cursor |-> seg.start]
           Op(x, i) == PastInterval(seg, x, i)
           Table(g) == [S \in SUBSET (DOMAIN b) |->
                           IF S = {} THEN base ELSE Op(g[S \ {Max(S)}], b[Max(S)])]
<1>1. ASSUME NEW x \in A, NEW i \in Interval PROVE Op(x, i) \in A
  BY MinutesOfOne DEF PastInterval
<1>2. base \in A
  BY MinutesOfOne
<1> HIDE DEF base, A
<1>3. PICK f : f = [xi \in A \X Interval |-> Op(xi[1], xi[2])]
  OBVIOUS
<1> HIDE DEF Op
<1>4. \A x \in A, i \in Interval : f[<<x, i>>] = Op(x, i)
  BY <1>3
<1>5. IsLoop(A, Interval, f, base, b)
  BY <1>1, <1>2, <1>3 DEF IsLoop
<1>6. PICK h : TypedTable(h, A, Interval, f, base, b)
  BY <1>5, LoopHasTable
<1>7. h = Table(h)
  BY <1>4, <1>6 DEF IsTable, TypedTable
<1> DEFINE Ends(at) == at.total + (IF at.cursor < seg.end THEN seg.end - at.cursor ELSE 0)
<1>8. PICK g : g = Table(g) /\ Uncovered(seg, b) = Ends(g[DOMAIN b])
  BY <1>7 DEF Uncovered, FoldLeft, MapThenFoldSet, base, Op
<1> HIDE DEF Ends
<1>9. StepsBy(g, A, f, base, b)
  <2>1. g[{}] = base
    BY <1>8
  <2>2. ASSUME NEW k \in 1..Len(b) PROVE g[1..k] = Op(g[1..(k - 1)], b[k]) /\ b[k] \in Interval
    <3>1. /\ 1..k # {} /\ 1..k \in SUBSET (DOMAIN b) /\ b[k] \in Interval
          /\ Max(1..k) = k /\ (1..k) \ {k} = 1..(k - 1)
      BY Places
    <3>2. Table(g)[1..k] = Op(g[1..(k - 1)], b[k])
      BY <3>1
    <3> QED
      BY <1>8, <3>1, <3>2
  <2> QED
    BY <1>4, <2>1, <2>2 DEF StepsBy
<1> HIDE DEF Table
<1>10. PICK acc : IsRun(acc, A, f, base, b) /\ EndsIn(g, acc, b)
  BY <1>5, <1>9, TableIsRun
<1>11. ASSUME NEW k \in 1..Len(b) PROVE acc[k] = Op(acc[k - 1], b[k])
  <2>1. k - 1 \in 0..Len(b) /\ b[k] \in Interval
    OBVIOUS
  <2>2. acc[k - 1] \in A /\ acc[k] = f[<<acc[k - 1], b[k]>>]
    BY <1>10, <2>1 DEF IsRun
  <2> QED
    BY <1>4, <2>1, <2>2
<1>12. Uncovered(seg, b) = Ends(acc[Len(b)])
  BY <1>8, <1>10 DEF EndsIn
<1> QED
  BY <1>10, <1>11, <1>12 DEF IsRun, Ends, A, base, Op

\* What the cursor has counted after k intervals: the minutes it has passed that none of
\* them covers.  None of them covers any it has still to pass, and none after them begins
\* before it, unless it has not moved.
CursorAt(seg, b, k, at) ==
    /\ at.total \in Int /\ at.cursor \in Nat /\ at.cursor >= seg.start
    /\ \A j \in (k + 1)..Len(b) : at.cursor = seg.start \/ at.cursor <= b[j].start
    /\ \A t \in MinutesTo(b, k) : ~(at.cursor <= t /\ t < seg.end)
    /\ LET passed == {t \in SpanOf(seg) \ MinutesTo(b, k) : t < at.cursor}
       IN IsFiniteSet(passed) /\ at.total = Cardinality(passed)

LEMMA CursorMoves ==
    ASSUME NEW seg \in Interval, NEW b \in Seq(Interval), Apart(b), NEW k \in 1..Len(b),
           NEW at, CursorAt(seg, b, k - 1, at)
    PROVE  CursorAt(seg, b, k, PastInterval(seg, at, b[k]))
<1>1. PICK n \in Nat : n = Len(b)
  OBVIOUS
<1>2. /\ b[k].start \in Nat /\ b[k].end \in Nat /\ b[k].start < b[k].end
      /\ seg.start \in Nat /\ seg.end \in Nat /\ seg.start < seg.end
  BY MinutesOfOne
<1>3. MinutesTo(b, k) = MinutesTo(b, k - 1) \cup SpanOf(b[k])
  BY OneApart
<1>4. /\ at.total \in Int /\ at.cursor \in Nat /\ at.cursor >= seg.start
      /\ at.cursor = seg.start \/ at.cursor <= b[k].start
      /\ \A j \in (k + 1)..n : at.cursor = seg.start \/ at.cursor <= b[j].start
      /\ \A t \in MinutesTo(b, k - 1) : ~(at.cursor <= t /\ t < seg.end)
  BY <1>1 DEF CursorAt
<1>5. ASSUME NEW j \in (k + 1)..n PROVE b[k].end <= b[j].start
  BY <1>1, <1>5 DEF Apart
<1> DEFINE Passed(m, c) == {t \in SpanOf(seg) \ MinutesTo(b, m) : t < c}
<1>6. IsFiniteSet(Passed(k - 1, at.cursor)) /\ at.total = Cardinality(Passed(k - 1, at.cursor))
  BY DEF CursorAt
<1>7. \A t : t \in SpanOf(seg) <=> t \in Nat /\ seg.start <= t /\ t < seg.end
  BY DEF SpanOf
<1>8. \A t : t \in SpanOf(b[k]) <=> t \in Nat /\ b[k].start <= t /\ t < b[k].end
  BY DEF SpanOf
\* The cursor has met no minute of the interval: it starts there or has not moved.
<1>9. Passed(k, at.cursor) = Passed(k - 1, at.cursor)
  <2>1. ASSUME NEW t \in SpanOf(seg), t < at.cursor PROVE t \notin SpanOf(b[k])
    BY <1>2, <1>4, <1>7, <1>8, <2>1
  <2> QED
    BY <1>3, <2>1
<1>10. CASE b[k].end <= at.cursor \/ b[k].start >= seg.end \/ at.cursor >= seg.end
  <2>1. PastInterval(seg, at, b[k]) = at
    BY <1>10 DEF PastInterval
  <2>2. ASSUME NEW t \in SpanOf(b[k]) PROVE ~(at.cursor <= t /\ t < seg.end)
    BY <1>2, <1>4, <1>8, <1>10, <2>2
  <2>3. \A t \in MinutesTo(b, k) : ~(at.cursor <= t /\ t < seg.end)
    BY <1>3, <1>4, <2>2
  <2> HIDE DEF Passed
  <2>4. IsFiniteSet(Passed(k, at.cursor)) /\ at.total = Cardinality(Passed(k, at.cursor))
    BY <1>6, <1>9
  <2> QED
    BY <1>1, <1>4, <2>1, <2>3, <2>4 DEF CursorAt, Passed
<1>11. CASE ~(b[k].end <= at.cursor \/ b[k].start >= seg.end \/ at.cursor >= seg.end)
  <2>1. at.cursor < b[k].end /\ b[k].start < seg.end /\ at.cursor < seg.end
    BY <1>2, <1>4, <1>11
  <2>2. PICK gap : gap = {t \in Nat : at.cursor <= t /\ t < b[k].start}
    OBVIOUS
  <2>3. PICK next : next = PastInterval(seg, at, b[k])
    OBVIOUS
  <2>4. /\ next.cursor = b[k].end
        /\ next.total = at.total + (IF b[k].start > at.cursor THEN b[k].start - at.cursor ELSE 0)
    BY <1>11, <2>3 DEF PastInterval
  <2>5. /\ IsFiniteSet(gap)
        /\ Cardinality(gap) = IF b[k].start > at.cursor THEN b[k].start - at.cursor ELSE 0
    <3>1. PICK from \in Nat, to \in Nat : from = at.cursor /\ to = b[k].start
      BY <1>2, <1>4
    <3>2. gap = {t \in Nat : from <= t /\ t < to}
      BY <2>2, <3>1
    <3>3. IsFiniteSet(gap) /\ Cardinality(gap) = IF to > from THEN to - from ELSE 0
      BY <3>2, MinutesBetween
    <3> QED
      BY <3>1, <3>3
  <2>6. Passed(k, b[k].end) = Passed(k - 1, at.cursor) \cup gap
    <3>1. ASSUME NEW t \in Passed(k, b[k].end) PROVE t \in Passed(k - 1, at.cursor) \/ t \in gap
      <4>1. t \in SpanOf(seg) /\ t \notin MinutesTo(b, k - 1) /\ t \notin SpanOf(b[k]) /\ t < b[k].end
        BY <1>3, <3>1
      <4> QED
        BY <1>2, <1>4, <1>7, <1>8, <2>2, <4>1
    <3>2. ASSUME NEW t \in Passed(k - 1, at.cursor) PROVE t \in Passed(k, b[k].end)
      <4>1. t \in Passed(k, at.cursor)
        BY <1>9, <3>2
      <4> QED
        BY <1>2, <1>4, <1>7, <2>1, <4>1
    <3>3. ASSUME NEW t \in gap PROVE t \in Passed(k, b[k].end)
      <4>1. t \in Nat /\ at.cursor <= t /\ t < b[k].start
        BY <2>2, <3>3
      <4>2. t < seg.end /\ seg.start <= t /\ t < b[k].end
        BY <1>2, <1>4, <2>1, <4>1
      <4>3. t \notin MinutesTo(b, k - 1) /\ t \notin SpanOf(b[k])
        BY <1>2, <1>4, <1>8, <4>1, <4>2
      <4> QED
        BY <1>3, <1>7, <4>1, <4>2, <4>3
    <3> QED
      BY <3>1, <3>2, <3>3
  <2>7. Passed(k - 1, at.cursor) \cap gap = {}
    BY <1>4, <1>7, <2>2
  <2>8. ASSUME NEW t \in MinutesTo(b, k) PROVE ~(next.cursor <= t /\ t < seg.end)
    <3>1. t \in Nat /\ (t \in MinutesTo(b, k - 1) \/ t \in SpanOf(b[k]))
      BY <1>3, <2>8 DEF MinutesTo
    <3> QED
      BY <1>2, <1>4, <1>8, <2>1, <2>4, <3>1
  <2> HIDE DEF Passed
  <2>9. IsFiniteSet(Passed(k, b[k].end)) /\ next.total = Cardinality(Passed(k, b[k].end))
    <3>1. /\ IsFiniteSet(Passed(k, b[k].end))
          /\ Cardinality(Passed(k, b[k].end)) = Cardinality(Passed(k - 1, at.cursor)) + Cardinality(gap)
      BY <1>6, <2>5, <2>6, <2>7, CountsBoth
    <3> QED
      BY <1>6, <2>4, <2>5, <3>1
  <2>10. next.total \in Int /\ next.cursor \in Nat /\ next.cursor >= seg.start
    BY <1>2, <1>4, <2>1, <2>4
  <2> QED
    BY <1>1, <1>5, <2>3, <2>4, <2>8, <2>9, <2>10 DEF CursorAt, Passed
<1> QED
  BY <1>10, <1>11

\* What subtractMinutes counts in a segment: its minutes that no interval covers.
LEMMA UncoveredCounts ==
    ASSUME NEW seg \in Interval, NEW b \in Seq(Interval), Apart(b)
    PROVE  /\ IsFiniteSet(SpanOf(seg) \ MinutesOfAll(b))
           /\ Uncovered(seg, b) = Cardinality(SpanOf(seg) \ MinutesOfAll(b))
<1>1. PICK n \in Nat : n = Len(b)
  OBVIOUS
<1>2. PICK acc : /\ acc \in [0..n -> [total: Int, cursor: Nat]]
                 /\ acc[0] = [total |-> 0, cursor |-> seg.start]
                 /\ \A k \in 1..n : acc[k] = PastInterval(seg, acc[k - 1], b[k])
                 /\ Uncovered(seg, b) = acc[n].total
                       + (IF acc[n].cursor < seg.end THEN seg.end - acc[n].cursor ELSE 0)
  BY <1>1, CursorRuns
<1>3. seg.start \in Nat /\ seg.end \in Nat /\ seg.start < seg.end
  BY MinutesOfOne
<1> DEFINE Done == {k \in 0..n : CursorAt(seg, b, k, acc[k])}
<1>4. 0 \in Done
  <2>1. MinutesTo(b, 0) = {}
    BY DEF MinutesTo
  <2>2. {t \in SpanOf(seg) \ MinutesTo(b, 0) : t < seg.start} = {}
    BY <1>3 DEF SpanOf
  <2>3. acc[0].total = 0 /\ acc[0].cursor = seg.start
    BY <1>2
  <2>4. IsFiniteSet({}) /\ Cardinality({}) = 0
    BY FS_EmptySet
  <2>5. CursorAt(seg, b, 0, acc[0])
    <3>1. PICK at : at = acc[0]
      OBVIOUS
    <3>2. PICK passed : passed = {t \in SpanOf(seg) \ MinutesTo(b, 0) : t < at.cursor}
      OBVIOUS
    <3>3. passed = {}
      BY <2>2, <2>3, <3>1, <3>2
    <3>4. IsFiniteSet(passed) /\ at.total = Cardinality(passed)
      BY <2>3, <2>4, <3>1, <3>3
    <3> QED
      BY <1>3, <2>1, <2>3, <3>1, <3>2, <3>4 DEF CursorAt
  <2> QED
    BY <2>5
<1>5. ASSUME NEW k \in 1..n, k - 1 \in Done PROVE k \in Done
  <2>1. CursorAt(seg, b, k, PastInterval(seg, acc[k - 1], b[k]))
    BY <1>1, <1>5, CursorMoves
  <2> QED
    BY <1>2, <2>1
<1>6. CursorAt(seg, b, n, acc[n])
  <2> HIDE DEF Done
  <2>1. 0..n \subseteq Done
    BY <1>4, <1>5, EveryRound
  <2>2. n \in Done
    BY <2>1
  <2> QED
    BY <2>2 DEF Done
<1>7. PICK at : at = acc[n]
  OBVIOUS
<1>8. /\ at.total \in Int /\ at.cursor \in Nat /\ at.cursor >= seg.start
      /\ \A t \in MinutesTo(b, n) : ~(at.cursor <= t /\ t < seg.end)
  BY <1>6, <1>7 DEF CursorAt
<1>9. PICK passed : passed = {t \in SpanOf(seg) \ MinutesTo(b, n) : t < at.cursor}
  OBVIOUS
<1>10. IsFiniteSet(passed) /\ at.total = Cardinality(passed)
  BY <1>6, <1>7, <1>9 DEF CursorAt
<1>11. PICK rest : rest = {t \in Nat : at.cursor <= t /\ t < seg.end}
  OBVIOUS
<1>12. /\ IsFiniteSet(rest)
       /\ Cardinality(rest) = IF seg.end > at.cursor THEN seg.end - at.cursor ELSE 0
  BY <1>3, <1>8, <1>11, MinutesBetween
<1>13. SpanOf(seg) \ MinutesTo(b, n) = passed \cup rest
  BY <1>3, <1>8, <1>9, <1>11 DEF SpanOf
<1>14. passed \cap rest = {}
  BY <1>8, <1>9, <1>11 DEF SpanOf
<1>15. /\ IsFiniteSet(passed \cup rest)
       /\ Cardinality(passed \cup rest) = Cardinality(passed) + Cardinality(rest)
  BY <1>10, <1>12, <1>14, CountsBoth
<1> QED
  BY <1>1, <1>2, <1>7, <1>10, <1>12, <1>13, <1>15 DEF MinutesOfAll

LEMMA SubtractRuns ==
    ASSUME NEW a \in Seq(Interval), NEW b \in Seq(Interval), Apart(b)
    PROVE  \E acc : /\ acc \in [0..Len(a) -> Int] /\ acc[0] = 0
                    /\ \A k \in 1..Len(a) : acc[k] = acc[k - 1] + Uncovered(a[k], b)
                    /\ SubtractMinutes(a, b) = acc[Len(a)]
<1> DEFINE Op(x, i) == x + Uncovered(i, b)
           Table(g) == [S \in SUBSET (DOMAIN a) |->
                           IF S = {} THEN 0 ELSE Op(g[S \ {Max(S)}], a[Max(S)])]
<1>1. ASSUME NEW x \in Int, NEW i \in Interval PROVE Op(x, i) \in Int
  <2>1. PICK S : S = SpanOf(i) \ MinutesOfAll(b)
    OBVIOUS
  <2>2. IsFiniteSet(S) /\ Uncovered(i, b) = Cardinality(S)
    BY <2>1, UncoveredCounts
  <2>3. Uncovered(i, b) \in Int
    BY <2>2, FS_CardinalityType
  <2> QED
    BY <2>3
<1>2. PICK f : f = [xi \in Int \X Interval |-> Op(xi[1], xi[2])]
  OBVIOUS
<1> HIDE DEF Op
<1>3. \A x \in Int, i \in Interval : f[<<x, i>>] = Op(x, i)
  BY <1>2
<1>4. IsLoop(Int, Interval, f, 0, a)
  BY <1>1, <1>2 DEF IsLoop
<1>5. PICK h : TypedTable(h, Int, Interval, f, 0, a)
  BY <1>4, LoopHasTable
<1>6. h = Table(h)
  BY <1>3, <1>5 DEF IsTable, TypedTable
<1>7. PICK g : g = Table(g) /\ SubtractMinutes(a, b) = g[DOMAIN a]
  BY <1>6 DEF SubtractMinutes, FoldLeft, MapThenFoldSet, Op
<1>8. StepsBy(g, Int, f, 0, a)
  <2>1. g[{}] = 0
    BY <1>7
  <2>2. ASSUME NEW k \in 1..Len(a) PROVE g[1..k] = Op(g[1..(k - 1)], a[k]) /\ a[k] \in Interval
    <3>1. /\ 1..k # {} /\ 1..k \in SUBSET (DOMAIN a) /\ a[k] \in Interval
          /\ Max(1..k) = k /\ (1..k) \ {k} = 1..(k - 1)
      BY Places
    <3>2. Table(g)[1..k] = Op(g[1..(k - 1)], a[k])
      BY <3>1
    <3> QED
      BY <1>7, <3>1, <3>2
  <2> QED
    BY <1>3, <2>1, <2>2 DEF StepsBy
<1> HIDE DEF Table
<1>9. PICK acc : IsRun(acc, Int, f, 0, a) /\ EndsIn(g, acc, a)
  BY <1>4, <1>8, TableIsRun
<1>10. ASSUME NEW k \in 1..Len(a) PROVE acc[k] = Op(acc[k - 1], a[k])
  <2>1. k - 1 \in 0..Len(a) /\ a[k] \in Interval
    OBVIOUS
  <2>2. acc[k - 1] \in Int /\ acc[k] = f[<<acc[k - 1], a[k]>>]
    BY <1>9, <2>1 DEF IsRun
  <2> QED
    BY <1>3, <2>1, <2>2
<1> QED
  BY <1>7, <1>9, <1>10 DEF IsRun, EndsIn, Op

\* What subtractMinutes returns: how many minutes of one list the other does not cover.
LEMMA SubtractCounts ==
    ASSUME NEW a \in Seq(Interval), Apart(a), NEW b \in Seq(Interval), Apart(b)
    PROVE  /\ IsFiniteSet(MinutesOfAll(a) \ MinutesOfAll(b))
           /\ SubtractMinutes(a, b) = Cardinality(MinutesOfAll(a) \ MinutesOfAll(b))
<1>1. PICK n \in Nat : n = Len(a)
  OBVIOUS
<1>2. PICK acc : /\ acc \in [0..n -> Int] /\ acc[0] = 0
                 /\ \A k \in 1..n : acc[k] = acc[k - 1] + Uncovered(a[k], b)
                 /\ SubtractMinutes(a, b) = acc[n]
  BY <1>1, SubtractRuns
<1>3. PICK B : B = MinutesOfAll(b)
  OBVIOUS
<1> DEFINE OK(k) == /\ IsFiniteSet(MinutesTo(a, k) \ B)
                    /\ acc[k] = Cardinality(MinutesTo(a, k) \ B)
           Done == {k \in 0..n : OK(k)}
<1>4. 0 \in Done
  <2>1. MinutesTo(a, 0) \ B = {}
    BY DEF MinutesTo
  <2>2. IsFiniteSet(MinutesTo(a, 0) \ B) /\ Cardinality(MinutesTo(a, 0) \ B) = 0
    BY <2>1, FS_EmptySet
  <2>3. OK(0) /\ 0 \in 0..n
    BY <1>2, <2>2
  <2> HIDE DEF OK
  <2> QED
    BY <2>3
<1>5. ASSUME NEW k \in 1..n, k - 1 \in Done PROVE k \in Done
  <2>1. OK(k - 1) /\ k \in 0..n
    BY <1>5
  <2>2. /\ a[k] \in Interval /\ MinutesTo(a, k) = MinutesTo(a, k - 1) \cup SpanOf(a[k])
        /\ MinutesTo(a, k - 1) \cap SpanOf(a[k]) = {}
    BY <1>1, OneApart
  <2>3. PICK S : S = MinutesTo(a, k - 1) \ B
    OBVIOUS
  <2>4. PICK T : T = SpanOf(a[k]) \ B
    OBVIOUS
  <2>5. MinutesTo(a, k) \ B = S \cup T /\ S \cap T = {}
    BY <2>2, <2>3, <2>4
  <2>6. IsFiniteSet(T) /\ Uncovered(a[k], b) = Cardinality(T)
    BY <1>3, <2>2, <2>4, UncoveredCounts
  <2>7. IsFiniteSet(S) /\ acc[k - 1] = Cardinality(S)
    BY <2>1, <2>3
  <2>8. IsFiniteSet(S \cup T) /\ Cardinality(S \cup T) = Cardinality(S) + Cardinality(T)
    BY <2>5, <2>6, <2>7, CountsBoth
  <2>9. acc[k] = acc[k - 1] + Uncovered(a[k], b)
    BY <1>2
  <2>10. OK(k)
    BY <2>5, <2>6, <2>7, <2>8, <2>9
  <2> HIDE DEF OK
  <2> QED
    BY <2>1, <2>10
<1>6. n \in Done
  <2> HIDE DEF Done
  <2>1. 0..n \subseteq Done
    BY <1>4, <1>5, EveryRound
  <2> QED
    BY <2>1
<1>7. OK(n)
  <2> HIDE DEF OK
  <2> QED
    BY <1>6
<1> QED
  BY <1>1, <1>2, <1>3, <1>7 DEF MinutesOfAll

-----------------------------------------------------------------------------
(* The rows of a report.                                                      *)

LEMMA RowTypes ==
    ASSUME NEW r \in WorkedRow
    PROVE  /\ RawMinutes(r) \in Nat
           /\ HasInterval(r) =>
                 /\ IntervalOf(r) \in Interval /\ IntervalOf(r).start = r.from
                 /\ RawMinutes(r) > 0 => IntervalOf(r).end = r.from + RawMinutes(r)
<1>1. /\ r.from \in 0..(MinutesPerDay - 1) \cup {NoTime} /\ r.minutes \in Nat
      /\ r.to \in 0..(MinutesPerDay - 1) \cup {NoTime} /\ MinutesPerDay \in Nat
  BY MinutesAssumption DEF WorkedRow, Clock
<1>2. Duration(r) \in Nat
  <2>1. CASE r.from = NoTime \/ r.to = NoTime
    BY <2>1 DEF Duration
  <2>2. CASE r.from # NoTime /\ r.to # NoTime
    <3>1. r.from \in Nat /\ r.to \in Nat /\ MinutesPerDay > 0
      BY <1>1, <2>2
    <3>2. PICK x \in Int : x = r.to - r.from
      BY <3>1
    <3>3. x % MinutesPerDay \in Nat
      BY <1>1, <3>1
    <3> QED
      BY <2>2, <3>2, <3>3 DEF Duration
  <2> QED
    BY <2>1, <2>2
<1>3. RawMinutes(r) \in Nat
  BY <1>1, <1>2 DEF RawMinutes
<1>4. ASSUME HasInterval(r)
      PROVE  /\ IntervalOf(r) \in Interval /\ IntervalOf(r).start = r.from
             /\ RawMinutes(r) > 0 => IntervalOf(r).end = r.from + RawMinutes(r)
  <2>1. r.from \in Nat
    BY <1>1, <1>4 DEF HasInterval
  <2> HIDE DEF RawMinutes
  <2> QED
    BY <1>3, <2>1 DEF IntervalOf, Interval
<1> QED
  BY <1>3, <1>4

\* The loop of a report: the intervals of a day and kind, in the order of the rows.
Matches(r, day, kind) == r.day = day /\ r.kind = kind /\ HasInterval(r)
PutIn(list, r, day, kind) == IF Matches(r, day, kind) THEN Append(list, IntervalOf(r)) ELSE list

LEMMA PutInTypes ==
    ASSUME NEW x \in Seq(Interval), NEW r \in WorkedRow, NEW day, NEW kind
    PROVE  PutIn(x, r, day, kind) \in Seq(Interval)
<1>1. CASE Matches(r, day, kind)
  <2>1. IntervalOf(r) \in Interval
    BY <1>1, RowTypes DEF Matches
  <2> QED
    BY <1>1, <2>1 DEF PutIn
<1>2. CASE ~Matches(r, day, kind)
  BY <1>2 DEF PutIn
<1> QED
  BY <1>1, <1>2

LEMMA BucketRuns ==
    ASSUME rows \in Seq(WorkedRow), NEW day, NEW kind
    PROVE  \E acc : /\ acc \in [0..Len(rows) -> Seq(Interval)] /\ acc[0] = << >>
                    /\ \A k \in 1..Len(rows) : acc[k] = PutIn(acc[k - 1], rows[k], day, kind)
                    /\ Bucket(day, kind) = acc[Len(rows)]
<1> DEFINE A == Seq(Interval)
           Op(x, r) == PutIn(x, r, day, kind)
<1> DEFINE s == rows
<1>1. s = rows
  OBVIOUS
<1>2. s \in Seq(WorkedRow)
  BY <1>1
<1> DEFINE Table(g) == [S \in SUBSET (DOMAIN s) |->
                           IF S = {} THEN << >> ELSE Op(g[S \ {Max(S)}], s[Max(S)])]
<1>3. ASSUME NEW x \in A, NEW r \in WorkedRow PROVE Op(x, r) \in A
  BY PutInTypes
<1>4. << >> \in A
  OBVIOUS
<1> HIDE DEF A
<1>5. PICK f : f = [xr \in A \X WorkedRow |-> Op(xr[1], xr[2])]
  OBVIOUS
<1> HIDE DEF Op
<1>6. \A x \in A, r \in WorkedRow : f[<<x, r>>] = Op(x, r)
  BY <1>5
<1>7. IsLoop(A, WorkedRow, f, << >>, s)
  BY <1>2, <1>3, <1>4, <1>5 DEF IsLoop
<1>8. PICK h : TypedTable(h, A, WorkedRow, f, << >>, s)
  BY <1>7, LoopHasTable
<1>9. h = Table(h)
  BY <1>6, <1>8 DEF IsTable, TypedTable
<1>10. PICK g : g = Table(g) /\ Bucket(day, kind) = g[DOMAIN s]
  BY <1>1, <1>9 DEF Bucket, FoldLeft, MapThenFoldSet, Op, PutIn, Matches
<1>11. StepsBy(g, A, f, << >>, s)
  <2>1. g[{}] = << >>
    BY <1>10
  <2>2. ASSUME NEW k \in 1..Len(s) PROVE g[1..k] = Op(g[1..(k - 1)], s[k]) /\ s[k] \in WorkedRow
    <3>1. /\ 1..k # {} /\ 1..k \in SUBSET (DOMAIN s) /\ s[k] \in WorkedRow
          /\ Max(1..k) = k /\ (1..k) \ {k} = 1..(k - 1)
      BY <1>2, Places
    <3>2. Table(g)[1..k] = Op(g[1..(k - 1)], s[k])
      BY <3>1
    <3> QED
      BY <1>10, <3>1, <3>2
  <2> QED
    BY <1>6, <2>1, <2>2 DEF StepsBy
<1> HIDE DEF Table
<1>12. PICK acc : IsRun(acc, A, f, << >>, s) /\ EndsIn(g, acc, s)
  BY <1>7, <1>11, TableIsRun
<1>13. ASSUME NEW k \in 1..Len(s) PROVE acc[k] = Op(acc[k - 1], s[k])
  <2>1. k - 1 \in 0..Len(s) /\ s[k] \in WorkedRow
    BY <1>2
  <2>2. acc[k - 1] \in A /\ acc[k] = f[<<acc[k - 1], s[k]>>]
    BY <1>12, <2>1 DEF IsRun
  <2> QED
    BY <1>6, <2>1, <2>2
<1> QED
  BY <1>1, <1>10, <1>12, <1>13 DEF IsRun, EndsIn, A, Op

\* The minutes of a day that rows of some kinds among the first k cover.
CoveredTo(k, day, kinds) ==
    {t \in Nat : \E n \in 1..k : /\ \E kind \in kinds : Matches(rows[n], day, kind)
                                 /\ t \in SpanOf(IntervalOf(rows[n]))}

LEMMA CoveredIsAll ==
    ASSUME rows \in Seq(WorkedRow), NEW day, NEW kinds
    PROVE  Covered(day, kinds) = CoveredTo(Len(rows), day, kinds)
<1>1. PICK s : s = rows
  OBVIOUS
<1>2. \A n \in 1..Len(s) : s[n] \in WorkedRow
  BY <1>1
<1>3. DOMAIN s = 1..Len(s)
  BY <1>1
<1>4. ASSUME NEW r \in WorkedRow, HasInterval(r)
      PROVE  (IntervalOf(r).start)..(IntervalOf(r).end - 1) = SpanOf(IntervalOf(r))
  BY <1>4, RowTypes, MinutesOfOne
<1>5. PICK M : M = {m \in DOMAIN s : s[m].day = day /\ s[m].kind \in kinds /\ HasInterval(s[m])}
  OBVIOUS
<1>6. Covered(day, kinds) = UNION {(i.start)..(i.end - 1) : i \in {IntervalOf(s[n]) : n \in M}}
  BY <1>1, <1>5 DEF Covered
<1>7. \A t : t \in Covered(day, kinds)
             <=> \E n \in M : t \in (IntervalOf(s[n]).start)..(IntervalOf(s[n]).end - 1)
  BY <1>6
<1>8. \A n \in M : /\ n \in 1..Len(s) /\ \E kind \in kinds : Matches(s[n], day, kind)
                   /\ (IntervalOf(s[n]).start)..(IntervalOf(s[n]).end - 1) = SpanOf(IntervalOf(s[n]))
  BY <1>2, <1>3, <1>4, <1>5 DEF Matches
<1>9. \A n \in 1..Len(s) : (\E kind \in kinds : Matches(s[n], day, kind)) => n \in M
  BY <1>3, <1>5 DEF Matches
<1>10. \A t : t \in Covered(day, kinds) <=> \E n \in M : t \in SpanOf(IntervalOf(s[n]))
  BY <1>7, <1>8
<1>11. \A t : t \in CoveredTo(Len(s), day, kinds) <=> \E n \in M : t \in SpanOf(IntervalOf(s[n]))
  <2>1. \A i, t : t \in SpanOf(i) => t \in Nat
    BY DEF SpanOf
  <2> QED
    BY <1>1, <1>8, <1>9, <2>1 DEF CoveredTo
<1> QED
  BY <1>1, <1>10, <1>11

\* The bucket of a day and kind holds the intervals of its rows.
LEMMA BucketHolds ==
    ASSUME rows \in Seq(WorkedRow), NEW day, NEW kind
    PROVE  /\ Bucket(day, kind) \in Seq(Interval)
           /\ MinutesOfAll(Bucket(day, kind)) = Covered(day, {kind})
<1>1. PICK s : s = rows
  OBVIOUS
<1>2. PICK n \in Nat : n = Len(s) /\ \A k \in 1..n : s[k] \in WorkedRow
  BY <1>1
<1>3. PICK acc : /\ acc \in [0..n -> Seq(Interval)] /\ acc[0] = << >>
                 /\ \A k \in 1..n : acc[k] = PutIn(acc[k - 1], s[k], day, kind)
                 /\ Bucket(day, kind) = acc[n]
  BY <1>1, <1>2, BucketRuns
<1> DEFINE Cov(k) == CoveredTo(k, day, {kind})
           Done == {k \in 0..n : MinutesOfAll(acc[k]) = Cov(k)}
<1>4. 0 \in Done
  <2>1. Cov(0) = {} /\ MinutesOfAll(<< >>) = {}
    BY DEF MinutesOfAll, MinutesTo, CoveredTo
  <2>2. 0 \in 0..n
    OBVIOUS
  <2> HIDE DEF Cov
  <2> QED
    BY <1>3, <2>1, <2>2
<1>5. ASSUME NEW k \in 1..n, k - 1 \in Done PROVE k \in Done
  <2>1. MinutesOfAll(acc[k - 1]) = Cov(k - 1) /\ k \in 0..n /\ k - 1 \in 0..n
    BY <1>5
  <2>2. PICK m : m = acc[k - 1]
    OBVIOUS
  <2>3. m \in Seq(Interval) /\ acc[k] = PutIn(m, s[k], day, kind) /\ s[k] \in WorkedRow
    BY <1>2, <1>3, <2>1, <2>2
  <2>4. Cov(k) = Cov(k - 1) \cup (IF Matches(s[k], day, kind) THEN SpanOf(IntervalOf(s[k])) ELSE {})
    <3>1. \A j : j \in 1..k <=> j \in 1..(k - 1) \/ j = k
      OBVIOUS
    <3>2. \A i : SpanOf(i) \subseteq Nat
      BY DEF SpanOf
    <3> QED
      BY <1>1, <3>1, <3>2 DEF CoveredTo
  <2>5. CASE Matches(s[k], day, kind)
    <3>1. PICK i \in Interval : i = IntervalOf(s[k])
      BY <2>3, <2>5, RowTypes DEF Matches
    <3>2. acc[k] = Append(m, i)
      BY <2>3, <2>5, <3>1 DEF PutIn
    <3>3. PICK z : z = Append(m, i)
      OBVIOUS
    <3>4. PICK j \in Nat : j = Len(m)
      BY <2>3
    <3>5. Len(z) = j + 1 /\ z[j + 1] = i /\ \A q \in 1..j : z[q] = m[q]
      BY <2>3, <3>3, <3>4
    <3>6. MinutesTo(z, j + 1) = MinutesTo(z, j) \cup SpanOf(i)
      BY <3>5, OneMore
    <3>7. MinutesTo(z, j) = MinutesTo(m, j)
      BY <3>5 DEF MinutesTo
    <3>8. MinutesOfAll(z) = MinutesOfAll(m) \cup SpanOf(i)
      BY <3>4, <3>5, <3>6, <3>7 DEF MinutesOfAll
    <3> HIDE DEF Cov
    <3> QED
      BY <2>1, <2>2, <2>4, <2>5, <3>1, <3>2, <3>3, <3>8
  <2>6. CASE ~Matches(s[k], day, kind)
    <3>1. acc[k] = m
      BY <2>3, <2>6 DEF PutIn
    <3> HIDE DEF Cov
    <3> QED
      BY <2>1, <2>2, <2>4, <2>6, <3>1
  <2> QED
    BY <2>5, <2>6
<1>6. n \in Done
  <2> HIDE DEF Done
  <2>1. 0..n \subseteq Done
    BY <1>4, <1>5, EveryRound
  <2> QED
    BY <2>1
<1>7. MinutesOfAll(acc[n]) = Cov(n)
  <2> HIDE DEF Cov
  <2> QED
    BY <1>6
<1> QED
  BY <1>1, <1>2, <1>3, <1>7, CoveredIsAll

-----------------------------------------------------------------------------
(* Sums over a finite set.                                                    *)

\* The element that the sum of a set takes first.
First(S) == CHOOSE x \in S : TRUE

\* The table of the sum of F: a result for every part of D.
IsSum(h, F, D) ==
    h = [S \in SUBSET D |-> IF S = {} THEN 0 ELSE F[First(S)] + h[S \ {First(S)}]]

Total(F, D) == (CHOOSE h : IsSum(h, F, D))[D]

LEMMA FirstOf ==
    ASSUME NEW D, IsFiniteSet(D), NEW S \in SUBSET D, S # {}
    PROVE  /\ First(S) \in S /\ First(S) \in D /\ S \ {First(S)} \in SUBSET D
           /\ IsFiniteSet(S) /\ Cardinality(S) \in Nat \ {0}
           /\ Cardinality(S \ {First(S)}) = Cardinality(S) - 1
<1>1. First(S) \in S
  BY DEF First
<1>2. PICK x \in S : x = First(S)
  BY <1>1
<1>3. IsFiniteSet(S)
  BY FS_Subset
<1>4. Cardinality(S) \in Nat /\ Cardinality(S) # 0
  BY <1>3, FS_CardinalityType, FS_EmptySet
<1>5. Cardinality(S \ {x}) = Cardinality(S) - 1
  BY <1>3, FS_RemoveElement
<1> QED
  BY <1>2, <1>3, <1>4, <1>5

\* What holds of the empty set, and of a set if it does without its first element, holds
\* of every part of D.
LEMMA EveryPart ==
    ASSUME NEW D, IsFiniteSet(D), NEW Good, {} \in Good,
           \A S \in SUBSET D : S # {} /\ S \ {First(S)} \in Good => S \in Good
    PROVE  SUBSET D \subseteq Good
<1>1. PICK n \in Nat : n = Cardinality(D)
  BY FS_CardinalityType
<1> DEFINE OK(k) == \A S \in SUBSET D : Cardinality(S) = k => S \in Good
           Done == {k \in 0..n : OK(k)}
<1>2. 0 \in Done
  <2>1. ASSUME NEW S \in SUBSET D, Cardinality(S) = 0 PROVE S \in Good
    <3>1. S = {}
      BY <2>1, FS_Subset, FS_EmptySet
    <3> QED
      BY <3>1
  <2>2. OK(0) /\ 0 \in 0..n
    BY <2>1
  <2> HIDE DEF OK
  <2> QED
    BY <2>2
<1>3. ASSUME NEW k \in 1..n, k - 1 \in Done PROVE k \in Done
  <2>1. OK(k - 1) /\ k \in 0..n
    BY <1>3
  <2>2. ASSUME NEW S \in SUBSET D, Cardinality(S) = k PROVE S \in Good
    <3>1. S # {}
      <4>1. Cardinality({}) = 0
        BY FS_EmptySet
      <4> QED
        BY <2>2, <4>1
    <3>2. S \ {First(S)} \in SUBSET D /\ Cardinality(S \ {First(S)}) = k - 1
      BY <2>2, <3>1, FirstOf
    <3> QED
      BY <2>1, <3>1, <3>2
  <2>3. OK(k)
    BY <2>2
  <2> HIDE DEF OK
  <2> QED
    BY <2>1, <2>3
<1>4. 0..n \subseteq Done
  <2> HIDE DEF Done
  <2> QED
    BY <1>1, <1>2, <1>3, EveryRound
<1>5. ASSUME NEW S \in SUBSET D PROVE S \in Good
  <2>1. Cardinality(S) \in Nat /\ Cardinality(S) <= n
    BY <1>1, FS_Subset, FS_CardinalityType
  <2>2. Cardinality(S) \in 0..n
    BY <2>1
  <2> QED
    BY <1>4, <2>2
<1> QED
  BY <1>5

LEMMA SumExists ==
    ASSUME NEW D, IsFiniteSet(D), NEW F \in [D -> Int]
    PROVE  \E h : IsSum(h, F, D)
<1>1. PICK n \in Nat : n = Cardinality(D)
  BY FS_CardinalityType
<1> DEFINE Layer(k) == {S \in SUBSET D : Cardinality(S) <= k}
           Step(h, S) == IF S = {} THEN 0 ELSE F[First(S)] + h[S \ {First(S)}]
           OK(k) == \E h : h = [S \in Layer(k) |-> Step(h, S)]
           Done == {k \in 0..n : OK(k)}
<1>2. 0 \in Done
  <2>1. ASSUME NEW S \in Layer(0) PROVE S = {}
    BY FS_Subset, FS_EmptySet, FS_CardinalityType
  <2>2. PICK h : h = [S \in Layer(0) |-> 0]
    OBVIOUS
  <2>3. h = [S \in Layer(0) |-> Step(h, S)]
    BY <2>1, <2>2
  <2> HIDE DEF Layer, Step
  <2>4. OK(0)
    BY <2>3
  <2>5. 0 \in 0..n
    OBVIOUS
  <2> HIDE DEF OK
  <2> QED
    BY <2>4, <2>5
<1>3. ASSUME NEW k \in 1..n, k - 1 \in Done PROVE k \in Done
  <2>1. PICK h : h = [S \in Layer(k - 1) |-> Step(h, S)]
    BY <1>3
  <2>2. PICK g : g = [S \in Layer(k) |-> Step(h, S)]
    OBVIOUS
  <2>3. ASSUME NEW S \in Layer(k), S # {} PROVE S \ {First(S)} \in Layer(k - 1)
    <3>1. PICK T : T = S \ {First(S)}
      OBVIOUS
    <3>2. /\ T \in SUBSET D /\ Cardinality(S) \in Nat \ {0}
          /\ Cardinality(T) = Cardinality(S) - 1
      BY <2>3, <3>1, FirstOf
    <3>3. Cardinality(S) <= k
      OBVIOUS
    <3>4. T \in Layer(k - 1)
      BY <3>2, <3>3
    <3> QED
      BY <3>1, <3>4
  <2>4. ASSUME NEW S \in Layer(k - 1) PROVE S \in Layer(k) /\ g[S] = h[S]
    <3>1. S \in Layer(k)
      BY FS_Subset, FS_CardinalityType
    <3> QED
      BY <2>1, <2>2, <3>1
  <2>5. ASSUME NEW S \in Layer(k) PROVE Step(h, S) = Step(g, S)
    <3>1. S # {} => g[S \ {First(S)}] = h[S \ {First(S)}]
      BY <2>3, <2>4
    <3> QED
      BY <3>1
  <2> HIDE DEF Layer, Step
  <2>6. g = [S \in Layer(k) |-> Step(g, S)]
    BY <2>2, <2>5
  <2>7. OK(k) /\ k \in 0..n
    BY <2>6
  <2> HIDE DEF OK
  <2> QED
    BY <2>7
<1>4. n \in Done
  <2> HIDE DEF Done
  <2>1. 0..n \subseteq Done
    BY <1>1, <1>2, <1>3, EveryRound
  <2> QED
    BY <2>1
<1>5. PICK h : h = [S \in Layer(n) |-> Step(h, S)]
  BY <1>4
<1>6. Layer(n) = SUBSET D
  BY <1>1, FS_Subset
<1> QED
  BY <1>5, <1>6 DEF IsSum

\* What the table of a sum holds, of every part of D.
SumsUp(h, F, D) ==
    /\ h[{}] = 0
    /\ \A S \in SUBSET D : h[S] \in Int /\ (S # {} => h[S] = F[First(S)] + h[S \ {First(S)}])

LEMMA Sums ==
    ASSUME NEW D, IsFiniteSet(D), NEW F \in [D -> Int], NEW h, IsSum(h, F, D)
    PROVE  SumsUp(h, F, D)
<1>1. h[{}] = 0
  BY DEF IsSum
<1>2. \A S \in SUBSET D : S # {} => h[S] = F[First(S)] + h[S \ {First(S)}]
  BY DEF IsSum
<1> DEFINE Good == {S \in SUBSET D : h[S] \in Int}
<1>3. {} \in Good
  BY <1>1
<1>4. ASSUME NEW S \in SUBSET D, S # {}, S \ {First(S)} \in Good PROVE S \in Good
  <2>1. PICK x \in D : x = First(S)
    BY <1>4, FirstOf
  <2>2. h[S \ {x}] \in Int
    BY <1>4, <2>1
  <2>3. h[S] = F[x] + h[S \ {x}]
    BY <1>2, <1>4, <2>1
  <2>4. F[x] \in Int
    OBVIOUS
  <2>5. h[S] \in Int
    BY <2>2, <2>3, <2>4
  <2> QED
    BY <2>5
<1>5. SUBSET D \subseteq Good
  <2> HIDE DEF Good
  <2> QED
    BY <1>3, <1>4, EveryPart
<1>6. \A S \in SUBSET D : h[S] \in Int
  BY <1>5
<1> QED
  BY <1>1, <1>2, <1>6 DEF SumsUp

\* What is summed may be any of the sums there are.
LEMMA TotalIs ==
    ASSUME NEW D, IsFiniteSet(D), NEW F \in [D -> Int]
    PROVE  \E h : IsSum(h, F, D) /\ Total(F, D) = h[D]
  BY SumExists DEF Total

AddsUp(H, F, G, D) ==
    /\ F \in [D -> Int] /\ G \in [D -> Int] /\ H \in [D -> Int]
    /\ \A d \in D : H[d] = F[d] + G[d]

LEMMA TotalAdds ==
    ASSUME NEW D, IsFiniteSet(D), NEW F, NEW G, NEW H, AddsUp(H, F, G, D)
    PROVE  Total(H, D) = Total(F, D) + Total(G, D) /\ Total(F, D) \in Int /\ Total(G, D) \in Int
<1> F \in [D -> Int] /\ G \in [D -> Int] /\ H \in [D -> Int]
  BY DEF AddsUp
<1>1. PICK f : IsSum(f, F, D) /\ Total(F, D) = f[D]
  BY TotalIs
<1>2. PICK g : IsSum(g, G, D) /\ Total(G, D) = g[D]
  BY TotalIs
<1>3. PICK h : IsSum(h, H, D) /\ Total(H, D) = h[D]
  BY TotalIs
<1>4. /\ f[{}] = 0
      /\ \A S \in SUBSET D : f[S] \in Int /\ (S # {} => f[S] = F[First(S)] + f[S \ {First(S)}])
  <2>1. SumsUp(f, F, D)
    BY <1>1, Sums
  <2> QED
    BY <2>1 DEF SumsUp
<1>5. /\ g[{}] = 0
      /\ \A S \in SUBSET D : g[S] \in Int /\ (S # {} => g[S] = G[First(S)] + g[S \ {First(S)}])
  <2>1. SumsUp(g, G, D)
    BY <1>2, Sums
  <2> QED
    BY <2>1 DEF SumsUp
<1>6. /\ h[{}] = 0
      /\ \A S \in SUBSET D : h[S] \in Int /\ (S # {} => h[S] = H[First(S)] + h[S \ {First(S)}])
  <2>1. SumsUp(h, H, D)
    BY <1>3, Sums
  <2> QED
    BY <2>1 DEF SumsUp
<1> DEFINE Good == {S \in SUBSET D : h[S] = f[S] + g[S]}
<1>7. {} \in Good
  BY <1>4, <1>5, <1>6
<1>8. ASSUME NEW S \in SUBSET D, S # {}, S \ {First(S)} \in Good PROVE S \in Good
  <2>1. PICK x \in D : x = First(S)
    BY <1>8, FirstOf
  <2>2. PICK T \in SUBSET D : T = S \ {First(S)}
    BY <1>8
  <2>3. h[T] = f[T] + g[T] /\ H[x] = F[x] + G[x]
    BY <1>8, <2>2 DEF AddsUp
  <2>4. h[S] = H[x] + h[T] /\ f[S] = F[x] + f[T] /\ g[S] = G[x] + g[T]
    BY <1>4, <1>5, <1>6, <1>8, <2>1, <2>2
  <2>5. F[x] \in Int /\ G[x] \in Int /\ f[T] \in Int /\ g[T] \in Int
    BY <1>4, <1>5
  <2>6. h[S] = f[S] + g[S]
    BY <2>3, <2>4, <2>5
  <2> QED
    BY <2>6
<1>9. SUBSET D \subseteq Good
  <2> HIDE DEF Good
  <2> QED
    BY <1>7, <1>8, EveryPart
<1> QED
  BY <1>1, <1>2, <1>3, <1>4, <1>5, <1>9

\* One term that changes, changes the sum by as much.
LEMMA TotalChanges ==
    ASSUME NEW D, IsFiniteSet(D), NEW F \in [D -> Int], NEW G \in [D -> Int], NEW at \in D,
           \A d \in D : d # at => F[d] = G[d]
    PROVE  /\ Total(F, D) = Total(G, D) + (F[at] - G[at])
           /\ Total(F, D) \in Int /\ Total(G, D) \in Int
<1>1. PICK f : IsSum(f, F, D) /\ Total(F, D) = f[D]
  BY TotalIs
<1>2. PICK g : IsSum(g, G, D) /\ Total(G, D) = g[D]
  BY TotalIs
<1>3. /\ f[{}] = 0
      /\ \A S \in SUBSET D : f[S] \in Int /\ (S # {} => f[S] = F[First(S)] + f[S \ {First(S)}])
  <2>1. SumsUp(f, F, D)
    BY <1>1, Sums
  <2> QED
    BY <2>1 DEF SumsUp
<1>4. /\ g[{}] = 0
      /\ \A S \in SUBSET D : g[S] \in Int /\ (S # {} => g[S] = G[First(S)] + g[S \ {First(S)}])
  <2>1. SumsUp(g, G, D)
    BY <1>2, Sums
  <2> QED
    BY <2>1 DEF SumsUp
<1> DEFINE Good == {S \in SUBSET D : f[S] = g[S] + (IF at \in S THEN F[at] - G[at] ELSE 0)}
<1>5. {} \in Good
  BY <1>3, <1>4
<1>6. ASSUME NEW S \in SUBSET D, S # {}, S \ {First(S)} \in Good PROVE S \in Good
  <2>1. PICK x \in D : x = First(S) /\ x \in S
    BY <1>6, FirstOf
  <2>2. PICK T \in SUBSET D : T = S \ {x}
    BY <1>6, <2>1
  <2>3. f[T] = g[T] + (IF at \in T THEN F[at] - G[at] ELSE 0)
    BY <1>6, <2>1, <2>2
  <2>4. f[S] = F[x] + f[T] /\ g[S] = G[x] + g[T]
    BY <1>3, <1>4, <1>6, <2>1, <2>2
  <2>5. F[x] \in Int /\ G[x] \in Int /\ f[T] \in Int /\ g[T] \in Int /\ F[at] \in Int /\ G[at] \in Int
    BY <1>3, <1>4
  <2>6. f[S] = g[S] + (IF at \in S THEN F[at] - G[at] ELSE 0)
    <3>1. CASE x = at
      BY <2>1, <2>2, <2>3, <2>4, <2>5, <3>1
    <3>2. CASE x # at
      <4>1. F[x] = G[x] /\ (at \in S <=> at \in T)
        BY <2>2, <3>2
      <4> QED
        BY <2>3, <2>4, <2>5, <4>1
    <3> QED
      BY <3>1, <3>2
  <2> QED
    BY <2>6
<1>7. SUBSET D \subseteq Good
  <2> HIDE DEF Good
  <2> QED
    BY <1>5, <1>6, EveryPart
<1>8. f[D] = g[D] + (F[at] - G[at])
  BY <1>7
<1> QED
  BY <1>1, <1>2, <1>3, <1>4, <1>8

LEMMA TotalOfNone ==
    ASSUME NEW D, IsFiniteSet(D), NEW F \in [D -> Int], \A d \in D : F[d] = 0
    PROVE  Total(F, D) = 0
<1>1. AddsUp(F, F, F, D)
  BY DEF AddsUp
<1>2. Total(F, D) = Total(F, D) + Total(F, D) /\ Total(F, D) \in Int
  BY <1>1, TotalAdds
<1> QED
  BY <1>2

-----------------------------------------------------------------------------
(* The sums of a report, as totals.                                           *)

PlantaoOf(d) == MergeIntervals(Bucket(d, "PLANTAO"))
ExtraOf(d) == MergeIntervals(Bucket(d, "EXTRA"))
NormalOf(d) == MergeIntervals(Bucket(d, "NORMAL"))
AllOf(d) == Bucket(d, "NORMAL") \o Bucket(d, "EXTRA") \o Bucket(d, "PLANTAO")

LEMMA MinutesInIs ==
    ASSUME NEW kinds, NEW before
    PROVE  MinutesIn(kinds, before) = Total([d \in Days |-> Cardinality(Covered(d, kinds) \ Covered(d, before))], Days)
<1> DEFINE X(d) == Cardinality(Covered(d, kinds) \ Covered(d, before))
           Table(h) == [S \in SUBSET Days |-> IF S = {} THEN 0
                           ELSE X(CHOOSE x \in S : TRUE) + h[S \ {CHOOSE x \in S : TRUE}]]
<1>1. MinutesIn(kinds, before) = (CHOOSE g : g = Table(g))[Days]
  BY DEF MinutesIn, MapThenSumSet, MapThenFoldSet, X
<1> HIDE DEF X
<1>2. PICK F : F = [d \in Days |-> X(d)]
  OBVIOUS
<1>3. ASSUME NEW h PROVE h = Table(h) <=> IsSum(h, F, Days)
  <2>1. Table(h) = [S \in SUBSET Days |-> IF S = {} THEN 0
                        ELSE X(First(S)) + h[S \ {First(S)}]]
    BY Zenon DEF First
  <2>2. \A S \in SUBSET Days : S # {} => First(S) \in Days
    BY DEF First
  <2> HIDE DEF Table
  <2> QED
    BY <1>2, <2>1, <2>2 DEF IsSum
<1> HIDE DEF Table
<1>4. (CHOOSE g : g = Table(g)) = (CHOOSE g : IsSum(g, F, Days))
  BY <1>3
<1> QED
  BY <1>1, <1>2, <1>4 DEF Total, X

LEMMA NormalIs ==
    CategorizedMinutes.normal = Orphans("NORMAL") + Total([d \in Days |-> SubtractMinutes(NormalOf(d), MergeIntervals(PlantaoOf(d) \o ExtraOf(d)))], Days)
<1> DEFINE X(d) == SubtractMinutes(NormalOf(d), MergeIntervals(PlantaoOf(d) \o ExtraOf(d)))
           Table(h) == [S \in SUBSET Days |-> IF S = {} THEN 0
                           ELSE X(CHOOSE x \in S : TRUE) + h[S \ {CHOOSE x \in S : TRUE}]]
<1>1. CategorizedMinutes.normal = Orphans("NORMAL") + (CHOOSE g : g = Table(g))[Days]
  BY DEF CategorizedMinutes, NormalOf, PlantaoOf, ExtraOf, MapThenSumSet, MapThenFoldSet, X
<1> HIDE DEF X
<1>2. PICK F : F = [d \in Days |-> X(d)]
  OBVIOUS
<1>3. ASSUME NEW h PROVE h = Table(h) <=> IsSum(h, F, Days)
  <2>1. Table(h) = [S \in SUBSET Days |-> IF S = {} THEN 0
                        ELSE X(First(S)) + h[S \ {First(S)}]]
    BY Zenon DEF First
  <2>2. \A S \in SUBSET Days : S # {} => First(S) \in Days
    BY DEF First
  <2> HIDE DEF Table
  <2> QED
    BY <1>2, <2>1, <2>2 DEF IsSum
<1> HIDE DEF Table
<1>4. (CHOOSE g : g = Table(g)) = (CHOOSE g : IsSum(g, F, Days))
  BY <1>3
<1> QED
  BY <1>1, <1>2, <1>4 DEF Total, X

LEMMA ExtraIs ==
    CategorizedMinutes.extra = Orphans("EXTRA") + Total([d \in Days |-> SubtractMinutes(ExtraOf(d), PlantaoOf(d))], Days)
<1> DEFINE X(d) == SubtractMinutes(ExtraOf(d), PlantaoOf(d))
           Table(h) == [S \in SUBSET Days |-> IF S = {} THEN 0
                           ELSE X(CHOOSE x \in S : TRUE) + h[S \ {CHOOSE x \in S : TRUE}]]
<1>1. CategorizedMinutes.extra = Orphans("EXTRA") + (CHOOSE g : g = Table(g))[Days]
  BY DEF CategorizedMinutes, PlantaoOf, ExtraOf, MapThenSumSet, MapThenFoldSet, X
<1> HIDE DEF X
<1>2. PICK F : F = [d \in Days |-> X(d)]
  OBVIOUS
<1>3. ASSUME NEW h PROVE h = Table(h) <=> IsSum(h, F, Days)
  <2>1. Table(h) = [S \in SUBSET Days |-> IF S = {} THEN 0
                        ELSE X(First(S)) + h[S \ {First(S)}]]
    BY Zenon DEF First
  <2>2. \A S \in SUBSET Days : S # {} => First(S) \in Days
    BY DEF First
  <2> HIDE DEF Table
  <2> QED
    BY <1>2, <2>1, <2>2 DEF IsSum
<1> HIDE DEF Table
<1>4. (CHOOSE g : g = Table(g)) = (CHOOSE g : IsSum(g, F, Days))
  BY <1>3
<1> QED
  BY <1>1, <1>2, <1>4 DEF Total, X

LEMMA PlantaoIs ==
    CategorizedMinutes.plantao = Orphans("PLANTAO") + Total([d \in Days |-> SumOfLengths(PlantaoOf(d))], Days)
<1> DEFINE X(d) == SumOfLengths(PlantaoOf(d))
           Table(h) == [S \in SUBSET Days |-> IF S = {} THEN 0
                           ELSE X(CHOOSE x \in S : TRUE) + h[S \ {CHOOSE x \in S : TRUE}]]
<1>1. CategorizedMinutes.plantao = Orphans("PLANTAO") + (CHOOSE g : g = Table(g))[Days]
  BY DEF CategorizedMinutes, PlantaoOf, MapThenSumSet, MapThenFoldSet, X
<1> HIDE DEF X
<1>2. PICK F : F = [d \in Days |-> X(d)]
  OBVIOUS
<1>3. ASSUME NEW h PROVE h = Table(h) <=> IsSum(h, F, Days)
  <2>1. Table(h) = [S \in SUBSET Days |-> IF S = {} THEN 0
                        ELSE X(First(S)) + h[S \ {First(S)}]]
    BY Zenon DEF First
  <2>2. \A S \in SUBSET Days : S # {} => First(S) \in Days
    BY DEF First
  <2> HIDE DEF Table
  <2> QED
    BY <1>2, <2>1, <2>2 DEF IsSum
<1> HIDE DEF Table
<1>4. (CHOOSE g : g = Table(g)) = (CHOOSE g : IsSum(g, F, Days))
  BY <1>3
<1> QED
  BY <1>1, <1>2, <1>4 DEF Total, X

LEMMA UnionIs ==
    UnionWorkedMinutes = Total([k \in Kinds |-> Orphans(k)], Kinds)
                         + Total([d \in Days |-> SumOfLengths(MergeIntervals(AllOf(d)))], Days)
<1> DEFINE X(d) == SumOfLengths(MergeIntervals(AllOf(d)))
           OrphanTable(h) == [S \in SUBSET Kinds |-> IF S = {} THEN 0
                         ELSE Orphans(CHOOSE x \in S : TRUE) + h[S \ {CHOOSE x \in S : TRUE}]]
           Table(h) == [S \in SUBSET Days |-> IF S = {} THEN 0
                           ELSE X(CHOOSE x \in S : TRUE) + h[S \ {CHOOSE x \in S : TRUE}]]
<1>1. UnionWorkedMinutes = (CHOOSE g : g = OrphanTable(g))[Kinds] + (CHOOSE g : g = Table(g))[Days]
  BY DEF UnionWorkedMinutes, MapThenSumSet, MapThenFoldSet, X, AllOf
<1> HIDE DEF X
<1>2. PICK F : F = [d \in Days |-> X(d)]
  OBVIOUS
<1>3. PICK G : G = [k \in Kinds |-> Orphans(k)]
  OBVIOUS
<1>4. ASSUME NEW h PROVE h = Table(h) <=> IsSum(h, F, Days)
  <2>1. Table(h) = [S \in SUBSET Days |-> IF S = {} THEN 0
                        ELSE X(First(S)) + h[S \ {First(S)}]]
    BY Zenon DEF First
  <2>2. \A S \in SUBSET Days : S # {} => First(S) \in Days
    BY DEF First
  <2> HIDE DEF Table
  <2> QED
    BY <1>2, <2>1, <2>2 DEF IsSum
<1>5. ASSUME NEW h PROVE h = OrphanTable(h) <=> IsSum(h, G, Kinds)
  <2>1. OrphanTable(h) = [S \in SUBSET Kinds |-> IF S = {} THEN 0
                        ELSE Orphans(First(S)) + h[S \ {First(S)}]]
    BY Zenon DEF First
  <2>2. \A S \in SUBSET Kinds : S # {} => First(S) \in Kinds
    BY DEF First
  <2> HIDE DEF OrphanTable
  <2> QED
    BY <1>3, <2>1, <2>2 DEF IsSum
<1> HIDE DEF Table, OrphanTable
<1>6. (CHOOSE g : g = Table(g)) = (CHOOSE g : IsSum(g, F, Days))
  BY <1>4
<1>7. (CHOOSE g : g = OrphanTable(g)) = (CHOOSE g : IsSum(g, G, Kinds))
  BY <1>5
<1> QED
  BY <1>1, <1>2, <1>3, <1>6, <1>7 DEF Total, X

LEMMA TotalOfCategories ==
    CategorizedMinutes.total = CategorizedMinutes.normal + CategorizedMinutes.extra
                                   + CategorizedMinutes.plantao
  BY Zenon DEF CategorizedMinutes

\* The minutes of the first k rows of a kind without a start, and those of the first k rows.
OrphanIn(x, r, kind) == IF r.kind = kind /\ ~HasInterval(r) THEN x + RawMinutes(r) ELSE x

LEMMA OrphanRuns ==
    ASSUME rows \in Seq(WorkedRow), NEW kind
    PROVE  \E acc : /\ acc \in [0..Len(rows) -> Int] /\ acc[0] = 0
                    /\ \A k \in 1..Len(rows) : acc[k] = OrphanIn(acc[k - 1], rows[k], kind)
                    /\ Orphans(kind) = acc[Len(rows)]
<1> DEFINE Op(x, r) == OrphanIn(x, r, kind)
           s == rows
           Table(g) == [S \in SUBSET (DOMAIN s) |->
                           IF S = {} THEN 0 ELSE Op(g[S \ {Max(S)}], s[Max(S)])]
<1>1. s = rows /\ s \in Seq(WorkedRow)
  OBVIOUS
<1>2. ASSUME NEW x \in Int, NEW r \in WorkedRow PROVE Op(x, r) \in Int
  <2>1. RawMinutes(r) \in Nat
    BY RowTypes
  <2> QED
    BY <2>1 DEF OrphanIn
<1>3. PICK f : f = [xr \in Int \X WorkedRow |-> Op(xr[1], xr[2])]
  OBVIOUS
<1> HIDE DEF Op
<1>4. \A x \in Int, r \in WorkedRow : f[<<x, r>>] = Op(x, r)
  BY <1>3
<1>5. IsLoop(Int, WorkedRow, f, 0, s)
  BY <1>1, <1>2, <1>3 DEF IsLoop
<1>6. PICK h : TypedTable(h, Int, WorkedRow, f, 0, s)
  BY <1>5, LoopHasTable
<1>7. h = Table(h)
  BY <1>4, <1>6 DEF IsTable, TypedTable
<1>8. PICK g : g = Table(g) /\ Orphans(kind) = g[DOMAIN s]
  BY <1>1, <1>7 DEF Orphans, FoldLeft, MapThenFoldSet, Op, OrphanIn
<1>9. StepsBy(g, Int, f, 0, s)
  <2>1. g[{}] = 0
    BY <1>8
  <2>2. ASSUME NEW k \in 1..Len(s) PROVE g[1..k] = Op(g[1..(k - 1)], s[k]) /\ s[k] \in WorkedRow
    <3>1. /\ 1..k # {} /\ 1..k \in SUBSET (DOMAIN s) /\ s[k] \in WorkedRow
          /\ Max(1..k) = k /\ (1..k) \ {k} = 1..(k - 1)
      BY <1>1, Places
    <3>2. Table(g)[1..k] = Op(g[1..(k - 1)], s[k])
      BY <3>1
    <3> QED
      BY <1>8, <3>1, <3>2
  <2> QED
    BY <1>4, <2>1, <2>2 DEF StepsBy
<1> HIDE DEF Table
<1>10. PICK acc : IsRun(acc, Int, f, 0, s) /\ EndsIn(g, acc, s)
  BY <1>5, <1>9, TableIsRun
<1>11. ASSUME NEW k \in 1..Len(s) PROVE acc[k] = Op(acc[k - 1], s[k])
  <2>1. k - 1 \in 0..Len(s) /\ s[k] \in WorkedRow
    BY <1>1
  <2>2. acc[k - 1] \in Int /\ acc[k] = f[<<acc[k - 1], s[k]>>]
    BY <1>10, <2>1 DEF IsRun
  <2> QED
    BY <1>4, <2>1, <2>2
<1> QED
  BY <1>1, <1>8, <1>10, <1>11 DEF IsRun, EndsIn, Op

LEMMA GrossRuns ==
    ASSUME rows \in Seq(WorkedRow)
    PROVE  \E acc : /\ acc \in [0..Len(rows) -> Int] /\ acc[0] = 0
                    /\ \A k \in 1..Len(rows) : acc[k] = acc[k - 1] + RawMinutes(rows[k])
                    /\ CategorizedMinutes.bruto = acc[Len(rows)]
<1> DEFINE Op(x, r) == x + RawMinutes(r)
           s == rows
           Table(g) == [S \in SUBSET (DOMAIN s) |->
                           IF S = {} THEN 0 ELSE Op(g[S \ {Max(S)}], s[Max(S)])]
<1>1. s = rows /\ s \in Seq(WorkedRow)
  OBVIOUS
<1>2. ASSUME NEW x \in Int, NEW r \in WorkedRow PROVE Op(x, r) \in Int
  <2>1. RawMinutes(r) \in Nat
    BY RowTypes
  <2> QED
    BY <2>1
<1>3. PICK f : f = [xr \in Int \X WorkedRow |-> Op(xr[1], xr[2])]
  OBVIOUS
<1> HIDE DEF Op
<1>4. \A x \in Int, r \in WorkedRow : f[<<x, r>>] = Op(x, r)
  BY <1>3
<1>5. IsLoop(Int, WorkedRow, f, 0, s)
  BY <1>1, <1>2, <1>3 DEF IsLoop
<1>6. PICK h : TypedTable(h, Int, WorkedRow, f, 0, s)
  BY <1>5, LoopHasTable
<1>7. h = Table(h)
  BY <1>4, <1>6 DEF IsTable, TypedTable
<1>8. PICK g : g = Table(g) /\ CategorizedMinutes.bruto = g[DOMAIN s]
  <2>1. CategorizedMinutes.bruto = (CHOOSE g : g = Table(g))[DOMAIN s]
    BY <1>1 DEF CategorizedMinutes, FoldLeft, MapThenFoldSet, Op
  <2> HIDE DEF Table
  <2>2. PICK g : g = (CHOOSE g1 : g1 = Table(g1))
    OBVIOUS
  <2>3. g = Table(g)
    BY <1>7, <2>2
  <2> QED
    BY <2>1, <2>2, <2>3
<1>9. StepsBy(g, Int, f, 0, s)
  <2>1. g[{}] = 0
    BY <1>8
  <2>2. ASSUME NEW k \in 1..Len(s) PROVE g[1..k] = Op(g[1..(k - 1)], s[k]) /\ s[k] \in WorkedRow
    <3>1. /\ 1..k # {} /\ 1..k \in SUBSET (DOMAIN s) /\ s[k] \in WorkedRow
          /\ Max(1..k) = k /\ (1..k) \ {k} = 1..(k - 1)
      BY <1>1, Places
    <3>2. Table(g)[1..k] = Op(g[1..(k - 1)], s[k])
      BY <3>1
    <3> QED
      BY <1>8, <3>1, <3>2
  <2> QED
    BY <1>4, <2>1, <2>2 DEF StepsBy
<1> HIDE DEF Table
<1>10. PICK acc : IsRun(acc, Int, f, 0, s) /\ EndsIn(g, acc, s)
  BY <1>5, <1>9, TableIsRun
<1>11. ASSUME NEW k \in 1..Len(s) PROVE acc[k] = Op(acc[k - 1], s[k])
  <2>1. k - 1 \in 0..Len(s) /\ s[k] \in WorkedRow
    BY <1>1
  <2>2. acc[k - 1] \in Int /\ acc[k] = f[<<acc[k - 1], s[k]>>]
    BY <1>10, <2>1 DEF IsRun
  <2> QED
    BY <1>4, <2>1, <2>2
<1> QED
  BY <1>1, <1>8, <1>10, <1>11 DEF IsRun, EndsIn, Op

-----------------------------------------------------------------------------
(* A day.                                                                     *)

Joins(u, s, t) == u = s \o t

LEMMA Together ==
    ASSUME NEW s \in Seq(Interval), NEW t \in Seq(Interval), NEW u, Joins(u, s, t)
    PROVE  u \in Seq(Interval) /\ MinutesOfAll(u) = MinutesOfAll(s) \cup MinutesOfAll(t)
<1>1. PICK m \in Nat : m = Len(s)
  OBVIOUS
<1>2. PICK n \in Nat : n = Len(t)
  OBVIOUS
<1>4. /\ u \in Seq(Interval) /\ Len(u) = m + n
      /\ \A k \in 1..m : u[k] = s[k]
      /\ \A k \in 1..n : u[m + k] = t[k]
  BY <1>1, <1>2 DEF Joins
<1>5. ASSUME NEW x \in Nat
      PROVE  (\E k \in 1..(m + n) : u[k].start <= x /\ x < u[k].end)
                 <=> \/ \E k \in 1..m : s[k].start <= x /\ x < s[k].end
                     \/ \E k \in 1..n : t[k].start <= x /\ x < t[k].end
  <2>1. ASSUME NEW k \in 1..(m + n), u[k].start <= x /\ x < u[k].end
        PROVE  \/ \E j \in 1..m : s[j].start <= x /\ x < s[j].end
               \/ \E j \in 1..n : t[j].start <= x /\ x < t[j].end
    <3>1. CASE k <= m
      <4>1. k \in 1..m
        BY <3>1
      <4> QED
        BY <1>4, <2>1, <4>1
    <3>2. CASE k > m
      <4>1. PICK j \in 1..n : k = m + j
        <5>1. k - m \in 1..n /\ k = m + (k - m)
          BY <3>2
        <5> QED
          BY <5>1
      <4>2. u[k] = t[j]
        BY <1>4, <4>1
      <4> QED
        BY <2>1, <4>2
    <3> QED
      BY <3>1, <3>2
  <2>2. ASSUME NEW k \in 1..m, s[k].start <= x /\ x < s[k].end
        PROVE  \E j \in 1..(m + n) : u[j].start <= x /\ x < u[j].end
    <3>1. k \in 1..(m + n) /\ u[k] = s[k]
      BY <1>4
    <3> QED
      BY <2>2, <3>1
  <2>3. ASSUME NEW k \in 1..n, t[k].start <= x /\ x < t[k].end
        PROVE  \E j \in 1..(m + n) : u[j].start <= x /\ x < u[j].end
    <3>1. m + k \in 1..(m + n) /\ u[m + k] = t[k]
      BY <1>4
    <3> QED
      BY <2>3, <3>1
  <2> QED
    BY <2>1, <2>2, <2>3
<1> QED
  BY <1>1, <1>2, <1>4, <1>5 DEF MinutesOfAll, MinutesTo

\* What each kind covers of a day, and several.
LEMMA CoveredParts ==
    ASSUME rows \in Seq(WorkedRow), NEW day
    PROVE  /\ Covered(day, {}) = {}
           /\ Covered(day, {"PLANTAO", "EXTRA"})
                  = Covered(day, {"PLANTAO"}) \cup Covered(day, {"EXTRA"})
           /\ Covered(day, Kinds)
                  = Covered(day, {"NORMAL"}) \cup Covered(day, {"EXTRA"}) \cup Covered(day, {"PLANTAO"})
<1>1. PICK n : n = Len(rows)
  OBVIOUS
<1>2. \A kinds : Covered(day, kinds) = CoveredTo(n, day, kinds)
  BY <1>1, CoveredIsAll
<1>3. ASSUME NEW a, NEW b PROVE Covered(day, a \cup b) = Covered(day, a) \cup Covered(day, b)
  BY <1>2 DEF CoveredTo
<1>4. Covered(day, {}) = {}
  BY <1>2 DEF CoveredTo
<1>5. {"PLANTAO", "EXTRA"} = {"PLANTAO"} \cup {"EXTRA"}
  OBVIOUS
<1>6. Kinds = {"NORMAL", "EXTRA"} \cup {"PLANTAO"} /\ {"NORMAL", "EXTRA"} = {"NORMAL"} \cup {"EXTRA"}
  BY DEF Kinds
<1>7. Covered(day, {"PLANTAO", "EXTRA"}) = Covered(day, {"PLANTAO"}) \cup Covered(day, {"EXTRA"})
  BY <1>3, <1>5
<1>8. PICK ne : ne = {"NORMAL", "EXTRA"}
  OBVIOUS
<1>9. Covered(day, Kinds) = Covered(day, ne) \cup Covered(day, {"PLANTAO"})
  BY <1>3, <1>6, <1>8
<1>10. Covered(day, ne) = Covered(day, {"NORMAL"}) \cup Covered(day, {"EXTRA"})
  BY <1>3, <1>6, <1>8
<1> QED
  BY <1>4, <1>7, <1>9, <1>10

\* What the loops count of a day, of which P, E and N are the minutes of each kind.
DayIs(day, P, E, N) ==
    /\ IsFiniteSet(P) /\ IsFiniteSet(E) /\ IsFiniteSet(N)
    /\ SumOfLengths(PlantaoOf(day)) = Cardinality(P)
    /\ SubtractMinutes(ExtraOf(day), PlantaoOf(day)) = Cardinality(E \ P)
    /\ SubtractMinutes(NormalOf(day), MergeIntervals(PlantaoOf(day) \o ExtraOf(day)))
           = Cardinality(N \ (P \cup E))
    /\ SumOfLengths(MergeIntervals(AllOf(day))) = Cardinality(N \cup E \cup P)

LEMMA DayCounts ==
    ASSUME rows \in Seq(WorkedRow), NEW day,
           NEW P, P = Covered(day, {"PLANTAO"}), NEW E, E = Covered(day, {"EXTRA"}),
           NEW N, N = Covered(day, {"NORMAL"})
    PROVE  DayIs(day, P, E, N)
<1>1. PICK bp \in Seq(Interval) : bp = Bucket(day, "PLANTAO") /\ MinutesOfAll(bp) = P
  BY BucketHolds
<1>2. PICK be \in Seq(Interval) : be = Bucket(day, "EXTRA") /\ MinutesOfAll(be) = E
  BY BucketHolds
<1>3. PICK bn \in Seq(Interval) : bn = Bucket(day, "NORMAL") /\ MinutesOfAll(bn) = N
  BY BucketHolds
<1>4. PICK p \in Seq(Interval) : p = PlantaoOf(day) /\ Apart(p) /\ MinutesOfAll(p) = P
  BY <1>1, Merged DEF PlantaoOf
<1>5. PICK e \in Seq(Interval) : e = ExtraOf(day) /\ Apart(e) /\ MinutesOfAll(e) = E
  BY <1>2, Merged DEF ExtraOf
<1>6. PICK n \in Seq(Interval) : n = NormalOf(day) /\ Apart(n) /\ MinutesOfAll(n) = N
  BY <1>3, Merged DEF NormalOf
<1>7. PICK pe : pe = p \o e
  OBVIOUS
<1>8. pe \in Seq(Interval) /\ MinutesOfAll(pe) = P \cup E
  <2>1. Joins(pe, p, e)
    BY <1>7 DEF Joins
  <2>2. pe \in Seq(Interval) /\ MinutesOfAll(pe) = MinutesOfAll(p) \cup MinutesOfAll(e)
    BY <2>1, Together
  <2> QED
    BY <1>4, <1>5, <2>2
<1>9. PICK m \in Seq(Interval) : m = MergeIntervals(pe) /\ Apart(m) /\ MinutesOfAll(m) = P \cup E
  BY <1>8, Merged
<1>10. PICK ne : ne = bn \o be
  OBVIOUS
<1>11. ne \in Seq(Interval) /\ MinutesOfAll(ne) = N \cup E
  <2>1. Joins(ne, bn, be)
    BY <1>10 DEF Joins
  <2>2. ne \in Seq(Interval) /\ MinutesOfAll(ne) = MinutesOfAll(bn) \cup MinutesOfAll(be)
    BY <2>1, Together
  <2> QED
    BY <1>2, <1>3, <2>2
<1>12. PICK nep : nep = ne \o bp
  OBVIOUS
<1>13. nep \in Seq(Interval) /\ MinutesOfAll(nep) = N \cup E \cup P
  <2>1. Joins(nep, ne, bp)
    BY <1>12 DEF Joins
  <2>2. nep \in Seq(Interval) /\ MinutesOfAll(nep) = MinutesOfAll(ne) \cup MinutesOfAll(bp)
    BY <1>11, <2>1, Together
  <2> QED
    BY <1>1, <1>11, <2>2
<1>14. PICK u \in Seq(Interval) : u = MergeIntervals(nep) /\ Apart(u)
                                  /\ MinutesOfAll(u) = N \cup E \cup P
  BY <1>13, Merged
<1>15. IsFiniteSet(P) /\ SumOfLengths(p) = Cardinality(P)
  BY <1>4, LengthsCount
<1>16. IsFiniteSet(E) /\ IsFiniteSet(N)
  BY <1>5, <1>6, LengthsCount
<1>17. SumOfLengths(u) = Cardinality(N \cup E \cup P)
  BY <1>14, LengthsCount
<1>18. SubtractMinutes(e, p) = Cardinality(E \ P)
  <2>1. SubtractMinutes(e, p) = Cardinality(MinutesOfAll(e) \ MinutesOfAll(p))
    BY <1>4, <1>5, SubtractCounts
  <2> QED
    BY <1>4, <1>5, <2>1
<1>19. SubtractMinutes(n, m) = Cardinality(N \ (P \cup E))
  BY <1>6, <1>9, SubtractCounts
<1>20. AllOf(day) = nep
  BY <1>1, <1>2, <1>3, <1>10, <1>12 DEF AllOf
<1> QED
  BY <1>4, <1>5, <1>6, <1>7, <1>9, <1>14, <1>15, <1>16, <1>17, <1>18, <1>19, <1>20 DEF DayIs

LEMMA PartsAddUp ==
    ASSUME NEW P, NEW E, NEW N, IsFiniteSet(P), IsFiniteSet(E), IsFiniteSet(N)
    PROVE  /\ Cardinality(N \cup E \cup P)
                  = Cardinality(N \ (P \cup E)) + Cardinality(E \ P) + Cardinality(P)
           /\ Cardinality(P) \in Nat /\ Cardinality(E \ P) \in Nat
           /\ Cardinality(N \ (P \cup E)) \in Nat /\ Cardinality(N \cup E \cup P) \in Nat
<1>1. PICK A : A = N \ (P \cup E)
  OBVIOUS
<1>2. PICK B : B = E \ P
  OBVIOUS
<1>3. IsFiniteSet(A) /\ IsFiniteSet(B)
  BY <1>1, <1>2, FS_Difference
<1>4. A \cap B = {} /\ (A \cup B) \cap P = {} /\ N \cup E \cup P = (A \cup B) \cup P
  BY <1>1, <1>2
<1>5. /\ IsFiniteSet(A \cup B) /\ Cardinality(A \cup B) = Cardinality(A) + Cardinality(B)
      /\ Cardinality(A) \in Nat /\ Cardinality(B) \in Nat
  BY <1>3, <1>4, CountsBoth
<1>6. PICK C : C = A \cup B
  OBVIOUS
<1>7. /\ Cardinality(C \cup P) = Cardinality(C) + Cardinality(P)
      /\ Cardinality(C) \in Nat /\ Cardinality(P) \in Nat
  BY <1>4, <1>5, <1>6, CountsBoth
<1>8. Cardinality(N \cup E \cup P) = Cardinality(C \cup P)
  BY <1>4, <1>6
<1>9. PICK a, b, c, p, u : a = Cardinality(A) /\ b = Cardinality(B) /\ c = Cardinality(C)
                           /\ p = Cardinality(P) /\ u = Cardinality(N \cup E \cup P)
  OBVIOUS
<1>10. a \in Nat /\ b \in Nat /\ p \in Nat /\ c = a + b /\ u = c + p
  BY <1>5, <1>6, <1>7, <1>8, <1>9
<1>11. u = a + b + p /\ u \in Nat
  BY <1>10
<1> QED
  BY <1>1, <1>2, <1>9, <1>10, <1>11

-----------------------------------------------------------------------------
(* A report.                                                                  *)

LEMMA OrphanCount ==
    ASSUME rows \in Seq(WorkedRow), NEW kind
    PROVE  Orphans(kind) \in Int
<1>1. PICK n \in Nat : n = Len(rows)
  OBVIOUS
<1>2. PICK acc : acc \in [0..n -> Int] /\ Orphans(kind) = acc[n]
  BY <1>1, OrphanRuns
<1> QED
  BY <1>2

LEMMA KindsAreThree ==
    ASSUME NEW F \in [Kinds -> Int]
    PROVE  Total(F, Kinds) = F["NORMAL"] + F["EXTRA"] + F["PLANTAO"]
<1>1. IsFiniteSet(Kinds)
  <2>1. PICK one : one = {"NORMAL"}
    OBVIOUS
  <2>2. PICK two : two = one \cup {"EXTRA"}
    OBVIOUS
  <2>3. IsFiniteSet(one)
    BY <2>1, FS_Singleton
  <2>4. IsFiniteSet(two)
    BY <2>2, <2>3, FS_AddElement
  <2>5. Kinds = two \cup {"PLANTAO"}
    BY <2>1, <2>2 DEF Kinds
  <2> QED
    BY <2>4, <2>5, FS_AddElement
<1>2. PICK G : G = [k \in Kinds |-> IF k = "NORMAL" THEN 0 ELSE F[k]]
  OBVIOUS
<1>3. PICK H : H = [k \in Kinds |-> IF k = "EXTRA" THEN 0 ELSE G[k]]
  OBVIOUS
<1>4. PICK Z : Z = [k \in Kinds |-> 0]
  OBVIOUS
<1>5. \A k \in Kinds : F[k] \in Int
  OBVIOUS
<1>6. G \in [Kinds -> Int] /\ (\A k \in Kinds : k # "NORMAL" => F[k] = G[k]) /\ G["NORMAL"] = 0
  BY <1>2, <1>5 DEF Kinds
<1>7. H \in [Kinds -> Int] /\ (\A k \in Kinds : k # "EXTRA" => G[k] = H[k]) /\ H["EXTRA"] = 0
  BY <1>3, <1>6 DEF Kinds
<1>8. Z \in [Kinds -> Int] /\ (\A k \in Kinds : k # "PLANTAO" => H[k] = Z[k]) /\ Z["PLANTAO"] = 0
  BY <1>2, <1>3, <1>4 DEF Kinds
<1>9. "NORMAL" \in Kinds /\ "EXTRA" \in Kinds /\ "PLANTAO" \in Kinds
  BY DEF Kinds
<1>10. Total(Z, Kinds) = 0
  BY <1>1, <1>4, <1>8, TotalOfNone
<1>11. PICK a, b, c : a = "NORMAL" /\ b = "EXTRA" /\ c = "PLANTAO"
  OBVIOUS
<1>12. Total(F, Kinds) = Total(G, Kinds) + (F[a] - G[a]) /\ Total(G, Kinds) \in Int
  BY <1>1, <1>6, <1>9, <1>11, TotalChanges
<1>13. Total(G, Kinds) = Total(H, Kinds) + (G[b] - H[b]) /\ Total(H, Kinds) \in Int
  BY <1>1, <1>6, <1>7, <1>9, <1>11, TotalChanges
<1>14. Total(H, Kinds) = Total(Z, Kinds) + (H[c] - Z[c])
  BY <1>1, <1>7, <1>8, <1>9, <1>11, TotalChanges
<1>15. G[b] = F[b] /\ H[c] = F[c] /\ G[a] = 0 /\ H[b] = 0 /\ Z[c] = 0
  BY <1>2, <1>3, <1>4, <1>9, <1>11
<1>16. F[a] \in Int /\ F[b] \in Int /\ F[c] \in Int
  BY <1>5, <1>9, <1>11
<1>17. Total(F, Kinds) = F[a] + F[b] + F[c]
  BY <1>10, <1>12, <1>13, <1>14, <1>15, <1>16
<1> QED
  BY <1>11, <1>17

\* Every category counts its minutes of every day.
LEMMA CategoriesCount ==
    ASSUME rows \in Seq(WorkedRow)
    PROVE  /\ CategorizedMinutes.plantao = Orphans("PLANTAO") + MinutesIn({"PLANTAO"}, {})
           /\ CategorizedMinutes.extra = Orphans("EXTRA") + MinutesIn({"EXTRA"}, {"PLANTAO"})
           /\ CategorizedMinutes.normal
                  = Orphans("NORMAL") + MinutesIn({"NORMAL"}, {"PLANTAO", "EXTRA"})
<1>1. ASSUME NEW d
      PROVE  /\ SumOfLengths(PlantaoOf(d)) = Cardinality(Covered(d, {"PLANTAO"}) \ Covered(d, {}))
             /\ SubtractMinutes(ExtraOf(d), PlantaoOf(d))
                    = Cardinality(Covered(d, {"EXTRA"}) \ Covered(d, {"PLANTAO"}))
             /\ SubtractMinutes(NormalOf(d), MergeIntervals(PlantaoOf(d) \o ExtraOf(d)))
                    = Cardinality(Covered(d, {"NORMAL"}) \ Covered(d, {"PLANTAO", "EXTRA"}))
  <2>1. PICK P, E, N : /\ P = Covered(d, {"PLANTAO"}) /\ E = Covered(d, {"EXTRA"})
                       /\ N = Covered(d, {"NORMAL"})
    OBVIOUS
  <2>2. DayIs(d, P, E, N)
    BY <2>1, DayCounts
  <2>3. Covered(d, {}) = {} /\ Covered(d, {"PLANTAO", "EXTRA"}) = P \cup E
    BY <2>1, CoveredParts
  <2>4. P \ {} = P
    OBVIOUS
  <2> QED
    BY <2>1, <2>2, <2>3, <2>4 DEF DayIs
<1>2. [d \in Days |-> SumOfLengths(PlantaoOf(d))]
          = [d \in Days |-> Cardinality(Covered(d, {"PLANTAO"}) \ Covered(d, {}))]
  BY <1>1
<1>3. [d \in Days |-> SubtractMinutes(ExtraOf(d), PlantaoOf(d))]
          = [d \in Days |-> Cardinality(Covered(d, {"EXTRA"}) \ Covered(d, {"PLANTAO"}))]
  BY <1>1
<1>4. [d \in Days |-> SubtractMinutes(NormalOf(d), MergeIntervals(PlantaoOf(d) \o ExtraOf(d)))]
          = [d \in Days |-> Cardinality(Covered(d, {"NORMAL"}) \ Covered(d, {"PLANTAO", "EXTRA"}))]
  BY <1>1
<1>5. CategorizedMinutes.plantao = Orphans("PLANTAO") + MinutesIn({"PLANTAO"}, {})
  BY <1>2, PlantaoIs, MinutesInIs
<1>6. CategorizedMinutes.extra = Orphans("EXTRA") + MinutesIn({"EXTRA"}, {"PLANTAO"})
  BY <1>3, ExtraIs, MinutesInIs
<1>7. CategorizedMinutes.normal = Orphans("NORMAL") + MinutesIn({"NORMAL"}, {"PLANTAO", "EXTRA"})
  BY <1>4, NormalIs, MinutesInIs
<1> QED
  BY <1>5, <1>6, <1>7

\* The categories add up to the union, of which some rows cover all.
LEMMA UnionCounts ==
    ASSUME rows \in Seq(WorkedRow)
    PROVE  /\ CategorizedMinutes.total = UnionWorkedMinutes
           /\ UnionWorkedMinutes = Orphans("NORMAL") + Orphans("EXTRA") + Orphans("PLANTAO")
                  + Total([d \in Days |-> Cardinality(Covered(d, Kinds))], Days)
<1>1. PICK fp : fp = [d \in Days |-> SumOfLengths(PlantaoOf(d))]
  OBVIOUS
<1>2. PICK fe : fe = [d \in Days |-> SubtractMinutes(ExtraOf(d), PlantaoOf(d))]
  OBVIOUS
<1>3. PICK fn : fn = [d \in Days |->
                        SubtractMinutes(NormalOf(d), MergeIntervals(PlantaoOf(d) \o ExtraOf(d)))]
  OBVIOUS
<1>4. PICK fu : fu = [d \in Days |-> SumOfLengths(MergeIntervals(AllOf(d)))]
  OBVIOUS
<1>5. PICK fc : fc = [d \in Days |-> Cardinality(Covered(d, Kinds))]
  OBVIOUS
<1>6. ASSUME NEW d \in Days
      PROVE  /\ fp[d] \in Int /\ fe[d] \in Int /\ fn[d] \in Int /\ fu[d] \in Int
             /\ fu[d] = (fn[d] + fe[d]) + fp[d] /\ fc[d] = fu[d]
  <2>1. PICK P, E, N : /\ P = Covered(d, {"PLANTAO"}) /\ E = Covered(d, {"EXTRA"})
                       /\ N = Covered(d, {"NORMAL"})
    OBVIOUS
  <2>2. DayIs(d, P, E, N)
    BY <2>1, DayCounts
  <2>3. Covered(d, Kinds) = N \cup E \cup P
    BY <2>1, CoveredParts
  <2>4. /\ Cardinality(N \cup E \cup P)
               = Cardinality(N \ (P \cup E)) + Cardinality(E \ P) + Cardinality(P)
        /\ Cardinality(P) \in Nat /\ Cardinality(E \ P) \in Nat
        /\ Cardinality(N \ (P \cup E)) \in Nat /\ Cardinality(N \cup E \cup P) \in Nat
    BY <2>2, PartsAddUp DEF DayIs
  <2>5. /\ fp[d] = Cardinality(P) /\ fe[d] = Cardinality(E \ P)
        /\ fn[d] = Cardinality(N \ (P \cup E)) /\ fu[d] = Cardinality(N \cup E \cup P)
        /\ fc[d] = Cardinality(N \cup E \cup P)
    BY <1>1, <1>2, <1>3, <1>4, <1>5, <2>2, <2>3 DEF DayIs
  <2> QED
    BY <2>4, <2>5
<1>7. fp \in [Days -> Int] /\ fe \in [Days -> Int] /\ fn \in [Days -> Int] /\ fu \in [Days -> Int]
  BY <1>1, <1>2, <1>3, <1>4, <1>6
<1>8. PICK fs : fs = [d \in Days |-> fn[d] + fe[d]]
  OBVIOUS
<1>9. fs \in [Days -> Int] /\ AddsUp(fs, fn, fe, Days) /\ AddsUp(fu, fs, fp, Days)
  BY <1>6, <1>7, <1>8 DEF AddsUp
<1>10. IsFiniteSet(Days)
  BY MinutesAssumption
<1>11. /\ Total(fs, Days) = Total(fn, Days) + Total(fe, Days)
       /\ Total(fn, Days) \in Int /\ Total(fe, Days) \in Int
  BY <1>7, <1>9, <1>10, TotalAdds
<1>12. Total(fu, Days) = Total(fs, Days) + Total(fp, Days) /\ Total(fp, Days) \in Int
  BY <1>7, <1>9, <1>10, TotalAdds
<1>13. PICK a, b, c : a = Orphans("NORMAL") /\ b = Orphans("EXTRA") /\ c = Orphans("PLANTAO")
  OBVIOUS
<1>14. a \in Int /\ b \in Int /\ c \in Int
  BY <1>13, OrphanCount
<1>15. Total([k \in Kinds |-> Orphans(k)], Kinds) = a + b + c
  <2>1. PICK F : F = [k \in Kinds |-> Orphans(k)]
    OBVIOUS
  <2>2. \A k \in Kinds : F[k] \in Int
    BY <2>1, OrphanCount
  <2>3. F \in [Kinds -> Int]
    BY <2>1, <2>2
  <2>4. Total(F, Kinds) = F["NORMAL"] + F["EXTRA"] + F["PLANTAO"]
    BY <2>3, KindsAreThree
  <2>5. F["NORMAL"] = a /\ F["EXTRA"] = b /\ F["PLANTAO"] = c
    BY <1>13, <2>1 DEF Kinds
  <2> QED
    BY <2>1, <2>4, <2>5
<1>16. UnionWorkedMinutes = (a + b + c) + Total(fu, Days)
  BY <1>4, <1>15, UnionIs
<1>17. /\ CategorizedMinutes.plantao = c + Total(fp, Days)
       /\ CategorizedMinutes.extra = b + Total(fe, Days)
       /\ CategorizedMinutes.normal = a + Total(fn, Days)
  BY <1>1, <1>2, <1>3, <1>13, PlantaoIs, ExtraIs, NormalIs
<1>18. CategorizedMinutes.total = UnionWorkedMinutes
  BY <1>11, <1>12, <1>14, <1>16, <1>17, TotalOfCategories
<1>19. fc = fu
  BY <1>4, <1>5, <1>6
<1> QED
  BY <1>5, <1>13, <1>16, <1>18, <1>19

\* What one more row covers of a day.
LEMMA CoveredMore ==
    ASSUME rows \in Seq(WorkedRow), NEW k \in 1..Len(rows), NEW r, r = rows[k], NEW day
    PROVE  CoveredTo(k, day, Kinds) = CoveredTo(k - 1, day, Kinds)
               \cup (IF r.day = day /\ HasInterval(r) THEN SpanOf(IntervalOf(r)) ELSE {})
<1>1. r.kind \in Kinds
  <2>1. r \in WorkedRow
    OBVIOUS
  <2> QED
    BY <2>1 DEF WorkedRow
<1>2. (\E kind \in Kinds : Matches(r, day, kind)) <=> r.day = day /\ HasInterval(r)
  BY <1>1 DEF Matches
<1>3. \A j : j \in 1..k <=> j \in 1..(k - 1) \/ j = k
  OBVIOUS
<1>4. \A t : t \in SpanOf(IntervalOf(r)) => t \in Nat
  BY DEF SpanOf
<1>5. ASSUME NEW t
      PROVE  t \in CoveredTo(k, day, Kinds)
                 <=> \/ t \in CoveredTo(k - 1, day, Kinds)
                     \/ r.day = day /\ HasInterval(r) /\ t \in SpanOf(IntervalOf(r))
  BY <1>2, <1>3, <1>4 DEF CoveredTo
<1> QED
  BY <1>5

LEMMA CountsAtMost ==
    ASSUME NEW S, NEW T, IsFiniteSet(S), IsFiniteSet(T)
    PROVE  /\ IsFiniteSet(S \cup T)
           /\ Cardinality(S \cup T) <= Cardinality(S) + Cardinality(T)
           /\ Cardinality(S) \in Nat /\ Cardinality(T) \in Nat /\ Cardinality(S \cup T) \in Nat
<1>1. PICK C : C = S \cap T
  OBVIOUS
<1>2. IsFiniteSet(S \cup T) /\ Cardinality(S \cup T) = Cardinality(S) + Cardinality(T) - Cardinality(C)
  BY <1>1, FS_Union
<1>3. C \subseteq S
  BY <1>1
<1>4. IsFiniteSet(C)
  BY <1>3, FS_Subset
<1>5. Cardinality(S) \in Nat /\ Cardinality(T) \in Nat /\ Cardinality(C) \in Nat
  BY <1>4, FS_CardinalityType
<1>6. Cardinality(S \cup T) \in Nat
  BY <1>2, FS_CardinalityType
<1> QED
  BY <1>2, <1>5, <1>6

\* The minutes of each day that the first k rows cover.
CoveredCounts(k) == [d \in Days |-> Cardinality(CoveredTo(k, d, Kinds))]
CoveredFinite(k) == \A d \in Days : IsFiniteSet(CoveredTo(k, d, Kinds))

LEMMA CoveredTotal ==
    ASSUME NEW k, CoveredFinite(k)
    PROVE  CoveredCounts(k) \in [Days -> Int] /\ Total(CoveredCounts(k), Days) \in Int
<1>1. \A d \in Days : Cardinality(CoveredTo(k, d, Kinds)) \in Int
  BY FS_CardinalityType DEF CoveredFinite
<1>2. PICK F : F = CoveredCounts(k)
  OBVIOUS
<1>3. F \in [Days -> Int]
  BY <1>1, <1>2 DEF CoveredCounts
<1>4. PICK Z : Z = [d \in Days |-> 0]
  OBVIOUS
<1>5. AddsUp(F, F, Z, Days)
  BY <1>3, <1>4 DEF AddsUp
<1>6. Total(F, Days) \in Int
  BY <1>5, MinutesAssumption, TotalAdds
<1> QED
  BY <1>2, <1>3, <1>6

\* A row covers no more minutes than it has.
LEMMA RowCovers ==
    ASSUME rows \in Seq(WorkedRow), NEW k \in 1..Len(rows), NEW r \in WorkedRow, r = rows[k],
           CoveredFinite(k - 1), HasInterval(r), RawMinutes(r) > 0
    PROVE  /\ CoveredFinite(k)
           /\ Total(CoveredCounts(k), Days) <= Total(CoveredCounts(k - 1), Days) + RawMinutes(r)
<1>1. PICK I \in Interval : I = IntervalOf(r)
  BY RowTypes
<1>2. IsFiniteSet(SpanOf(I)) /\ Cardinality(SpanOf(I)) = RawMinutes(r) /\ RawMinutes(r) \in Nat
  <2>1. I.start = r.from /\ I.end = r.from + RawMinutes(r) /\ RawMinutes(r) \in Nat
    BY <1>1, RowTypes
  <2>2. /\ I.start \in Nat /\ IsFiniteSet(SpanOf(I))
        /\ Cardinality(SpanOf(I)) = I.end - I.start
    BY MinutesOfOne
  <2> QED
    BY <2>1, <2>2
<1>3. PICK at \in Days : at = r.day
  BY DEF WorkedRow
<1>4. ASSUME NEW d \in Days, d # at PROVE CoveredTo(k, d, Kinds) = CoveredTo(k - 1, d, Kinds)
  <2>1. CoveredTo(k, d, Kinds) = CoveredTo(k - 1, d, Kinds)
            \cup (IF r.day = d /\ HasInterval(r) THEN SpanOf(IntervalOf(r)) ELSE {})
    BY CoveredMore
  <2> QED
    BY <1>3, <1>4, <2>1
<1>5. PICK old : old = CoveredTo(k - 1, at, Kinds)
  OBVIOUS
<1>6. CoveredTo(k, at, Kinds) = old \cup SpanOf(I)
  <2>1. CoveredTo(k, at, Kinds) = CoveredTo(k - 1, at, Kinds)
            \cup (IF r.day = at /\ HasInterval(r) THEN SpanOf(IntervalOf(r)) ELSE {})
    BY CoveredMore
  <2> QED
    BY <1>1, <1>3, <1>5, <2>1
<1>7. IsFiniteSet(old)
  BY <1>5 DEF CoveredFinite
<1>8. PICK more : more = SpanOf(I)
  OBVIOUS
<1>9. /\ IsFiniteSet(old \cup more)
      /\ Cardinality(old \cup more) <= Cardinality(old) + Cardinality(more)
      /\ Cardinality(old) \in Nat /\ Cardinality(old \cup more) \in Nat
  BY <1>2, <1>7, <1>8, CountsAtMost
<1>10. CoveredFinite(k)
  BY <1>4, <1>6, <1>8, <1>9 DEF CoveredFinite
<1>11. PICK F : F = CoveredCounts(k)
  OBVIOUS
<1>12. PICK G : G = CoveredCounts(k - 1)
  OBVIOUS
<1>13. F \in [Days -> Int] /\ G \in [Days -> Int]
  BY <1>10, <1>11, <1>12, CoveredTotal
<1>14. \A d \in Days : d # at => F[d] = G[d]
  BY <1>4, <1>11, <1>12 DEF CoveredCounts
<1>15. /\ Total(F, Days) = Total(G, Days) + (F[at] - G[at])
       /\ Total(F, Days) \in Int /\ Total(G, Days) \in Int
  BY <1>13, <1>14, MinutesAssumption, TotalChanges
<1>16. F[at] = Cardinality(old \cup more) /\ G[at] = Cardinality(old)
  BY <1>5, <1>6, <1>8, <1>11, <1>12 DEF CoveredCounts
<1>17. Total(F, Days) <= Total(G, Days) + RawMinutes(r)
  BY <1>2, <1>8, <1>9, <1>15, <1>16
<1> QED
  BY <1>10, <1>11, <1>12, <1>17

LEMMA GrossBounds ==
    ASSUME rows \in Seq(WorkedRow),
           \A k \in 1..Len(rows) : HasInterval(rows[k]) => RawMinutes(rows[k]) # 0
    PROVE  UnionWorkedMinutes <= CategorizedMinutes.bruto
<1>1. PICK s : s = rows
  OBVIOUS
<1>2. PICK n \in Nat : n = Len(rows) /\ \A k \in 1..n : s[k] \in WorkedRow
  BY <1>1
<1>3. PICK x \in [0..n -> Int] : /\ x[0] = 0 /\ Orphans("NORMAL") = x[n]
                                 /\ \A k \in 1..n : x[k] = OrphanIn(x[k - 1], s[k], "NORMAL")
  BY <1>1, <1>2, OrphanRuns
<1>4. PICK y \in [0..n -> Int] : /\ y[0] = 0 /\ Orphans("EXTRA") = y[n]
                                 /\ \A k \in 1..n : y[k] = OrphanIn(y[k - 1], s[k], "EXTRA")
  BY <1>1, <1>2, OrphanRuns
<1>5. PICK z \in [0..n -> Int] : /\ z[0] = 0 /\ Orphans("PLANTAO") = z[n]
                                 /\ \A k \in 1..n : z[k] = OrphanIn(z[k - 1], s[k], "PLANTAO")
  BY <1>1, <1>2, OrphanRuns
<1>6. PICK gross \in [0..n -> Int] : /\ gross[0] = 0 /\ CategorizedMinutes.bruto = gross[n]
                                     /\ \A k \in 1..n : gross[k] = gross[k - 1] + RawMinutes(s[k])
  BY <1>1, <1>2, GrossRuns
<1> DEFINE T(k) == Total(CoveredCounts(k), Days)
           OK(k) == CoveredFinite(k) /\ x[k] + y[k] + z[k] + T(k) <= gross[k]
           Done == {k \in 0..n : OK(k)}
<1>7. 0 \in Done
  <2>1. \A d : CoveredTo(0, d, Kinds) = {}
    BY DEF CoveredTo
  <2>2. IsFiniteSet({}) /\ Cardinality({}) = 0
    BY FS_EmptySet
  <2>3. CoveredFinite(0)
    BY <2>1, <2>2 DEF CoveredFinite
  <2>4. PICK F : F = CoveredCounts(0)
    OBVIOUS
  <2>5. \A d \in Days : F[d] = 0
    BY <2>1, <2>2, <2>4 DEF CoveredCounts
  <2>6. Total(F, Days) = 0
    <3>1. F \in [Days -> Int]
      BY <2>3, <2>4, CoveredTotal
    <3> QED
      BY <2>5, <3>1, MinutesAssumption, TotalOfNone
  <2>7. OK(0)
    BY <1>3, <1>4, <1>5, <1>6, <2>3, <2>4, <2>6
  <2>8. 0 \in 0..n
    OBVIOUS
  <2> HIDE DEF OK
  <2> QED
    BY <2>7, <2>8
<1>8. ASSUME NEW k \in 1..n, k - 1 \in Done PROVE k \in Done
  <2>1. OK(k - 1) /\ k \in 0..n /\ k - 1 \in 0..n
    BY <1>8
  <2>2. PICK r \in WorkedRow : r = s[k]
    BY <1>2
  <2>3. RawMinutes(r) \in Nat /\ r.kind \in Kinds
    BY RowTypes DEF WorkedRow
  <2>4. x[k - 1] \in Int /\ y[k - 1] \in Int /\ z[k - 1] \in Int /\ gross[k - 1] \in Int
    BY <2>1
  <2>5. T(k - 1) \in Int
    BY <2>1, CoveredTotal
  <2>6. /\ x[k] = OrphanIn(x[k - 1], r, "NORMAL") /\ y[k] = OrphanIn(y[k - 1], r, "EXTRA")
        /\ z[k] = OrphanIn(z[k - 1], r, "PLANTAO") /\ gross[k] = gross[k - 1] + RawMinutes(r)
    BY <1>3, <1>4, <1>5, <1>6, <2>2
  <2>7. r = rows[k] /\ k \in 1..Len(rows)
    BY <1>1, <1>2, <2>2
  <2>8. CASE HasInterval(r)
    <3>1. RawMinutes(r) > 0
      BY <2>3, <2>7, <2>8
    <3>2. CoveredFinite(k) /\ T(k) <= T(k - 1) + RawMinutes(r)
      BY <2>1, <2>7, <2>8, <3>1, RowCovers
    <3>3. T(k) \in Int
      BY <3>2, CoveredTotal
    <3>4. x[k] = x[k - 1] /\ y[k] = y[k - 1] /\ z[k] = z[k - 1]
      BY <2>6, <2>8 DEF OrphanIn
    <3> HIDE DEF T
    <3>5. PICK a, b, c, t, g, m, u : /\ a = x[k - 1] /\ b = y[k - 1] /\ c = z[k - 1]
                                     /\ t = T(k - 1) /\ g = gross[k - 1] /\ m = RawMinutes(r)
                                     /\ u = T(k)
      OBVIOUS
    <3>6. /\ a \in Int /\ b \in Int /\ c \in Int /\ t \in Int /\ g \in Int /\ m \in Int /\ u \in Int
          /\ a + b + c + t <= g /\ u <= t + m
      BY <2>1, <2>3, <2>4, <2>5, <3>2, <3>3, <3>5
    <3>7. a + b + c + u <= g + m
      BY <3>6
    <3>8. OK(k)
      BY <2>6, <3>2, <3>4, <3>5, <3>7
    <3> HIDE DEF OK
    <3> QED
      BY <2>1, <3>8
  <2>9. CASE ~HasInterval(r)
    <3>1. \A d \in Days : CoveredTo(k, d, Kinds) = CoveredTo(k - 1, d, Kinds)
      <4> TAKE d \in Days
      <4>1. CoveredTo(k, d, Kinds) = CoveredTo(k - 1, d, Kinds)
                \cup (IF r.day = d /\ HasInterval(r) THEN SpanOf(IntervalOf(r)) ELSE {})
        BY <2>7, CoveredMore
      <4> QED
        BY <2>9, <4>1
    <3>2. CoveredFinite(k) /\ T(k) = T(k - 1)
      BY <2>1, <3>1 DEF CoveredFinite, CoveredCounts
    <3>3. PICK a, b, c, t, g, m : /\ a = x[k - 1] /\ b = y[k - 1] /\ c = z[k - 1]
                                  /\ t = T(k - 1) /\ g = gross[k - 1] /\ m = RawMinutes(r)
      OBVIOUS
    <3>4. \/ x[k] = a + m /\ y[k] = b /\ z[k] = c
          \/ x[k] = a /\ y[k] = b + m /\ z[k] = c
          \/ x[k] = a /\ y[k] = b /\ z[k] = c + m
      BY <2>3, <2>6, <2>9, <3>3 DEF OrphanIn, Kinds
    <3> HIDE DEF T
    <3>5. /\ a \in Int /\ b \in Int /\ c \in Int /\ t \in Int /\ g \in Int /\ m \in Int
          /\ a + b + c + t <= g
      BY <2>1, <2>3, <2>4, <2>5, <3>3
    <3>6. /\ (a + m) + b + c + t <= g + m /\ a + (b + m) + c + t <= g + m
          /\ a + b + (c + m) + t <= g + m
      BY <3>5
    <3>7. x[k] + y[k] + z[k] + T(k) <= gross[k]
      BY <2>6, <3>2, <3>3, <3>4, <3>6
    <3>8. OK(k)
      BY <3>2, <3>7
    <3> HIDE DEF OK
    <3> QED
      BY <2>1, <3>8
  <2> QED
    BY <2>8, <2>9
<1>9. n \in Done
  <2> HIDE DEF Done
  <2>1. 0..n \subseteq Done
    BY <1>7, <1>8, EveryRound
  <2> QED
    BY <2>1
<1>10. x[n] + y[n] + z[n] + T(n) <= gross[n]
  BY <1>9
<1>11. \A d : CoveredTo(n, d, Kinds) = Covered(d, Kinds)
  BY <1>2, CoveredIsAll
<1>12. T(n) = Total([d \in Days |-> Cardinality(Covered(d, Kinds))], Days)
  BY <1>11 DEF CoveredCounts
<1>13. UnionWorkedMinutes = x[n] + y[n] + z[n] + T(n)
  BY <1>3, <1>4, <1>5, <1>12, UnionCounts
<1> QED
  BY <1>6, <1>10, <1>13

LEMMA EveryReportCounts ==
    ASSUME rows \in Seq(WorkedRow)
    PROVE  CountsOnce(CategorizedMinutes)
<1>1. CASE \A k \in 1..Len(rows) : HasInterval(rows[k]) => RawMinutes(rows[k]) # 0
  <2>1. UnionWorkedMinutes <= CategorizedMinutes.bruto
    BY <1>1, GrossBounds
  <2> QED
    BY <2>1, CategoriesCount, UnionCounts DEF CountsOnce
<1>2. CASE ~\A k \in 1..Len(rows) : HasInterval(rows[k]) => RawMinutes(rows[k]) # 0
  <2>1. \E k \in DOMAIN rows : HasInterval(rows[k]) /\ RawMinutes(rows[k]) = 0
    BY <1>2
  <2> QED
    BY <2>1, CategoriesCount, UnionCounts DEF CountsOnce
<1> QED
  BY <1>1, <1>2

\* A report that reads one row after the other.
MinutesSpec == MinutesInit /\ [][AddRow]_rows

\* The rows of a report are of the days, kinds and times it can read.
THEOREM RowsHaveTypes == MinutesSpec => []MinutesTypeOK
<1>1. MinutesInit => MinutesTypeOK
  BY DEF MinutesInit, MinutesTypeOK
<1>2. MinutesTypeOK /\ [AddRow]_rows => MinutesTypeOK'
  <2> SUFFICES ASSUME MinutesTypeOK, [AddRow]_rows PROVE MinutesTypeOK'
    OBVIOUS
  <2>1. CASE AddRow
    <3>1. PICK row \in SomeRows : rows' = Append(rows, row)
      BY <2>1 DEF AddRow
    <3>2. row \in WorkedRow
      BY MinutesAssumption
    <3> QED
      BY <3>1, <3>2 DEF MinutesTypeOK
  <2>2. CASE UNCHANGED rows
    BY <2>2 DEF MinutesTypeOK
  <2> QED
    BY <2>1, <2>2
<1> QED
  BY <1>1, <1>2, PTL DEF MinutesSpec

\* computeCategorizedMinutes counts every minute of a day once, in the category
\* of the highest priority that covers it, whatever rows a report reads and in
\* whatever order, and its total is computeUnionWorkedMinutes.
THEOREM EveryMinuteCountsOnce == MinutesSpec => []MinutesCountOnce
<1>1. MinutesTypeOK => MinutesCountOnce
  BY EveryReportCounts DEF MinutesTypeOK, MinutesCountOnce
<1> QED
  BY <1>1, RowsHaveTypes, PTL
=============================================================================
