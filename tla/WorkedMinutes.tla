---------------------------- MODULE WorkedMinutes ----------------------------
(***************************************************************************)
(* How the minutes of appointments are counted, translated from            *)
(* rendimento-worked-minutes.helper.ts: the timesheet, the balance of      *)
(* overtime and the reports all count with computeCategorizedMinutes.      *)
(*                                                                         *)
(* The code sorts, merges and subtracts intervals with loops and cursors.  *)
(* The contract it has to honour, docs/CONTRATO_RELATORIOS_HORAS.md 5.2,   *)
(* is about sets of minutes of a day: every minute counts once, in the     *)
(* category of the highest priority that covers it.                        *)
(***************************************************************************)
EXTENDS Integers, SequencesExt, FiniteSetsExt

CONSTANTS
    Days,
    MinutesPerDay,    \* 24 * 60
    NoTime,           \* a time that is missing or is no HH:MM
    SomeRows,         \* the rows an instance is made of
    MaxRows           \* bound: rows

VARIABLE rows         \* what a report has read, in any order

Kinds == {"NORMAL", "EXTRA", "PLANTAO"}
Clock == 0..(MinutesPerDay - 1) \cup {NoTime}
WorkedRow == [day: Days, kind: Kinds, from: Clock, to: Clock, minutes: Nat]

ASSUME MinutesAssumption ==
    /\ MinutesPerDay \in Nat /\ NoTime \notin 0..MinutesPerDay
    /\ IsFiniteSet(Days) /\ SomeRows \subseteq WorkedRow

-----------------------------------------------------------------------------
\* hhmmDurationMinutes: an end before the start is of the next day.
Duration(row) ==
    IF row.from = NoTime \/ row.to = NoTime THEN 0
    ELSE (row.to - row.from) % MinutesPerDay

RawMinutes(row) == IF Duration(row) > 0 THEN Duration(row) ELSE row.minutes

\* appointmentToInterval, of a row that has a start.
HasInterval(row) == row.from # NoTime
IntervalOf(row) ==
    [start |-> row.from,
     end |-> row.from + IF RawMinutes(row) > 0 THEN RawMinutes(row) ELSE 1]

\* Mutant: the end of the later interval is taken, not the later end.
MergeNext_LastEnd(merged, i) ==
    IF merged # << >> /\ i.start <= Last(merged).end
    THEN Front(merged) \o <<[Last(merged) EXCEPT !.end = i.end]>>
    ELSE Append(merged, i)

\* mergeIntervals: an interval that touches the last one extends it.
MergeNext(merged, i) ==
    IF merged # << >> /\ i.start <= Last(merged).end
    THEN Front(merged) \o <<[Last(merged) EXCEPT !.end = IF i.end > @ THEN i.end ELSE @]>>
    ELSE Append(merged, i)

\* The intervals by their start; those that start together in any order.
SortedByStart(intervals) ==
    LET places == 1..Len(intervals)
        order == CHOOSE p \in [places -> places] :
                     /\ IsInjective(p)
                     /\ \A m, n \in places : m < n => intervals[p[m]].start <= intervals[p[n]].start
    IN [n \in places |-> intervals[order[n]]]

MergeIntervals(intervals) == FoldLeft(MergeNext, << >>, SortedByStart(intervals))

SumOfLengths(intervals) == FoldLeft(LAMBDA sum, i : sum + (i.end - i.start), 0, intervals)

\* subtractMinutes: a cursor goes through the segment past every b that covers
\* some of it, and counts what lies between them.
PastInterval(seg, at, b) ==
    IF b.end <= at.cursor \/ b.start >= seg.end \/ at.cursor >= seg.end THEN at
    ELSE [total |-> at.total + (IF b.start > at.cursor THEN b.start - at.cursor ELSE 0),
          cursor |-> b.end]

Uncovered(seg, bMerged) ==
    LET at == FoldLeft(LAMBDA acc, b : PastInterval(seg, acc, b),
                       [total |-> 0, cursor |-> seg.start], bMerged)
    IN at.total + (IF at.cursor < seg.end THEN seg.end - at.cursor ELSE 0)

SubtractMinutes(a, bMerged) == FoldLeft(LAMBDA sum, seg : sum + Uncovered(seg, bMerged), 0, a)

\* The intervals of one kind of one day, in the order of the rows.
Bucket(day, kind) ==
    FoldLeft(LAMBDA list, r : IF r.day = day /\ r.kind = kind /\ HasInterval(r)
                              THEN Append(list, IntervalOf(r)) ELSE list,
             << >>, rows)

\* The minutes of the rows without a start.
Orphans(kind) ==
    FoldLeft(LAMBDA sum, r : IF r.kind = kind /\ ~HasInterval(r) THEN sum + RawMinutes(r) ELSE sum,
             0, rows)

\* computeCategorizedMinutes.
CategorizedMinutes ==
    LET P(d) == MergeIntervals(Bucket(d, "PLANTAO"))
        E(d) == MergeIntervals(Bucket(d, "EXTRA"))
        N(d) == MergeIntervals(Bucket(d, "NORMAL"))
        normal == Orphans("NORMAL") + MapThenSumSet(LAMBDA d :
                      SubtractMinutes(N(d), MergeIntervals(P(d) \o E(d))), Days)
        extra == Orphans("EXTRA") + MapThenSumSet(LAMBDA d : SubtractMinutes(E(d), P(d)), Days)
        plantao == Orphans("PLANTAO") + MapThenSumSet(LAMBDA d : SumOfLengths(P(d)), Days)
    IN [normal |-> normal, extra |-> extra, plantao |-> plantao,
        total |-> normal + extra + plantao,
        bruto |-> FoldLeft(LAMBDA sum, r : sum + RawMinutes(r), 0, rows)]

\* computeUnionWorkedMinutes with the filter ALL.
UnionWorkedMinutes ==
    MapThenSumSet(LAMBDA k : Orphans(k), Kinds)
        + MapThenSumSet(LAMBDA d : SumOfLengths(MergeIntervals(
              Bucket(d, "NORMAL") \o Bucket(d, "EXTRA") \o Bucket(d, "PLANTAO"))), Days)

-----------------------------------------------------------------------------
MinutesInit == rows = << >>
AddRow == Len(rows) < MaxRows /\ \E row \in SomeRows : rows' = Append(rows, row)

MinutesTypeOK == rows \in Seq(WorkedRow)

\* The contract: the minutes of a day that a category covers, as a set.
Covered(day, kinds) ==
    UNION {(i.start)..(i.end - 1) :
              i \in {IntervalOf(rows[n]) :
                        n \in {m \in DOMAIN rows : /\ rows[m].day = day /\ rows[m].kind \in kinds
                                                   /\ HasInterval(rows[m])}}}
MinutesIn(kinds, before) ==
    MapThenSumSet(LAMBDA d : Cardinality(Covered(d, kinds) \ Covered(d, before)), Days)

\* What is counted of every category is what the contract gives it.
CountsOnce(counted) ==
    /\ counted.plantao = Orphans("PLANTAO") + MinutesIn({"PLANTAO"}, {})
    /\ counted.extra = Orphans("EXTRA") + MinutesIn({"EXTRA"}, {"PLANTAO"})
    /\ counted.normal = Orphans("NORMAL") + MinutesIn({"NORMAL"}, {"PLANTAO", "EXTRA"})
    /\ counted.total = UnionWorkedMinutes
    /\ counted.total <= counted.bruto
        \/ \E n \in DOMAIN rows : HasInterval(rows[n]) /\ RawMinutes(rows[n]) = 0

\* Every minute of a day counts once, in the category of the highest priority
\* that covers it (PLANTAO, EXTRA, NORMAL), whatever overlaps, touches, repeats
\* or passes midnight, and the total is that of the union of all the rows
\* (computeCategorizedMinutes, computeUnionWorkedMinutes).
MinutesCountOnce == rows # << >> => CountsOnce(CategorizedMinutes)
=============================================================================
