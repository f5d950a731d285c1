------------------------------- MODULE MCHours -------------------------------
(* Small instances, side by side, of the count of the worked minutes, of the  *)
(* gaps of a day, of the events of one day of one user, and of the progress   *)
(* of one phase.  A behaviour is of one of the four: focus says which.        *)
EXTENDS DayGaps, DayEvents, ProjectProgress

CONSTANTS x1, j1, ana, adm, p1, p2, a1, a2

VARIABLE focus

-----------------------------------------------------------------------------
\* All the rows of one short day, and some that pass into no day, have no end,
\* no start or no minutes, or are of another day.
JustTwoDays == {1, 2}
RowsOfADay ==
    [day: {1}, kind: Kinds, from: 0..3, to: 0..3, minutes: {0}]
        \cup [day: {2}, kind: {"EXTRA", "PLANTAO"}, from: {3}, to: {1}, minutes: {0}]
        \cup [day: {1}, kind: {"NORMAL", "EXTRA"}, from: {1, NoTime}, to: {NoTime}, minutes: {0, 3}]

\* A day in hours: mornings and afternoons with gaps between and after them,
\* work that touches or overlaps, at night and past midnight, without an end,
\* and overtime.
HoursOfADay ==
    [day: {1}, kind: {"NORMAL"}, from: {8}, to: {9, 11}, minutes: {0}]
        \cup {[day |-> 1, kind |-> "NORMAL", from |-> p[1], to |-> p[2], minutes |-> 0] :
                 p \in {<<9, 10>>, <<10, 12>>, <<12, 13>>, <<13, 16>>, <<15, 16>>, <<22, 23>>, <<21, 2>>}}
        \cup {[day |-> 1, kind |-> "EXTRA", from |-> 17, to |-> 19, minutes |-> 0],
              [day |-> 1, kind |-> "NORMAL", from |-> 10, to |-> NoTime, minutes |-> 0]}
\* Periods that share a gap, span two of them, lie after the work or pass midnight.
PeriodsOfADay == {<<11, 12>>, <<9, 11>>, <<11, 15>>, <<13, 15>>, <<23, 1>>}

OneAppointment == {x1}
OneJustification == {j1}
HalfAnHourOrOne == {30, 60}
TwoPeople == {ana, adm}

TwoAppointments == {p1, p2}
TaskAndMilestone == {a1, a2}
JustTheMilestone == {a2}
TaskFirst == [a \in Activities |-> IF a = a2 THEN {a1} ELSE {}]
TwoHours == {2}
ShortOrLong == {30, 90}
NoneOrAll == {0, 100}

\* Nothing tells two people or two appointments of a project apart.
Interchangeable == Permutations(TwoPeople) \cup Permutations(TwoAppointments)

-----------------------------------------------------------------------------
allVars == <<focus, rows, gapVars, dayVars, progressVars>>

Init ==
    /\ focus \in {"minutes", "gaps", "day", "progress"}
    /\ MinutesInit
    /\ GapInit /\ (focus # "gaps" => ~isToday)
    /\ DayInit /\ (focus # "day" => overtime = [x \in Worked |-> 30])
    /\ IF focus = "progress" THEN ProgressInit
       ELSE /\ appointment = [p \in Appointments |-> 0]
            /\ ProgressInit
            /\ \A a \in Activities : ~activity[a].exists

Next ==
    \/ focus = "minutes" /\ AddRow /\ UNCHANGED <<focus, gapVars, dayVars, progressVars>>
    \/ focus = "gaps" /\ GapNext /\ UNCHANGED <<focus, rows, dayVars, progressVars>>
    \/ focus = "day" /\ DayNext /\ UNCHANGED <<focus, rows, gapVars, progressVars>>
    \/ focus = "progress" /\ ProgressNext /\ UNCHANGED <<focus, rows, gapVars, dayVars>>

Spec == Init /\ [][Next]_allVars

\* The types of what is read, of the rows, of the justifications and of the calls
\* in flight.
TypeOK == MinutesTypeOK /\ GapTypeOK /\ DayTypeOK /\ ProgressTypeOK
=============================================================================
