----------------------------- MODULE RuleCalendar -----------------------------
(***************************************************************************)
(* The dates of a rule that opens tickets by itself, translated from       *)
(* ticket-auto-open.helper.ts: how advanceScheduledDate moves the date of  *)
(* the next ticket, and the dates a rule goes through when nothing fails.  *)
(* A date is a record of the Gregorian calendar; a day that its month does *)
(* not have spills into the next month, as the setters of Date do.         *)
(***************************************************************************)
EXTENDS Integers, FiniteSets

CONSTANTS
    FirstDates,      \* the dates rules may be given for their first ticket
    Periodicities,   \* those of the rules
    MaxAdvances      \* bound: tickets of one rule

VARIABLES
    firstDate,     \* nextScheduledDate as the administrator wrote it
    date,          \* nextScheduledDate now
    periodicity,
    advances       \* tickets opened since firstDate

seriesVars == <<firstDate, date, periodicity, advances>>

-----------------------------------------------------------------------------
IsLeapYear(y) == (y % 4 = 0 /\ y % 100 # 0) \/ y % 400 = 0

DaysInMonth(y, m) ==
    IF m = 2 THEN IF IsLeapYear(y) THEN 29 ELSE 28
    ELSE IF m \in {4, 6, 9, 11} THEN 30 ELSE 31

\* The date a Date object holds once given day d of month m: at most one
\* month further on.
Normalized(y, m, d) ==
    LET over == d - DaysInMonth(y, m) IN
    IF over <= 0 THEN [y |-> y, m |-> m, d |-> d]
    ELSE [y |-> IF m = 12 THEN y + 1 ELSE y, m |-> (m % 12) + 1, d |-> over]

\* A day of the calendar.
IsDate(dt) == /\ dt \in [y : Int, m : 1..12, d : 1..31]
              /\ dt.d <= DaysInMonth(dt.y, dt.m)

ASSUME FirstDatesAssumption == \A dt \in FirstDates : IsDate(dt)

PlusDays(dt, n) == Normalized(dt.y, dt.m, dt.d + n)

PlusMonths(dt, n) ==
    LET months == dt.m - 1 + n
    IN Normalized(dt.y + months \div 12, (months % 12) + 1, dt.d)

\* Days from 1 March of the year 0, which was a Wednesday.
DayNumber(dt) ==
    LET y == IF dt.m > 2 THEN dt.y ELSE dt.y - 1
        m == (dt.m + 9) % 12
    IN 365 * y + y \div 4 - y \div 100 + y \div 400 + (153 * m + 2) \div 5 + dt.d - 1

Weekday(dt) == (DayNumber(dt) + 3) % 7

\* Mutant: only Sundays.
IsWeekend_Sunday(dt) == Weekday(dt) = 0

IsWeekend(dt) == Weekday(dt) \in {0, 6}

AdvanceToNextWeekday(dt) ==
    LET n == CHOOSE k \in 1..3 : /\ ~IsWeekend(PlusDays(dt, k))
                                 /\ \A j \in 1..(k - 1) : IsWeekend(PlusDays(dt, j))
    IN PlusDays(dt, n)

\* The periodicities that count days, and those that count months.
DaysOf == [DAILY |-> 1, WEEKLY |-> 7, BIWEEKLY |-> 14]
MonthsOf == [MONTHLY |-> 1, BIMONTHLY |-> 2, QUARTERLY |-> 3, SEMIANNUAL |-> 6,
             YEARLY |-> 12]

ASSUME PeriodicitiesAssumption ==
    Periodicities \subseteq {"ONCE", "DAILY_WEEKDAYS"} \cup DOMAIN DaysOf \cup DOMAIN MonthsOf

AdvanceScheduledDate(dt, p) ==
    CASE p = "ONCE"           -> dt
      [] p = "DAILY_WEEKDAYS" -> AdvanceToNextWeekday(dt)
      [] p \in DOMAIN DaysOf  -> PlusDays(dt, DaysOf[p])
      [] OTHER                -> PlusMonths(dt, MonthsOf[p])

-----------------------------------------------------------------------------
SeriesInit ==
    /\ firstDate \in FirstDates
    /\ date = firstDate
    /\ periodicity \in Periodicities
    /\ advances = 0

SeriesNext ==
    /\ advances < MaxAdvances /\ periodicity # "ONCE"
    /\ date' = AdvanceScheduledDate(date, periodicity)
    /\ advances' = advances + 1
    /\ UNCHANGED <<firstDate, periodicity>>

-----------------------------------------------------------------------------
MonthNumber(dt) == 12 * dt.y + dt.m

\* The months between the first date of a monthly rule and the date it should
\* have reached.
Expected == MonthNumber(firstDate) + MonthsOf[periodicity] * advances

WorkingDaysSinceFirst ==
    {n \in (DayNumber(firstDate) + 1)..DayNumber(date) : (n + 3) % 7 \notin {0, 6}}

\* The dates of a rule are the ones its periodicity promises: a step of so
\* many days exactly, every working day and no other, or the same day of every
\* so many months.  A day above 28 that a month does not have becomes one of
\* the first days of the month after and stays there: in the whole life of the
\* rule one month is left out, never a second one, and no day is ever earlier
\* than promised.
SeriesIsSound ==
    /\ IsDate(date)
    /\ periodicity \in DOMAIN DaysOf =>
          DayNumber(date) = DayNumber(firstDate) + DaysOf[periodicity] * advances
    /\ periodicity = "DAILY_WEEKDAYS" /\ advances > 0 =>
          ~IsWeekend(date) /\ Cardinality(WorkingDaysSinceFirst) = advances
    /\ periodicity \in DOMAIN MonthsOf =>
          \/ MonthNumber(date) = Expected /\ date.d = firstDate.d
          \/ MonthNumber(date) = Expected + 1 /\ firstDate.d > 28 /\ date.d <= 3
=============================================================================
