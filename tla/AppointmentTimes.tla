--------------------------- MODULE AppointmentTimes ---------------------------
(***************************************************************************)
(* When an appointment takes place and when two of them overlap,           *)
(* translated from validateAppointmentDto, absoluteMinutes and             *)
(* assertNoOverlappingAppointmentForUser (tickets-appointments.service.ts) *)
(* and from portal-appointment.helper.ts.                                  *)
(*                                                                         *)
(* A day has DayLength minutes.  A request names a date, a start and an    *)
(* end within a day and, optionally, the date of the end.  The database    *)
(* keeps the date, the start and the end but not the date of the end.      *)
(***************************************************************************)
EXTENDS Integers

CONSTANTS
    DayLength,  \* 24 * 60
    NoDate      \* the request has no end date

ASSUME DayAssumption == DayLength \in Nat \ {0} /\ NoDate \notin Int

\* What a request says of its time (CreateTicketAppointmentDto); times that do not
\* parse are refused, or last no time.
DtoType == [date: Int, initTime: 0..(DayLength - 1), endTime: 0..(DayLength - 1),
            endDate: Int \cup {NoDate}, isWarning: BOOLEAN]

\* How many days after its date a request ends.
DaySpan(dto) ==
    IF dto.endDate # NoDate THEN dto.endDate - dto.date
    ELSE IF dto.endTime < dto.initTime THEN 1 ELSE 0

Duration(dto) ==
    IF DaySpan(dto) < 0 THEN 0
    ELSE dto.endTime + DaySpan(dto) * DayLength - dto.initTime

\* Only a warning may last no time, and it starts and ends the same day.
Accepted(dto) ==
    /\ dto.endDate \in {NoDate, dto.date, dto.date + 1}
    /\ \/ Duration(dto) > 0
       \/ /\ dto.isWarning
          /\ dto.initTime = dto.endTime
          /\ dto.endDate \in {NoDate, dto.date}
    /\ Duration(dto) <= DayLength

Overnight(t) ==
    \/ t.endDate # NoDate /\ t.endDate # t.date
    \/ t.endTime < t.initTime

EndDate(t) ==
    IF ~ Overnight(t) THEN t.date
    ELSE IF t.endDate \notin {NoDate, t.date} THEN t.endDate
    ELSE t.date + 1

\* The minutes absoluteMinutes gives it; none when it ends before it starts.
Minutes(t) ==
    (t.date * DayLength + t.initTime) .. (EndDate(t) * DayLength + t.endTime - 1)

\* What the row of an appointment tells of its time.
Stored(dto) == [dto EXCEPT !.endDate = NoDate]

\* Mutant: the day before is not looked at.
DatesLookedAt_SameDay(dto) ==
    {dto.date} \cup IF Overnight(dto) THEN {dto.date + 1} ELSE {}

\* The dates whose appointments the check reads.
DatesLookedAt(dto) ==
    {dto.date - 1, dto.date} \cup IF Overnight(dto) THEN {dto.date + 1} ELSE {}

\* The request overlaps an appointment stored for `other'.
Conflict(dto, other) ==
    /\ other.date \in DatesLookedAt(dto)
    /\ Minutes(dto) \cap Minutes(Stored(other)) # {}

\* For the properties: the minutes the request really covers.
TrueMinutes(dto) ==
    LET start == dto.date * DayLength + dto.initTime
    IN  start .. (start + Duration(dto) - 1)

FullDay(dto) == Duration(dto) = DayLength

=============================================================================
