--------------------------- MODULE MCAppointments ---------------------------
(* Small instances of Appointments for TLC: days of a few minutes.         *)
EXTENDS OutboxRefinement, TLC

CONSTANTS a1, a2, q1, q2, worker, admin

OneAppointment == {a1}
TwoAppointments == {a1, a2}
OneRequest == {q1}
TwoRequests == {q1, q2}
JustWorker == {worker}
WorkerAndAdmin == {worker, admin}
JustAdmin == {admin}
Nobody == {}

Dto(date, init, end) ==
    [date |-> date, initTime |-> init, endTime |-> end, endDate |-> NoDate,
     isWarning |-> FALSE]

OneDto == {Dto(1, 0, 1)}

\* Two times that do not overlap.
ApartDtos == {Dto(1, 0, 1), Dto(1, 2, 3)}

\* A morning, a night that ends the next day, and the morning it ends in.
NightDtos == {Dto(1, 0, 1), Dto(1, 2, 1), Dto(2, 0, 2)}
=============================================================================
