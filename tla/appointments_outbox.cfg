CONSTANTS
    a1 = a1  a2 = a2  q1 = q1  q2 = q2  worker = worker  admin = admin
    Nothing = Nothing  NoDate = NoDate  DayLength = 4
    Appointments <- OneAppointment
    Dtos <- OneDto
    Requests <- TwoRequests
    Processors <- WorkerAndAdmin
    AdminRuns <- JustAdmin
    BatchLimit = 1
    MaxRows = 2
    MaxCopies = 3
    MaxEdits = 1
    MaxPauses = 0
    MaxErrors = 1
    MaxCrashes = 1
SPECIFICATION Spec
INVARIANTS TypeOK SyncedWasSent
PROPERTY OutboxKeepsContract
\* a user need not do anything more
CHECK_DEADLOCK FALSE
