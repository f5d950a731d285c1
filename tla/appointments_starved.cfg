CONSTANTS
    a1 = a1  a2 = a2  q1 = q1  q2 = q2  worker = worker  admin = admin
    Nothing = Nothing  NoDate = NoDate  DayLength = 4
    Appointments <- TwoAppointments
    Dtos <- ApartDtos
    Requests <- OneRequest
    Processors <- JustWorker
    AdminRuns <- Nobody
    BatchLimit = 1
    MaxRows = 2
    MaxCopies = 3
    MaxEdits = 0
    MaxPauses = 1
    MaxErrors = 0
    MaxCrashes = 0
SPECIFICATION FairSpec
PROPERTY QueuedIsServed
\* a user need not do anything more
CHECK_DEADLOCK FALSE
