CONSTANTS
    a1 = a1  a2 = a2  q1 = q1  q2 = q2  worker = worker  admin = admin
    Nothing = Nothing  NoDate = NoDate  DayLength = 4
    Appointments <- TwoAppointments
    Dtos <- NightDtos
    Requests <- OneRequest
    Processors <- JustWorker
    AdminRuns <- Nobody
    BatchLimit = 2
    MaxRows = 2
    MaxCopies = 4
    MaxEdits = 1
    MaxPauses = 1
    MaxErrors = 1
    MaxCrashes = 0
SPECIFICATION FairSpec
INVARIANTS DuplicatesAreExplained NoOverlapShortOfADay
PROPERTY QueuedIsServed
\* a user need not do anything more
CHECK_DEADLOCK FALSE
