CONSTANTS
    o1 = o1  o2 = o2  o3 = o3
    NoRow = NoRow  Earlier = Earlier  Mirrored = Mirrored
    Openings <- ThreeOpenings
    Cutover = 12
    MaxNumber = 14
    MaxChecks = 1
    MaxMirrored = 1
    HighestMirrored = 5
    MaxFailures = 1
    InitialTables <- AnyTable
    InitialSeqs <- AnySeq
    i1 = i1  i2 = i2  q1 = q1  q2 = q2
    Processes <- TwoProcesses
    Requests <- TwoLoads
    CompleteTtl = 1
    PeriodTtl = 2
    HoursTtl = 2
    MaxBuild = 1
    MaxEvents = 4
    Absent = Absent
SYMMETRY Interchangeable
SPECIFICATION SpecBoth
INVARIANTS TypesOK OlderTicketsSurvive AnswersAreFresh
\* every opening ends, and the requests have a bound
CHECK_DEADLOCK FALSE
