CONSTANTS
    o1 = o1  o2 = o2  o3 = o3
    NoRow = NoRow  Earlier = Earlier  Mirrored = Mirrored
    Openings <- ThreeOpenings
    Cutover = 12
    MaxNumber = 14
    MaxChecks = 2
    MaxMirrored = 0
    HighestMirrored = 5
    MaxFailures = 0
    InitialTables <- SomeTable
    InitialSeqs <- AlignedSeq
SPECIFICATION Spec
INVARIANT DistinctNumbers
\* every opening ends
CHECK_DEADLOCK FALSE
