CONSTANTS
    u1 = u1  u2 = u2  r1 = r1  r2 = r2
    NoUser = NoUser
    Users <- TwoUsers
    Requests <- TwoRequests
    Operations <- DecisionOperations
    MaxEdits = 0
    MaxFailures = 0
SPECIFICATION FairSpec
PROPERTY RejectionNeverHidden
CHECK_DEADLOCK FALSE
