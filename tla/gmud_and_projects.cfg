CONSTANTS
    u1 = u1  u2 = u2  r1 = r1  r2 = r2
    NoUser = NoUser
    Users <- TwoUsers
    Requests <- TwoRequests
    Operations <- EveryOperation
    MaxEdits = 2
    MaxFailures = 1
    t1 = t1  t2 = t2  t3 = t3
    Tasks <- ThreeTasks
    NoTask = NoTask
    Planners <- TwoRequests
    MaxCode = 3
    MaxPlanned = 3
    MaxSheet = 1
    ProjectStatuses <- OpenAndClosed
    Budgets = {0, 1}
    MaxConsumed = 2
    Same = Same
    Editors <- TwoRequests
    MaxAsked = 4
SPECIFICATION SpecOfOne
SYMMETRY Symmetry
INVARIANTS TypesOK ExecutionRequiresUnanimity VotesCount PlanIsSound CompletionIsCovered
PROPERTIES DecisionsAreFinal ClosingIsKept
\* the requests have bounds
CHECK_DEADLOCK FALSE
