CONSTANTS
    Days <- JustTwoDays
    MinutesPerDay = 24
    NoTime = NoTime
    SomeRows <- RowsOfADay
    MaxRows = 3
    AlertMinutes = 1
    DailyWorkMinutes = 5
    LunchMinutes = 2
    DayRows <- HoursOfADay
    ClaimPeriods <- PeriodsOfADay
    MaxClaims = 2
    MaxItems = 4
    x1 = x1  j1 = j1  ana = ana  adm = adm
    Worked <- OneAppointment
    Justifications <- OneJustification
    EventIds = {1, 2, 3, 4}
    Minutes <- HalfAnHourOrOne
    Callers <- TwoPeople
    None = None
    MaxOps = 3
    MaxMoves = 1
    MaxDeaths = 1
    p1 = p1  p2 = p2  a1 = a1  a2 = a2
    Appointments <- TwoAppointments
    Activities <- TaskAndMilestone
    Milestones <- JustTheMilestone
    Durations <- TwoHours
    Predecessors <- TaskFirst
    Lengths <- ShortOrLong
    Percents <- NoneOrAll
    Keep = Keep
    Nothing = Nothing
    Clients <- TwoPeople
    MaxRequests = 2
    MaxBroken = 1
SPECIFICATION Spec
SYMMETRY Interchangeable
INVARIANTS TypeOK MinutesCountOnce PageIsSound BalanceIsCurrent ProgressIsCurrent
PROPERTIES DecisionsAreKept
\* the rows, the calls and the requests have bounds
CHECK_DEADLOCK FALSE
