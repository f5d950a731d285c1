CONSTANTS
    FirstDates <- SomeDates
    Periodicities <- AllPeriodicities
    MaxAdvances = 14
    r1 = r1  r2 = r2  cron = cron  admin = admin
    Rules <- TwoRules
    EveryDays <- DailyAndOnce
    SlotOf <- LateAndEarly
    SlotsPerDay = 2
    LastDay = 1
    Runners <- CronAndAdmin
    RunLimit <- Limits
    Take = 1
    MaxFailures = 2
    MaxFaults = 1
    MaxChanges = 1
    t1 = t1  u1 = u1  ana = ana
    TicketIds <- OneTicket
    Stages <- StageNames
    LastStages <- JustEncerrado
    Novo = "Novo"
    Cancelado = "Cancelado"
    Responsibles <- JustAna
    Nobody = Nobody
    Keep = Keep
    Users <- OneUser
    Job = Job
    IdleStage = Keep
    IdleTime = 1
    IdleActions <- NotifyAndMove
    EventDto <- GiveToAna
    Window = 1
    MaxTime = 3
    MaxSpent = 2
SPECIFICATION FairSpec
INVARIANTS TypeOK SeriesIsSound EveryDateOnce ActedAgainIsExplained
PROPERTIES RulesAreServed ChangesAreAskedFor
\* the dates, the times and the requests have bounds
CHECK_DEADLOCK FALSE
