CONSTANTS
    admin = admin  w1 = w1  w2 = w2
    Cron = Cron  NoText = NoText
    Admins <- OneAdmin
    Workers <- TwoWorkers
    Attempts = 2
    Window = 2
    MaxMessages = 2
    Mailboxes <- SomeMailboxes
    MaxFailures = 2
    MaxChanges = 1
    MaxCalls = 2
    MaxRetries = 2
    Interval = 2
    Timeout = 3
    Pauses <- ShortAndLong
    MaxPause = 4
SPECIFICATION SpecOfOne
INVARIANTS TypesOK MailIsNotRepeatedOrLost SessionsAreOrderly
PROPERTIES MailIsHandled CallsEnd
\* the mailbox and the calls have bounds
CHECK_DEADLOCK FALSE
