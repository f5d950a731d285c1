CONSTANTS
    e1 = e1  e2 = e2  alice = alice  bob = bob  r1 = r1  r2 = r2  r3 = r3
    Nobody = Nobody
    Emails <- OneEmail
    Operators <- TwoOperators
    Admins <- OneAdmin
    Requests <- TwoRequests
    MaxErrors = 1
    MaxCrashes = 0
    MaxTickets = 2
SPECIFICATION Spec
INVARIANT OneTicketPerEmail
CHECK_DEADLOCK FALSE
