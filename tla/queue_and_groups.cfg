CONSTANTS
    e1 = e1  e2 = e2  alice = alice  bob = bob  r1 = r1  r2 = r2  r3 = r3
    Nobody = Nobody
    Emails <- OneEmail
    Operators <- TwoOperators
    Admins <- OneAdmin
    Requests <- ThreeRequests
    MaxErrors = 2
    MaxCrashes = 1
    MaxTickets = 3
    k1 = k1  k2 = k2  k3 = k3  k4 = k4  w1 = w1  w2 = w2
    Tickets <- FourTickets
    NoTicket = NoTicket
    Groupers <- TwoGroupers
    MaxGroupings = 3
SPECIFICATION FairSpecOfOne
INVARIANTS TypesOK OneOpener QueueIsSound GroupsAreTrees
PROPERTIES ReservationIsHonoured OpeningEnds GroupingEnds
\* the attempts and the groupings have bounds
CHECK_DEADLOCK FALSE
