---------------------------- MODULE MCMailAndGroups ----------------------------
(* Small instances, side by side, of the queue of e-mails and of the groups   *)
(* of tickets.  A behaviour is of one of the two: focus says which.           *)
EXTENDS MCPreTickets, TicketGroups

CONSTANTS k1, k2, k3, k4, w1, w2

VARIABLE focus

-----------------------------------------------------------------------------
FourTickets == {k1, k2, k3, k4}
TwoGroupers == {w1, w2}

allVars == <<focus, vars, groupVars>>

InitOfOne ==
    /\ focus \in {"mail", "groups"}
    /\ Init
    /\ GroupInit /\ (focus # "groups" => \A t \in Tickets : parent[t] = NoTicket)

NextOfOne ==
    \/ focus = "mail" /\ Next /\ UNCHANGED <<focus, groupVars>>
    \/ focus = "groups" /\ GroupNext /\ UNCHANGED <<focus, vars>>

\* Every await of a handler in flight returns, and every query of a grouping is
\* answered or fails.
FairSpecOfOne ==
    /\ InitOfOne /\ [][NextOfOne]_allVars
    /\ \A r \in Requests : WF_vars(Continue(r))
    /\ GroupFairness

\* The types of the pre-tickets, of their handlers, of the parents and of the
\* groupings in flight.
TypesOK == TypeOK /\ GroupTypeOK
=============================================================================
