----------------------------- MODULE TicketGroups -----------------------------
(***************************************************************************)
(* Tickets grouped into a parent, translated from groupIntoParent of       *)
(* tickets.service.ts, which a person calls, or the run of a rule that has *)
(* a parentTicketNumber (ticket-auto-open.service.ts).                     *)
(*                                                                         *)
(* A grouping follows the parents upwards from the chosen one, a query per *)
(* ticket, and refuses to go on when it meets a ticket it has met.  Only   *)
(* at the end does it write, so another grouping may write meanwhile above *)
(* a ticket that has been passed.  The same transaction closes the child   *)
(* and records the grouping in the history of both; Tickets says what      *)
(* later requests do to the stage and the closing of a ticket.             *)
(***************************************************************************)
EXTENDS Naturals, FiniteSets

CONSTANTS
    Tickets,
    NoTicket,        \* parent_ticket_number is null
    Groupers,        \* slots for groupings in flight
    MaxGroupings     \* bound: groupings begun

ASSUME GroupsAssumption == NoTicket \notin Tickets /\ MaxGroupings \in Nat

VARIABLES
    parent,      \* parent_ticket_number of every ticket
    grouping,    \* the groupings in flight
    raced,       \* children written when a parent read on the way had changed
    groupings    \* groupings begun

groupVars == <<parent, grouping, raced, groupings>>

-----------------------------------------------------------------------------
ParentOrNone == Tickets \cup {NoTicket}

\* path is what the walk has read: the tickets with their parents.
Grouping == [busy: BOOLEAN, child: ParentOrNone, into: ParentOrNone,
             cursor: ParentOrNone, seen: SUBSET Tickets,
             path: SUBSET (Tickets \X ParentOrNone)]

NoGrouping == [busy |-> FALSE, child |-> NoTicket, into |-> NoTicket, cursor |-> NoTicket,
               seen |-> {}, path |-> {}]

\* The calls and the parents are tickets or nothing.
GroupTypeOK ==
    /\ parent \in [Tickets -> ParentOrNone]
    /\ grouping \in [Groupers -> Grouping]
    /\ raced \subseteq Tickets
    /\ groupings \in 0..MaxGroupings

End(g) == grouping' = [grouping EXCEPT ![g] = NoGrouping]

-----------------------------------------------------------------------------
\* Mutant: the first ticket of the walk is taken for one met already.
MetAtFirst_Cursor(child, into) == {child, into, parent[into]}

MetAtFirst(child, into) == {child, into}

\* The rows of both tickets are read.  A ticket that is in the group already is
\* answered at once.
BeginGrouping(g, child, into) ==
    /\ ~grouping[g].busy /\ groupings < MaxGroupings
    /\ child # into /\ parent[child] # into
    /\ groupings' = groupings + 1
    /\ grouping' = [grouping EXCEPT ![g] =
          [busy |-> TRUE, child |-> child, into |-> into, cursor |-> parent[into],
           seen |-> MetAtFirst(child, into), path |-> {<<into, parent[into]>>}]]
    /\ UNCHANGED <<parent, raced>>

\* Mutant: only the child is looked for on the way.
IsCycle_OfChild(r) == r.cursor = r.child

\* Mutant: the child is forgotten.
IsCycle_WithoutChild(r) == r.cursor \in r.seen \ {r.child}

IsCycle(r) == r.cursor \in r.seen

\* The walk meets a ticket again: the grouping is refused.
RefuseGrouping(g) ==
    /\ grouping[g].busy /\ grouping[g].cursor # NoTicket /\ IsCycle(grouping[g])
    /\ End(g)
    /\ UNCHANGED <<parent, raced, groupings>>

\* The parent of the next ticket is read.
WalkUp(g) ==
    LET r == grouping[g] IN
    /\ r.busy /\ r.cursor # NoTicket /\ ~IsCycle(r)
    /\ grouping' = [grouping EXCEPT ![g].cursor = parent[r.cursor],
                                    ![g].seen = @ \cup {r.cursor},
                                    ![g].path = @ \cup {<<r.cursor, parent[r.cursor]>>}]
    /\ UNCHANGED <<parent, raced, groupings>>

\* The walk has come to a ticket without a parent: the child is written.
WriteParent(g) ==
    LET r == grouping[g] IN
    /\ r.busy /\ r.cursor = NoTicket
    /\ parent' = [parent EXCEPT ![r.child] = r.into]
    /\ raced' = IF \A step \in r.path : parent[step[1]] = step[2]
                THEN raced \ {r.child} ELSE raced \cup {r.child}
    /\ End(g)
    /\ UNCHANGED groupings

\* The database or the process fails.
BreakGrouping(g) ==
    /\ grouping[g].busy
    /\ End(g)
    /\ UNCHANGED <<parent, raced, groupings>>

GroupStep(g) == RefuseGrouping(g) \/ WalkUp(g) \/ WriteParent(g)

-----------------------------------------------------------------------------
\* Tickets without their own descendants above them.
IsForest(of, members) ==
    \A S \in SUBSET members : S # {} => \E t \in S : of[t] \notin S

GroupInit ==
    /\ parent \in {of \in [Tickets -> ParentOrNone] : IsForest(of, Tickets)}
    /\ grouping = [g \in Groupers |-> NoGrouping]
    /\ raced = {} /\ groupings = 0

GroupNext ==
    \E g \in Groupers :
        \/ GroupStep(g)
        \/ BreakGrouping(g)
        \/ \E child, into \in Tickets : BeginGrouping(g, child, into)

\* Every query of a request is answered or fails.
GroupFairness == \A g \in Groupers : WF_groupVars(GroupStep(g))

GroupSpec == GroupInit /\ [][GroupNext]_groupVars /\ GroupFairness

-----------------------------------------------------------------------------
\* No ticket is above itself, whatever groupings are in flight, unless a parent
\* that one of them had passed was changed before it wrote (groupIntoParent):
\* every circle has such a ticket in it.
GroupsAreTrees ==
    \A S \in SUBSET Tickets : S # {} => \E t \in S : parent[t] \notin S \/ t \in raced

\* A grouping ends, though the parents it follows move under it and may run in
\* a circle two earlier ones have left (the set seen of groupIntoParent).
GroupingEnds == \A g \in Groupers : grouping[g].busy ~> ~grouping[g].busy
=============================================================================
