-------------------------- MODULE MCTicketNumbers --------------------------
(* Small instances of TicketNumbers for TLC.                               *)
EXTENDS TicketNumbers, TLC

CONSTANTS o1, o2, o3

ThreeOpenings == {o1, o2, o3}

\* No ticket; a few; a few and one of the legacy range.
AnyTable == {{}, {1, 2}, {1, 2, 3}, {1, 2, Cutover}}
SomeTable == {{1, 2}}

\* As the migration creates it, behind the tickets, aligned, ahead of them.
AnySeq == {[last |-> Cutover, called |-> FALSE], [last |-> 1, called |-> FALSE],
           [last |-> 2, called |-> TRUE], [last |-> 4, called |-> TRUE]}
AlignedSeq == {[last |-> 2, called |-> TRUE], [last |-> 3, called |-> FALSE],
               [last |-> 5, called |-> TRUE]}

Symmetry == Permutations(Openings)
=============================================================================
