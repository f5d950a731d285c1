------------------------------- MODULE MCGmud -------------------------------
(* Small instances of Gmud for TLC.                                         *)
EXTENDS Gmud, TLC

CONSTANTS u1, u2, r1, r2

TwoUsers == {u1, u2}
TwoRequests == {r1, r2}

\* Every endpoint.
EveryOperation == AllOperations

\* Decisions only.
DecisionOperations == {"approve", "onBehalf"}

Symmetry == Permutations(Users) \cup Permutations(Requests)
=============================================================================
