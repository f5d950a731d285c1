---------------------------- MODULE MCPreTickets ----------------------------
(* Small instances of PreTickets for TLC.                                   *)
EXTENDS PreTickets, TLC

CONSTANTS e1, e2, alice, bob, r1, r2, r3

OneEmail == {e1}
TwoEmails == {e1, e2}
TwoOperators == {alice, bob}
OneAdmin == {alice}
TwoRequests == {r1, r2}
ThreeRequests == {r1, r2, r3}

Symmetry == Permutations(Emails) \cup Permutations(Requests)
=============================================================================
