---------------------------- MODULE MCEmailIngest ----------------------------
(* Small instances of EmailIngest for TLC.                                  *)
EXTENDS EmailIngest, TLC

CONSTANTS admin, w1, w2

OneAdmin == {admin}
TwoWorkers == {w1, w2}

\* Two replies to the ticket, by a user and by somebody else; a reply behind a
\* message that never has a row; a new subject behind one that is ignored.
SomeMailboxes == {<<"reply", "outsideReply">>, <<"outsideReply", "noSender">>,
                  <<"new", "blocked">>}
=============================================================================
