--------------------------- MODULE OutboxRefinement ---------------------------
(* The rows of portal_tiflux_outbox implement the contract of the outbox.    *)
EXTENDS Appointments

\* How the contract sees a row.
StateOf(status) ==
    CASE status = "none" -> "none"
      [] status = "PENDING" -> "queued"
      [] status = "SYNCED" -> "done"
      [] status = "FAILED" -> "failed"
      [] status = "deleted" -> "withdrawn"

rowStates == [r \in Rows |-> StateOf(row[r].status)]

rowsSent == {r \in Rows : \E c \in Copies : copy[c].row = r}

Contract == INSTANCE OutboxContract
    WITH Entries <- Rows, state <- rowStates, delivered <- rowsSent

\* Every behaviour of the outbox keeps the contract: a row is marked SYNCED
\* only after TiFlux made a copy for it (processOne).
OutboxKeepsContract == Contract!Spec

=============================================================================
