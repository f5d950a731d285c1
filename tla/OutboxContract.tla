---------------------------- MODULE OutboxContract ----------------------------
(***************************************************************************)
(* What the outbox portal -> TiFlux promises, whoever works on it: an      *)
(* entry is marked done only after it was delivered, at least once.  It    *)
(* promises nothing of how often.                                          *)
(*                                                                         *)
(* Appointments implements it (OutboxRefinement).  There, an entry is a    *)
(* row of portal_tiflux_outbox, and it was delivered when TiFlux has made  *)
(* a copy for it.                                                          *)
(***************************************************************************)
CONSTANT Entries    \* what may be put in the outbox

VARIABLES
    state,          \* of each entry
    delivered       \* the entries delivered at least once

States == {"none", "queued", "done", "failed", "withdrawn"}

TypeOK ==
    /\ state \in [Entries -> States]
    /\ delivered \subseteq Entries

Init ==
    /\ state = [e \in Entries |-> "none"]
    /\ delivered = {}

Live(e) == state[e] \in {"queued", "done", "failed"}

Enqueue(e) ==
    /\ state[e] = "none"
    /\ state' = [state EXCEPT ![e] = "queued"]
    /\ UNCHANGED delivered

\* An edit or a retry puts entries in the queue again, done ones too.
Requeue(S) ==
    /\ \A e \in S : Live(e)
    /\ state' = [e \in Entries |-> IF e \in S THEN "queued" ELSE state[e]]
    /\ UNCHANGED delivered

\* A delivery under way is not stopped by what becomes of the entry.
Deliver(e) ==
    /\ state[e] # "none"
    /\ delivered' = delivered \cup {e}
    /\ UNCHANGED state

Complete(e) ==
    /\ Live(e)
    /\ e \in delivered
    /\ state' = [state EXCEPT ![e] = "done"]
    /\ UNCHANGED delivered

Fail(e) ==
    /\ Live(e)
    /\ state' = [state EXCEPT ![e] = "failed"]
    /\ UNCHANGED delivered

\* Only what is not done is withdrawn by somebody who saw it so.
Withdraw(e) ==
    /\ Live(e)
    /\ state' = [state EXCEPT ![e] = "withdrawn"]
    /\ UNCHANGED delivered

Next ==
    \/ \E e \in Entries :
          Enqueue(e) \/ Deliver(e) \/ Complete(e) \/ Fail(e) \/ Withdraw(e)
    \/ \E S \in SUBSET Entries : Requeue(S)

Spec == Init /\ [][Next]_<<state, delivered>>

-----------------------------------------------------------------------------
\* At least once: what is marked done was delivered.
DoneWasDelivered == \A e \in Entries : state[e] = "done" => e \in delivered

\* A withdrawn entry never comes back, and nothing delivered is forgotten.
Irrevocable ==
    [][/\ \A e \in Entries : state[e] = "withdrawn" => state'[e] = "withdrawn"
       /\ delivered \subseteq delivered']_<<state, delivered>>

=============================================================================
