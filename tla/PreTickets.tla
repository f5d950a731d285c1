----------------------------- MODULE PreTickets -----------------------------
(***************************************************************************)
(* The queue of pre-tickets (one per inbound e-mail) that operators share, *)
(* translated from pre-tickets.service.ts.  An operator reserves a         *)
(* pre-ticket (claim), gives it back (release), discards it (softDelete)   *)
(* or opens a ticket from it (openAsTicket).  Every handler is split at    *)
(* its awaits: what it read may be stale when it writes.                   *)
(*                                                                         *)
(* Opening is long: it locks the pre-ticket by writing OPENED, creates the *)
(* ticket in TiFlux or takes a portal number, upserts the portal ticket,   *)
(* its description and its attachments, and records the number.  An error  *)
(* on the way returns the pre-ticket to the queue; a crash of the process  *)
(* does not.                                                               *)
(*                                                                         *)
(* A ticket is represented by the pre-ticket it comes from: `remote' and   *)
(* `portal' count the tickets made in TiFlux and in the portal.  How a     *)
(* portal number is chosen is the subject of TicketNumbers.                *)
(***************************************************************************)
EXTENDS Naturals, FiniteSets

CONSTANTS
    Emails,         \* the pre-tickets (one per inbound e-mail)
    Operators,      \* users with an internal role
    Admins,         \* those of them with role ADMIN
    Requests,       \* slots for handlers in flight; a slot is reused
    Nobody,         \* claimed_by_user_id and ticket_number are null
    MaxErrors,      \* bound: errors thrown while a ticket is opened
    MaxCrashes,     \* bound: processes that die with a request half done
    MaxTickets      \* bound: opening attempts per pre-ticket

ASSUME AdminsAssumption == Admins \subseteq Operators
ASSUME NobodyAssumption == Nobody \notin Operators
ASSUME BoundsAssumption ==
    MaxErrors \in Nat /\ MaxCrashes \in Nat /\ MaxTickets \in Nat

VARIABLES
    status,     \* pre_tickets.status
    deletedAt,  \* whether deleted_at is set
    hasNumber,  \* whether ticket_number is set
    claimedBy,  \* claimed_by_user_id
    claimFresh, \* claimed_at is less than PRE_TICKET_CLAIM_MINUTES old
    req,        \* the handlers in flight
    remote,     \* tickets made in TiFlux for each e-mail
    portal,     \* portal tickets made for each e-mail
    attempts,   \* opening attempts that got the lock
    errors,     \* errors thrown so far
    crashes     \* crashes so far

preTicket == <<status, deletedAt, hasNumber, claimedBy, claimFresh>>
tickets == <<remote, portal>>
bounds == <<attempts, errors, crashes>>
vars == <<status, deletedAt, hasNumber, claimedBy, claimFresh, req, remote, portal,
          attempts, errors, crashes>>

-----------------------------------------------------------------------------
\* Types

Statuses == {"PENDING", "OPENED", "DELETED"}

\* Labels of a handler that holds the lock of openAsTicket.
HoldsLock == {"create", "upsert", "describe", "record", "history", "revert"}

PCs == {"idle", "lock", "claimWrite", "deleteWrite"} \cup HoldsLock

Request == [pc: PCs, email: Emails \cup {Nobody}, actor: Operators \cup {Nobody}]

Idle == [pc |-> "idle", email |-> Nobody, actor |-> Nobody]

TypeOK ==
    /\ status \in [Emails -> Statuses]
    /\ deletedAt \in [Emails -> BOOLEAN]
    /\ hasNumber \in [Emails -> BOOLEAN]
    /\ claimedBy \in [Emails -> Operators \cup {Nobody}]
    /\ claimFresh \in [Emails -> BOOLEAN]
    /\ req \in [Requests -> Request]
    /\ \A r \in Requests :
          req[r].pc # "idle" => req[r].email \in Emails /\ req[r].actor \in Operators
    /\ remote \in [Emails -> Nat]
    /\ portal \in [Emails -> Nat]
    /\ attempts \in [Emails -> Nat]
    /\ errors \in Nat
    /\ crashes \in Nat

-----------------------------------------------------------------------------
\* The queue holds the e-mails, received and not yet handled.
Init ==
    /\ status = [p \in Emails |-> "PENDING"]
    /\ deletedAt = [p \in Emails |-> FALSE]
    /\ hasNumber = [p \in Emails |-> FALSE]
    /\ claimedBy = [p \in Emails |-> Nobody]
    /\ claimFresh = [p \in Emails |-> FALSE]
    /\ req = [r \in Requests |-> Idle]
    /\ remote = [p \in Emails |-> 0]
    /\ portal = [p \in Emails |-> 0]
    /\ attempts = [p \in Emails |-> 0]
    /\ errors = 0
    /\ crashes = 0

At(r, label) == req[r].pc = label

Finish(r) == req' = [req EXCEPT ![r] = Idle]

Goto(r, label) == req' = [req EXCEPT ![r].pc = label]

\* Mutant: the handler forgets who called it.
BeginHandler_NoActor(r, u, p, label) ==
    /\ At(r, "idle")
    /\ ~ deletedAt[p]
    /\ status[p] = "PENDING"
    /\ req' = [req EXCEPT ![r] = [pc |-> label, email |-> p, actor |-> Nobody]]
    /\ UNCHANGED <<preTicket, tickets, bounds>>

\* getOne and the check of the status, common to claim, softDelete and
\* openAsTicket.
BeginHandler(r, u, p, label) ==
    /\ At(r, "idle")
    /\ ~ deletedAt[p]
    /\ status[p] = "PENDING"
    /\ req' = [req EXCEPT ![r] = [pc |-> label, email |-> p, actor |-> u]]
    /\ UNCHANGED <<preTicket, tickets, bounds>>

-----------------------------------------------------------------------------
\* claim, release

BeginClaim(r, u, p) == BeginHandler(r, u, p, "claimWrite")

\* Mutant: the write does not look at who holds the reservation.
ClaimMatches_AnyHolder(p, u) == status[p] = "PENDING" /\ ~ deletedAt[p]

\* The condition of the updateMany: still queued, and free, mine or expired.
ClaimMatches(p, u) ==
    /\ status[p] = "PENDING"
    /\ ~ deletedAt[p]
    /\ claimedBy[p] \in {Nobody, u} \/ ~ claimFresh[p]

ClaimWrite(r) ==
    LET p == req[r].email
        u == req[r].actor
    IN  /\ At(r, "claimWrite")
        /\ IF ClaimMatches(p, u)
           THEN /\ claimedBy' = [claimedBy EXCEPT ![p] = u]
                /\ claimFresh' = [claimFresh EXCEPT ![p] = TRUE]
           ELSE UNCHANGED <<claimedBy, claimFresh>>
        /\ Finish(r)
        /\ UNCHANGED <<status, deletedAt, hasNumber, tickets, bounds>>

\* release: one conditional write; an ADMIN releases anybody's reservation.
Release(u, p) ==
    /\ ~ deletedAt[p]
    /\ u \in Admins \/ claimedBy[p] = u
    /\ claimedBy' = [claimedBy EXCEPT ![p] = Nobody]
    /\ claimFresh' = [claimFresh EXCEPT ![p] = FALSE]
    /\ UNCHANGED <<status, deletedAt, hasNumber, req, tickets, bounds>>

\* PRE_TICKET_CLAIM_MINUTES pass.
ClaimExpires(p) ==
    /\ claimFresh[p]
    /\ claimFresh' = [claimFresh EXCEPT ![p] = FALSE]
    /\ UNCHANGED <<status, deletedAt, hasNumber, claimedBy, req, tickets, bounds>>

-----------------------------------------------------------------------------
\* softDelete: the write names the pre-ticket by id only.

BeginDelete(r, u, p) == BeginHandler(r, u, p, "deleteWrite")

DeleteWrite(r) ==
    LET p == req[r].email
    IN  /\ At(r, "deleteWrite")
        /\ status' = [status EXCEPT ![p] = "DELETED"]
        /\ deletedAt' = [deletedAt EXCEPT ![p] = TRUE]
        /\ Finish(r)
        /\ UNCHANGED <<hasNumber, claimedBy, claimFresh, tickets, bounds>>

-----------------------------------------------------------------------------
\* openAsTicket

BeginOpen(r, u, p) ==
    /\ attempts[p] < MaxTickets
    /\ BeginHandler(r, u, p, "lock")

\* Mutant: the lock is written without repeating the check.
LockMatches_ById(p) == TRUE

\* The condition of the updateMany that takes the lock.
LockMatches(p) == status[p] = "PENDING" /\ ~ deletedAt[p]

Lock(r) ==
    LET p == req[r].email
    IN  /\ At(r, "lock")
        /\ IF LockMatches(p)
           THEN /\ status' = [status EXCEPT ![p] = "OPENED"]
                /\ attempts' = [attempts EXCEPT ![p] = @ + 1]
                /\ Goto(r, "create")
           ELSE /\ Finish(r)
                /\ UNCHANGED <<status, attempts>>
        /\ UNCHANGED <<deletedAt, hasNumber, claimedBy, claimFresh, tickets, errors, crashes>>

\* A ticket with a responsible goes to TiFlux, any other gets a number of
\* the portal; both give the number used from here on.
Create(r) ==
    /\ At(r, "create")
    /\ \E syncToTiflux \in BOOLEAN :
          remote' = IF syncToTiflux
                    THEN [remote EXCEPT ![req[r].email] = @ + 1]
                    ELSE remote
    /\ Goto(r, "upsert")
    /\ UNCHANGED <<preTicket, portal, bounds>>

\* upsertByTicketNumber with a number no portal ticket has.
Upsert(r) ==
    /\ At(r, "upsert")
    /\ portal' = [portal EXCEPT ![req[r].email] = @ + 1]
    /\ Goto(r, "describe")
    /\ UNCHANGED <<preTicket, remote, bounds>>

\* The description and the attachments of the ticket.
Describe(r) ==
    /\ At(r, "describe")
    /\ Goto(r, "record")
    /\ UNCHANGED <<preTicket, tickets, bounds>>

\* The number is recorded by id, whatever the status has become.
Record(r) ==
    LET p == req[r].email
    IN  /\ At(r, "record")
        /\ status' = [status EXCEPT ![p] = "OPENED"]
        /\ hasNumber' = [hasNumber EXCEPT ![p] = TRUE]
        /\ Goto(r, "history")
        /\ UNCHANGED <<deletedAt, claimedBy, claimFresh, tickets, bounds>>

\* ticketHistory.create; the notification is not awaited.
History(r) ==
    /\ At(r, "history")
    /\ Finish(r)
    /\ UNCHANGED <<preTicket, tickets, bounds>>

\* Any of the awaits above throws: the catch of openAsTicket takes over.
Throw(r) ==
    /\ req[r].pc \in HoldsLock \ {"revert"}
    /\ errors < MaxErrors
    /\ errors' = errors + 1
    /\ Goto(r, "revert")
    /\ UNCHANGED <<preTicket, tickets, attempts, crashes>>

\* Mutants: the catch only rethrows; it does not look at the number.
RevertMatches_Never(p) == FALSE

RevertMatches_AnyOpened(p) == status[p] = "OPENED"

\* The condition of the updateMany of the catch.
RevertMatches(p) == status[p] = "OPENED" /\ ~ hasNumber[p]

Revert(r) ==
    LET p == req[r].email
    IN  /\ At(r, "revert")
        /\ status' = IF RevertMatches(p) THEN [status EXCEPT ![p] = "PENDING"] ELSE status
        /\ Finish(r)
        /\ UNCHANGED <<deletedAt, hasNumber, claimedBy, claimFresh, tickets, bounds>>

\* The process dies, or the write of the catch fails too (it is only logged).
Crash(r) ==
    /\ ~ At(r, "idle")
    /\ crashes < MaxCrashes
    /\ crashes' = crashes + 1
    /\ Finish(r)
    /\ UNCHANGED <<preTicket, tickets, attempts, errors>>

-----------------------------------------------------------------------------
Begin(r, u, p) == BeginClaim(r, u, p) \/ BeginDelete(r, u, p) \/ BeginOpen(r, u, p)

Continue(r) ==
    \/ ClaimWrite(r)
    \/ DeleteWrite(r)
    \/ Lock(r)
    \/ Create(r)
    \/ Upsert(r)
    \/ Describe(r)
    \/ Record(r)
    \/ History(r)
    \/ Revert(r)

Next ==
    \/ \E r \in Requests, u \in Operators, p \in Emails : Begin(r, u, p)
    \/ \E r \in Requests : Continue(r) \/ Throw(r) \/ Crash(r)
    \/ \E u \in Operators, p \in Emails : Release(u, p)
    \/ \E p \in Emails : ClaimExpires(p)

Spec == Init /\ [][Next]_vars

\* Every await of a handler in flight returns.
FairSpec == Spec /\ \A r \in Requests : WF_vars(Continue(r))

-----------------------------------------------------------------------------
\* Properties

Opening(p) == {r \in Requests : req[r].email = p /\ req[r].pc \in HoldsLock}

\* Two operators never open the same e-mail at the same time, whatever
\* failed, was retried, deleted or crashed before (the lock of openAsTicket).
OneOpener ==
    \A p \in Emails : \A r1, r2 \in Opening(p) : r1 = r2

\* A pre-ticket whose number is recorded never returns to the queue, so it
\* is not opened again (the condition of the write of the catch).
RecordedStaysOutOfQueue ==
    \A p \in Emails : hasNumber[p] => status[p] # "PENDING"

\* Nobody takes over a reservation that is still valid: a claim passes to
\* another operator only when it expired or was released (claim).
ReservationIsHonoured ==
    [][\A p \in Emails :
          claimFresh[p] /\ claimedBy[p] # Nobody
          => claimedBy'[p] \in {claimedBy[p], Nobody}]_vars

\* An error while a ticket is opened does not lose the e-mail: until a crash,
\* a pre-ticket marked OPENED without a number is being opened by somebody.
ErrorsLoseNoEmail ==
    crashes = 0 =>
        \A p \in Emails : status[p] = "OPENED" /\ ~ hasNumber[p] => Opening(p) # {}

\* Neither an error nor a second operator takes an e-mail out of the queue, or
\* puts it back there, that should not be (openAsTicket and its catch).
QueueIsSound == RecordedStaysOutOfQueue /\ ErrorsLoseNoEmail

\* An opening ends: unless a process dies, the e-mail marked OPENED gets its
\* number, returns to the queue or was deleted, whatever threw on the way.
OpeningEnds ==
    \A p \in Emails :
        (status[p] = "OPENED" /\ ~ hasNumber[p])
        ~> (hasNumber[p] \/ status[p] \in {"PENDING", "DELETED"} \/ crashes > 0)

\* pre-tickets.service.ts:337-340 says the lock is there so that two tickets
\* are never created for the same e-mail.
OneTicketPerEmail == \A p \in Emails : portal[p] <= 1

=============================================================================
