-------------------------------- MODULE Gmud --------------------------------
(***************************************************************************)
(* The approval workflow of a change request ("GMUD"), translated from     *)
(* gmud.service.ts.  The HTTP handlers run concurrently and each awaits    *)
(* several database round trips, so one handler is several actions: a read *)
(* of the GMUD, a read of the approver row, a write of the row, a second   *)
(* read of all rows (the tally) and the write of the outcome.  A handler   *)
(* works on what it read, which may be stale by the time it writes.        *)
(*                                                                         *)
(* One GMUD is modelled: no handler touches two.  An approver row is named *)
(* by its user and by `round', the generation of rows it belongs to: an    *)
(* edit that replaces the approvers deletes every row and creates new ones *)
(* with new ids, and a write that names a deleted row changes nothing.     *)
(***************************************************************************)
EXTENDS Naturals, FiniteSets

CONSTANTS
    Users,          \* the users an approver list may name
    Requests,       \* slots for handlers in flight; a slot is reused
    Operations,     \* the endpoints called (a subset of AllOperations)
    NoUser,         \* not a user: the user of a slot that names none
    MaxEdits,       \* bound: PATCH requests that write
    MaxFailures     \* bound: requests that die half way

AllOperations == {"approve", "onBehalf", "edit", "start", "complete", "cancel"}

ASSUME OperationsAssumption == Operations \subseteq AllOperations
ASSUME NoUserAssumption == NoUser \notin Users
ASSUME BoundsAssumption == MaxEdits \in Nat /\ MaxFailures \in Nat

VARIABLES
    status,     \* gmud.status ("ABSENT" until created)
    approver,   \* status of each user's row ("NONE": not an approver)
    round,      \* generation of the approver rows
    behalf,     \* rows whose decisionNote says APROVADO_EM_NOME_DE
    evidence,   \* rows for which an evidence attachment was stored
    req,        \* the handlers in flight
    edits,      \* edits written so far
    unanimous,  \* history: the rounds in which every row was APPROVED
    failures    \* requests that died half way

vars == <<status, approver, round, behalf, evidence, req, edits, unanimous, failures>>
gmud == <<status, approver, round>>

-----------------------------------------------------------------------------
\* Types

Statuses == {"ABSENT", "DRAFT", "PENDING_APPROVAL", "APPROVED", "REJECTED",
             "IN_EXECUTION", "EXECUTED", "CANCELED"}

Decisions == {"APPROVED", "REJECTED"}

RowStatuses == {"NONE", "PENDING"} \cup Decisions

PCs == {"idle", "findApprover", "storeEvidence", "decide", "tally", "outcome",
        "editWrite", "startWrite", "completeWrite", "cancelWrite"}

\* What the tally concludes: anyRejected, allApproved or neither.
Verdicts == {"open", "anyRejected", "allApproved"}

Request == [pc: PCs, onBehalf: BOOLEAN, user: Users \cup {NoUser}, decision: Decisions,
            round: Nat, verdict: Verdicts,
            resets: BOOLEAN, approvers: SUBSET Users, submits: BOOLEAN]

Idle == [pc |-> "idle", onBehalf |-> FALSE, user |-> NoUser,
         decision |-> "APPROVED", round |-> 0, verdict |-> "open",
         resets |-> FALSE, approvers |-> {}, submits |-> FALSE]

Rows == Users \X Nat

TypeOK ==
    /\ status \in Statuses
    /\ approver \in [Users -> RowStatuses]
    /\ round \in Nat
    /\ behalf \subseteq Rows
    /\ evidence \subseteq Rows
    /\ req \in [Requests -> Request]
    /\ \A r \in Requests :
          req[r].pc \in {"findApprover", "storeEvidence", "decide"} => req[r].user \in Users
    /\ edits \in Nat
    /\ unanimous \subseteq Nat
    /\ failures \in Nat

-----------------------------------------------------------------------------
\* The approver rows

Approvers == {u \in Users : approver[u] # "NONE"}

AllRowsPending == \A u \in Approvers : approver[u] = "PENDING"

\* CreateGmudDto and UpdateGmudDto: at least two approvers.
ApproverSets == {A \in SUBSET Users : Cardinality(A) >= 2}

FreshRows(A) == [u \in Users |-> IF u \in A THEN "PENDING" ELSE "NONE"]

RowExists(u, k) == k = round /\ approver[u] # "NONE"

\* Some row exists and every row says APPROVED.
Unanimous(rows) ==
    /\ \E u \in Users : rows[u] # "NONE"
    /\ \A u \in Users : rows[u] \in {"NONE", "APPROVED"}

\* Mutants: one approval is enough; a rejection counts as a decision like
\* any other.
VerdictOf_OneIsEnough(rows) ==
    IF \E u \in Users : rows[u] = "REJECTED" THEN "anyRejected"
    ELSE IF \E u \in Users : rows[u] = "APPROVED" THEN "allApproved" ELSE "open"

VerdictOf_IgnoresRejection(rows) ==
    IF \A u \in Users : rows[u] # "PENDING" THEN "allApproved" ELSE "open"

\* What a handler that reads all the rows concludes.  A rejection is looked
\* at first; an empty list approves nothing.
VerdictOf(rows) ==
    IF \E u \in Users : rows[u] = "REJECTED" THEN "anyRejected"
    ELSE IF /\ \E u \in Users : rows[u] # "NONE"
            /\ \A u \in Users : rows[u] # "NONE" => rows[u] = "APPROVED"
         THEN "allApproved"
         ELSE "open"

CanEdit(s) == s \in {"DRAFT", "PENDING_APPROVAL", "APPROVED"}

RequiresReapproval(s) == s = "APPROVED"

-----------------------------------------------------------------------------
Init ==
    /\ status = "ABSENT"
    /\ approver = [u \in Users |-> "NONE"]
    /\ round = 0
    /\ behalf = {}
    /\ evidence = {}
    /\ req = [r \in Requests |-> Idle]
    /\ edits = 0
    /\ unanimous = {}
    /\ failures = 0

\* POST /gmud: one insert with its nested rows.
Create(A, submit) ==
    /\ status = "ABSENT"
    /\ status' = IF submit THEN "PENDING_APPROVAL" ELSE "DRAFT"
    /\ approver' = FreshRows(A)
    /\ UNCHANGED <<round, behalf, evidence, req, edits, unanimous, failures>>

At(r, label) == req[r].pc = label

Finish(r) == req' = [req EXCEPT ![r] = Idle]

Goto(r, label) == req' = [req EXCEPT ![r].pc = label]

-----------------------------------------------------------------------------
\* approve and approveOnBehalf

\* approve, approveOnBehalf: getById and the check of the status.
BeginDecision(r, u, d, onBehalf) ==
    /\ (IF onBehalf THEN "onBehalf" ELSE "approve") \in Operations
    /\ At(r, "idle")
    /\ status = "PENDING_APPROVAL"
    /\ req' = [req EXCEPT ![r] = [Idle EXCEPT !.pc = "findApprover", !.user = u,
                                              !.decision = d, !.onBehalf = onBehalf]]
    /\ UNCHANGED <<gmud, behalf, evidence, edits, unanimous, failures>>

\* Mutant: the decision is written before the evidence is stored.
FindApprover_NoEvidence(r) ==
    /\ At(r, "findApprover")
    /\ IF approver[req[r].user] = "PENDING"
       THEN req' = [req EXCEPT ![r].pc = "decide", ![r].round = round]
       ELSE Finish(r)
    /\ UNCHANGED <<gmud, behalf, evidence, edits, unanimous, failures>>

\* The row is read; a missing or decided row ends the request with an error.
FindApprover(r) ==
    /\ At(r, "findApprover")
    /\ IF approver[req[r].user] = "PENDING"
       THEN req' = [req EXCEPT
                ![r].pc = IF req[r].onBehalf THEN "storeEvidence" ELSE "decide",
                ![r].round = round]
       ELSE Finish(r)
    /\ UNCHANGED <<gmud, behalf, evidence, edits, unanimous, failures>>

\* approveOnBehalf: file and gmudAttachment rows, before the decision.
StoreEvidence(r) ==
    /\ At(r, "storeEvidence")
    /\ evidence' = evidence \cup {<<req[r].user, req[r].round>>}
    /\ Goto(r, "decide")
    /\ UNCHANGED <<gmud, behalf, edits, unanimous, failures>>

\* Mutant: the write does not repeat the check.
WriteMatches_ById(r) == RowExists(req[r].user, req[r].round)

\* Whether the write of the decision finds its row.  approve repeats the
\* check in the write (where status = PENDING); approveOnBehalf names the
\* row by id only.
WriteMatches(r) ==
    /\ RowExists(req[r].user, req[r].round)
    /\ ~ req[r].onBehalf => approver[req[r].user] = "PENDING"

\* Mutant: the outcome is computed from the rows read before the write.
Decide_TalliesBefore(r) ==
    /\ At(r, "decide")
    /\ WriteMatches(r)
    /\ approver' = [approver EXCEPT ![req[r].user] = req[r].decision]
    /\ req' = [req EXCEPT ![r] = [Idle EXCEPT !.pc = "outcome",
                                              !.verdict = VerdictOf(approver)]]
    /\ UNCHANGED <<status, round, behalf, evidence, edits, unanimous, failures>>

\* The decision is written; a write that matches no row ends the request.
Decide(r) ==
    /\ At(r, "decide")
    /\ WriteMatches(r)
    /\ approver' = [approver EXCEPT ![req[r].user] = req[r].decision]
    /\ behalf' = IF req[r].onBehalf
                 THEN behalf \cup {<<req[r].user, req[r].round>>}
                 ELSE behalf
    /\ unanimous' = IF Unanimous(approver')
                    THEN unanimous \cup {round}
                    ELSE unanimous
    /\ req' = [req EXCEPT ![r] = [Idle EXCEPT !.pc = "tally"]]
    /\ UNCHANGED <<status, round, evidence, edits, failures>>

DecideTooLate(r) ==
    /\ At(r, "decide")
    /\ ~ WriteMatches(r)
    /\ Finish(r)
    /\ UNCHANGED <<gmud, behalf, evidence, edits, unanimous, failures>>

\* All rows are read again.
Tally(r) ==
    /\ At(r, "tally")
    /\ req' = [req EXCEPT ![r].pc = "outcome", ![r].verdict = VerdictOf(approver)]
    /\ UNCHANGED <<gmud, behalf, evidence, edits, unanimous, failures>>

\* Mutant: the verdict itself is written.
OutcomeStatus_Verdict(s, verdict) == IF verdict = "open" THEN s ELSE verdict

\* The conditional write of the outcome: a rejection also undoes an approval.
OutcomeStatus(s, verdict) ==
    IF verdict = "anyRejected" /\ s \in {"PENDING_APPROVAL", "APPROVED"}
    THEN "REJECTED"
    ELSE IF verdict = "allApproved" /\ s = "PENDING_APPROVAL"
         THEN "APPROVED"
         ELSE s

ApplyApprovalOutcome(r) ==
    /\ At(r, "outcome")
    /\ status' = OutcomeStatus(status, req[r].verdict)
    /\ Finish(r)
    /\ UNCHANGED <<approver, round, behalf, evidence, edits, unanimous, failures>>

-----------------------------------------------------------------------------
\* update

EditsInFlight == {q \in Requests : At(q, "editWrite")}

\* getById, the checks, and what the write will contain: `A' is
\* dto.approvers (or {} when the body has none).
BeginEdit(r, A, submit) ==
    /\ "edit" \in Operations
    /\ At(r, "idle")
    /\ edits + Cardinality(EditsInFlight) < MaxEdits
    /\ CanEdit(status)
    /\ LET reapproval == RequiresReapproval(status)
       IN  req' = [req EXCEPT ![r] = [Idle EXCEPT
               !.pc = "editWrite",
               !.resets = A # {} \/ reapproval,
               !.approvers = IF A # {} THEN A
                             ELSE IF reapproval THEN Approvers ELSE {},
               !.submits = \/ reapproval
                           \/ submit /\ status = "DRAFT" /\ AllRowsPending]]
    /\ UNCHANGED <<gmud, behalf, evidence, edits, unanimous, failures>>

\* prisma.gmud.update with its nested writes: one transaction, no condition.
EditWrite(r) ==
    /\ At(r, "editWrite")
    /\ status' = IF req[r].submits THEN "PENDING_APPROVAL" ELSE status
    /\ approver' = IF req[r].resets THEN FreshRows(req[r].approvers) ELSE approver
    /\ round' = IF req[r].resets THEN round + 1 ELSE round
    /\ edits' = edits + 1
    /\ Finish(r)
    /\ UNCHANGED <<behalf, evidence, unanimous, failures>>

-----------------------------------------------------------------------------
\* startExecution, completeExecution, cancel: a read with a check of the
\* status, then a write that does not repeat the check.

BeginTransition(r, op, from, label) ==
    /\ op \in Operations
    /\ At(r, "idle")
    /\ status \in from
    /\ Goto(r, label)
    /\ UNCHANGED <<gmud, behalf, evidence, edits, unanimous, failures>>

WriteTransition(r, label, to) ==
    /\ At(r, label)
    /\ status' = to
    /\ Finish(r)
    /\ UNCHANGED <<approver, round, behalf, evidence, edits, unanimous, failures>>

BeginStart(r) == BeginTransition(r, "start", {"APPROVED"}, "startWrite")

StartWrite(r) == WriteTransition(r, "startWrite", "IN_EXECUTION")

BeginComplete(r) ==
    BeginTransition(r, "complete", {"IN_EXECUTION"}, "completeWrite")

CompleteWrite(r) == WriteTransition(r, "completeWrite", "EXECUTED")

BeginCancel(r) ==
    BeginTransition(r, "cancel",
                    Statuses \ {"ABSENT", "EXECUTED", "CANCELED"}, "cancelWrite")

CancelWrite(r) == WriteTransition(r, "cancelWrite", "CANCELED")

-----------------------------------------------------------------------------
\* The process restarts or a query fails: the request dies where it is and
\* what it wrote stays.
Fail(r) ==
    /\ ~ At(r, "idle")
    /\ failures < MaxFailures
    /\ failures' = failures + 1
    /\ Finish(r)
    /\ UNCHANGED <<gmud, behalf, evidence, edits, unanimous>>

Begin(r) ==
    \/ \E u \in Users, d \in Decisions, b \in BOOLEAN : BeginDecision(r, u, d, b)
    \/ \E A \in ApproverSets \cup {{}}, submit \in BOOLEAN : BeginEdit(r, A, submit)
    \/ BeginStart(r)
    \/ BeginComplete(r)
    \/ BeginCancel(r)

\* The next database round trip of a request in flight.
Continue(r) ==
    \/ FindApprover(r)
    \/ StoreEvidence(r)
    \/ Decide(r)
    \/ DecideTooLate(r)
    \/ Tally(r)
    \/ ApplyApprovalOutcome(r)
    \/ EditWrite(r)
    \/ StartWrite(r)
    \/ CompleteWrite(r)
    \/ CancelWrite(r)

Next ==
    \/ \E A \in ApproverSets, submit \in BOOLEAN : Create(A, submit)
    \/ \E r \in Requests : Begin(r) \/ Continue(r) \/ Fail(r)

Spec == Init /\ [][Next]_vars

\* A request in flight is eventually answered by the database.
FairSpec == Spec /\ \A r \in Requests : WF_vars(Continue(r))

-----------------------------------------------------------------------------
\* Properties

\* Nothing is approved, in execution or executed unless all the approvers of
\* some round had approved it at the same time (approve, startExecution and
\* completeExecution check a status they may no longer have).
ExecutionRequiresUnanimity ==
    status \in {"APPROVED", "IN_EXECUTION", "EXECUTED"} => unanimous # {}

\* A decision recorded in somebody's name has its evidence stored, whatever
\* request died (approveOnBehalf stores the file before the decision).
BehalfHasEvidence == behalf \subseteq evidence

\* A recorded decision changes only with the whole round of rows or when an
\* administrator decides in the approver's name: two clicks never register
\* two decisions (approve, 'Sua decisao ja foi registrada').
DecisionsAreFinal ==
    [][\A u \in Users :
          /\ approver[u] \in Decisions
          /\ round' = round
          /\ approver'[u] # approver[u]
          => <<u, round>> \in behalf']_vars

\* No edit was written, and no decision in another's name.
OnlyVotes == edits = 0 /\ behalf = {}

\* A rejection by one approver is never hidden behind an approval: however the
\* approvers' own decisions, their tallies and the transitions interleave, the
\* GMUD is not approved, in execution or executed while a row says REJECTED
\* (approve re-reads every row after its write, and the write of the outcome
\* repeats the check of the status).
NoHiddenRejection ==
    OnlyVotes /\ status \in {"APPROVED", "IN_EXECUTION", "EXECUTED"} =>
        \A u \in Users : approver[u] # "REJECTED"

\* The decisions take effect: with no edit written and no request dead, when no
\* decision is on its way from its row to its outcome, a rejection has left
\* neither PENDING_APPROVAL nor APPROVED behind, and a GMUD that is still
\* pending waits for somebody (the tally comes after the write, so the last of
\* several concurrent decisions sees all of them).
DecisionsTakeEffect ==
    /\ edits = 0
    /\ failures = 0
    /\ \A r \in Requests : req[r].pc \notin {"tally", "outcome"}
    => /\ (\E u \in Users : approver[u] = "REJECTED")
             => status \notin {"PENDING_APPROVAL", "APPROVED"}
       /\ status = "PENDING_APPROVAL" =>
             \E u \in Users : approver[u] = "PENDING"

\* Every vote counts, once the requests that cast it are answered.
VotesCount == NoHiddenRejection /\ DecisionsTakeEffect

\* gmud.service.ts:558-562 says a rejection is never hidden behind an
\* approval that arrives later: once a row of a round says REJECTED, the GMUD
\* is never APPROVED in that round.
RejectionNeverHidden ==
    \A k \in 0..MaxEdits :
        [](round = k /\ (\E u \in Users : approver[u] = "REJECTED")
           => [](round = k => status # "APPROVED"))

=============================================================================
