----------------------------- MODULE GmudProofs -----------------------------
(* Proofs about the GMUD workflow, for any set of users and of requests and  *)
(* for any bounds.                                                           *)
EXTENDS Gmud, FiniteSetTheorems, TLAPS

\* A request that may write APPROVED, IN_EXECUTION or EXECUTED has seen a
\* unanimous round, and so has a set of rows that is unanimous now.
UnanimityIInv ==
    /\ TypeOK
    /\ ExecutionRequiresUnanimity
    /\ Unanimous(approver) => unanimous # {}
    /\ \A r \in Requests :
          \/ req[r].verdict = "allApproved"
          \/ req[r].pc \in {"startWrite", "completeWrite"}
          => unanimous # {}

\* A request about to decide in somebody's name has stored its evidence.
EvidenceIInv ==
    /\ TypeOK
    /\ BehalfHasEvidence
    /\ \A r \in Requests :
          req[r].pc = "decide" /\ req[r].onBehalf
          => <<req[r].user, req[r].round>> \in evidence

-----------------------------------------------------------------------------
\* Rows just created are never unanimous: nobody has decided yet (update).
LEMMA FreshRowsNotUnanimous ==
    ASSUME NEW A PROVE ~ Unanimous(FreshRows(A))
  BY DEF Unanimous, FreshRows

\* An empty slot is a request.
LEMMA IdleType == Idle \in Request
  BY DEF Idle, Request, PCs, Decisions, Verdicts

\* Rows just created have the type of rows.
LEMMA FreshRowsType ==
    ASSUME NEW A PROVE FreshRows(A) \in [Users -> RowStatuses]
  BY DEF FreshRows, RowStatuses, Decisions

\* The tally concludes allApproved only from unanimous rows (approve).
LEMMA VerdictIsSound ==
    ASSUME NEW rows \in [Users -> RowStatuses]
    PROVE  /\ VerdictOf(rows) \in Verdicts
           /\ VerdictOf(rows) = "allApproved" => Unanimous(rows)
  BY DEF VerdictOf, Unanimous, RowStatuses, Decisions, Verdicts

-----------------------------------------------------------------------------
\* The initial state is well typed.
LEMMA TypeInit == Init => TypeOK
  BY IdleType DEF Init, TypeOK, Statuses, RowStatuses, Idle

\* Every step keeps the types.
LEMMA TypeNext == TypeOK /\ [Next]_vars => TypeOK'
<1> SUFFICES ASSUME TypeOK, [Next]_vars PROVE TypeOK'
  OBVIOUS
<1> USE DEF TypeOK
<1>1. ASSUME NEW A \in ApproverSets, NEW submit \in BOOLEAN, Create(A, submit)
      PROVE  TypeOK'
  BY <1>1, FreshRowsType DEF Create, Statuses
<1>2. ASSUME NEW r \in Requests, Begin(r) PROVE TypeOK'
  <2>1. ASSUME NEW u \in Users, NEW d \in Decisions, NEW b \in BOOLEAN,
               BeginDecision(r, u, d, b)
        PROVE  TypeOK'
    <3> DEFINE x == [Idle EXCEPT !.pc = "findApprover", !.user = u,
                                 !.decision = d, !.onBehalf = b]
    <3>1. x \in Request /\ x.user \in Users
      BY DEF Request, PCs, Idle, Verdicts
    <3>2. req' = [req EXCEPT ![r] = x]
      BY <2>1 DEF BeginDecision
    <3> HIDE DEF x
    <3> QED
      BY <2>1, <3>1, <3>2 DEF BeginDecision, gmud
  <2>2. ASSUME NEW A \in ApproverSets \cup {{}}, NEW submit \in BOOLEAN,
               BeginEdit(r, A, submit)
        PROVE  TypeOK'
    <3> DEFINE reapproval == RequiresReapproval(status)
    <3> DEFINE x == [Idle EXCEPT
               !.pc = "editWrite",
               !.resets = A # {} \/ reapproval,
               !.approvers = IF A # {} THEN A
                             ELSE IF reapproval THEN Approvers ELSE {},
               !.submits = \/ reapproval
                           \/ submit /\ status = "DRAFT" /\ AllRowsPending]
    <3>1. A \subseteq Users /\ Approvers \subseteq Users
      BY DEF ApproverSets, Approvers
    <3>2. x \in Request /\ x.pc = "editWrite"
      BY <3>1 DEF Idle, Request, PCs, Decisions, Verdicts
    <3>3. req' = [req EXCEPT ![r] = x]
      BY <2>2 DEF BeginEdit
    <3> HIDE DEF x
    <3> QED
      BY <2>2, <3>2, <3>3 DEF BeginEdit, gmud
  <2>3. ASSUME BeginStart(r) \/ BeginComplete(r) \/ BeginCancel(r) PROVE TypeOK'
    <3>1. \E label \in {"startWrite", "completeWrite", "cancelWrite"} : Goto(r, label)
      BY <2>3
      DEF BeginStart, BeginComplete, BeginCancel, BeginTransition
    <3> QED
      BY <2>3, <3>1
      DEF BeginStart, BeginComplete, BeginCancel, BeginTransition, Goto, gmud,
        Request, PCs
  <2> QED
    BY <1>2, <2>1, <2>2, <2>3 DEF Begin
<1>3. ASSUME NEW r \in Requests, Continue(r) PROVE TypeOK'
  <2>1. CASE FindApprover(r)
    <3> DEFINE x == [req[r] EXCEPT
                !.pc = IF req[r].onBehalf THEN "storeEvidence" ELSE "decide",
                !.round = round]
    <3>1. x \in Request /\ x.user = req[r].user
      BY DEF Request, PCs
    <3>2. req[r].user \in Users
      BY <2>1 DEF FindApprover, At
    <3>3. req' = [req EXCEPT ![r] = x] \/ req' = [req EXCEPT ![r] = Idle]
      BY <2>1 DEF FindApprover, Finish
    <3>4. UNCHANGED <<gmud, behalf, evidence, edits, unanimous, failures>>
      BY <2>1 DEF FindApprover
    <3> HIDE DEF x
    <3>5. CASE req' = [req EXCEPT ![r] = x]
      BY <3>1, <3>2, <3>4, <3>5 DEF gmud
    <3>6. CASE req' = [req EXCEPT ![r] = Idle]
      BY <3>4, <3>6, IdleType DEF gmud, Idle
    <3> QED
      BY <3>3, <3>5, <3>6
  <2>2. CASE StoreEvidence(r)
    <3>1. <<req[r].user, req[r].round>> \in Rows
      BY <2>2 DEF StoreEvidence, At, Rows, Request
    <3> QED
      BY <2>2, <3>1 DEF StoreEvidence, At, Goto, gmud, Request, PCs
  <2>3. CASE Decide(r)
    <3> DEFINE x == [Idle EXCEPT !.pc = "tally"]
    <3>1. x \in Request /\ x.pc = "tally"
      BY IdleType DEF Request, PCs
    <3>2. req' = [req EXCEPT ![r] = x]
      BY <2>3 DEF Decide
    <3>3. /\ <<req[r].user, req[r].round>> \in Rows
          /\ req[r].decision \in RowStatuses
      BY <2>3 DEF Decide, At, Rows, Request, RowStatuses
    <3> HIDE DEF x
    <3> QED
      BY <2>3, <3>1, <3>2, <3>3 DEF Decide
  <2>4. CASE Tally(r)
    <3> DEFINE x == [req[r] EXCEPT !.pc = "outcome", !.verdict = VerdictOf(approver)]
    <3>1. VerdictOf(approver) \in Verdicts
      BY VerdictIsSound
    <3>2. x \in Request /\ x.pc = "outcome"
      BY <3>1 DEF Request, PCs
    <3>3. req' = [req EXCEPT ![r] = x]
      BY <2>4 DEF Tally
    <3> HIDE DEF x
    <3> QED
      BY <2>4, <3>2, <3>3 DEF Tally, gmud
  <2>5. CASE ApplyApprovalOutcome(r)
    <3>1. OutcomeStatus(status, req[r].verdict) \in Statuses
      BY DEF OutcomeStatus, Statuses
    <3> QED
      BY <2>5, <3>1, IdleType DEF ApplyApprovalOutcome, Finish, Idle
  <2>6. CASE EditWrite(r)
    BY <2>6, IdleType, FreshRowsType DEF EditWrite, Finish, Idle, Statuses
  <2>7. CASE StartWrite(r) \/ CompleteWrite(r) \/ CancelWrite(r)
    <3>1. /\ status' \in Statuses
          /\ req' = [req EXCEPT ![r] = Idle]
          /\ UNCHANGED <<approver, round, behalf, evidence, edits, unanimous, failures>>
      BY <2>7
      DEF StartWrite, CompleteWrite, CancelWrite, WriteTransition, Finish, Statuses
    <3> QED
      BY <3>1, IdleType DEF Idle
  <2>8. CASE DecideTooLate(r)
    BY <2>8, IdleType DEF DecideTooLate, Finish, Idle, gmud
  <2> QED
    BY <1>3, <2>1, <2>2, <2>3, <2>4, <2>5, <2>6, <2>7, <2>8 DEF Continue
<1>4. ASSUME NEW r \in Requests, Fail(r) PROVE TypeOK'
  BY <1>4, IdleType DEF Fail, Finish, Idle, gmud
<1>5. CASE UNCHANGED vars
  BY <1>5 DEF vars
<1> QED
  BY <1>1, <1>2, <1>3, <1>4, <1>5 DEF Next

\* Every variable keeps its type (all handlers of gmud.service.ts).
THEOREM TypeCorrect == Spec => []TypeOK
<1>1. Init => TypeOK
  BY TypeInit
<1>2. TypeOK /\ [Next]_vars => TypeOK'
  BY TypeNext
<1> QED
  BY <1>1, <1>2, PTL DEF Spec

-----------------------------------------------------------------------------
\* The unanimity invariant holds of a GMUD that does not exist yet.
LEMMA UnanimityInit == Init => UnanimityIInv
<1> SUFFICES ASSUME Init PROVE UnanimityIInv
  OBVIOUS
<1>1. ExecutionRequiresUnanimity
  BY DEF Init, ExecutionRequiresUnanimity
<1>2. ~ Unanimous(approver)
  BY DEF Init, Unanimous
<1> QED
  BY TypeInit, <1>1, <1>2 DEF UnanimityIInv, Init, Idle

\* Every step keeps it: the verdict allApproved needs a unanimous tally, and
\* the transitions need a status that only such a verdict gives.
LEMMA UnanimityNext == UnanimityIInv /\ [Next]_vars => UnanimityIInv'
<1> SUFFICES ASSUME UnanimityIInv, [Next]_vars PROVE UnanimityIInv'
  OBVIOUS
<1>0. TypeOK /\ TypeOK'
  BY TypeNext DEF UnanimityIInv
<1> USE DEF UnanimityIInv, ExecutionRequiresUnanimity
<1>1. ASSUME NEW A \in ApproverSets, NEW submit \in BOOLEAN, Create(A, submit)
      PROVE  UnanimityIInv'
  BY <1>0, <1>1, FreshRowsNotUnanimous DEF Create, Unanimous
<1>2. ASSUME NEW r \in Requests, Begin(r) PROVE UnanimityIInv'
  <2>1. UNCHANGED <<status, approver, unanimous>>
    BY <1>2
    DEF Begin, BeginDecision, BeginEdit, BeginStart, BeginComplete, BeginCancel,
        BeginTransition, gmud
  <2>2. \A q \in Requests \ {r} : req'[q] = req[q]
    BY <1>0, <1>2
    DEF Begin, BeginDecision, BeginEdit, BeginStart, BeginComplete, BeginCancel,
        BeginTransition, Goto, TypeOK
  <2>3. CASE BeginStart(r) \/ BeginComplete(r)
    <3>1. status \in {"APPROVED", "IN_EXECUTION"}
      BY <2>3 DEF BeginStart, BeginComplete, BeginTransition
    <3> QED
      BY <1>0, <2>1, <3>1 DEF Unanimous
  <2>4. CASE BeginCancel(r)
    <3>1. /\ req'[r].pc = "cancelWrite"
          /\ req'[r].verdict = req[r].verdict
      BY <1>0, <2>4 DEF BeginCancel, BeginTransition, Goto, TypeOK, Request
    <3> QED
      BY <1>0, <2>1, <2>2, <3>1 DEF Unanimous
  <2>5. ASSUME NEW u \in Users, NEW d \in Decisions, NEW b \in BOOLEAN,
               BeginDecision(r, u, d, b)
        PROVE  UnanimityIInv'
    <3>1. req'[r].pc = "findApprover" /\ req'[r].verdict = "open"
      BY <1>0, <2>5 DEF BeginDecision, Idle, TypeOK
    <3> QED
      BY <1>0, <2>1, <2>2, <3>1 DEF Unanimous
  <2>6. ASSUME NEW A \in ApproverSets \cup {{}}, NEW submit \in BOOLEAN,
               BeginEdit(r, A, submit)
        PROVE  UnanimityIInv'
    <3>1. req'[r].pc = "editWrite" /\ req'[r].verdict = "open"
      BY <1>0, <2>6 DEF BeginEdit, Idle, TypeOK
    <3> QED
      BY <1>0, <2>1, <2>2, <3>1 DEF Unanimous
  <2> QED
    BY <1>2, <2>3, <2>4, <2>5, <2>6 DEF Begin
<1>3. ASSUME NEW r \in Requests, Continue(r) PROVE UnanimityIInv'
  <2>1. CASE FindApprover(r)
    <3>1. /\ req'[r].pc \notin {"startWrite", "completeWrite"}
          /\ req'[r].verdict \in {req[r].verdict, "open"}
      BY <1>0, <2>1 DEF FindApprover, Finish, Idle, TypeOK, Request
    <3> QED
      BY <1>0, <2>1, <3>1 DEF FindApprover, Finish, gmud, Unanimous, TypeOK
  <2>2. CASE StoreEvidence(r)
    <3>1. /\ req'[r].pc \notin {"startWrite", "completeWrite"}
          /\ req'[r].verdict = req[r].verdict
      BY <1>0, <2>2 DEF StoreEvidence, Goto, TypeOK, Request
    <3> QED
      BY <1>0, <2>2, <3>1 DEF StoreEvidence, Goto, gmud, Unanimous, TypeOK
  <2>3. CASE Decide(r)
    <3>1. req'[r].pc = "tally" /\ req'[r].verdict = "open"
      BY <1>0, <2>3 DEF Decide, Idle, TypeOK
    <3>2. \A q \in Requests \ {r} : req'[q] = req[q]
      BY <1>0, <2>3 DEF Decide, TypeOK
    <3>3. /\ unanimous # {} => unanimous' # {}
          /\ Unanimous(approver') => unanimous' # {}
          /\ status' = status
      BY <2>3 DEF Decide
    <3>4. Unanimous(approver)' => unanimous' # {}
      BY <3>3 DEF Unanimous
    <3> QED
      BY <1>0, <3>1, <3>2, <3>3, <3>4
  <2>4. CASE Tally(r)
    <3>1. /\ req'[r].pc = "outcome"
          /\ req'[r].verdict = VerdictOf(approver)
      BY <1>0, <2>4 DEF Tally, TypeOK, Request
    <3>2. \A q \in Requests \ {r} : req'[q] = req[q]
      BY <1>0, <2>4 DEF Tally, TypeOK
    <3>3. req'[r].verdict = "allApproved" => unanimous # {}
      BY <1>0, <3>1, VerdictIsSound DEF TypeOK
    <3>4. UNCHANGED <<status, approver, unanimous>>
      BY <2>4 DEF Tally, gmud
    <3> QED
      BY <1>0, <3>1, <3>2, <3>3, <3>4 DEF Unanimous
  <2>5. CASE ApplyApprovalOutcome(r)
    <3>1. status' \in {"APPROVED", "IN_EXECUTION", "EXECUTED"} => unanimous # {}
      BY <2>5 DEF ApplyApprovalOutcome, OutcomeStatus
    <3> QED
      BY <1>0, <2>5, <3>1
      DEF ApplyApprovalOutcome, Finish, Idle, Unanimous, TypeOK
  <2>6. CASE EditWrite(r)
    <3>1. Unanimous(approver)' => Unanimous(approver)
      BY <2>6, FreshRowsNotUnanimous DEF EditWrite, Unanimous
    <3>2. status' \in {status, "PENDING_APPROVAL"}
      BY <2>6 DEF EditWrite
    <3> QED
      BY <1>0, <2>6, <3>1, <3>2 DEF EditWrite, Finish, Idle, TypeOK
  <2>7. CASE StartWrite(r) \/ CompleteWrite(r) \/ CancelWrite(r)
    <3>1. status' \in {"APPROVED", "IN_EXECUTION", "EXECUTED"} => unanimous # {}
      BY <2>7 DEF StartWrite, CompleteWrite, CancelWrite, WriteTransition, At
    <3>2. /\ req' = [req EXCEPT ![r] = Idle]
          /\ UNCHANGED <<approver, unanimous>>
      BY <2>7 DEF StartWrite, CompleteWrite, CancelWrite, WriteTransition, Finish
    <3> QED
      BY <1>0, <3>1, <3>2 DEF Idle, Unanimous, TypeOK
  <2>8. CASE DecideTooLate(r)
    BY <1>0, <2>8 DEF DecideTooLate, Finish, Idle, gmud, Unanimous, TypeOK
  <2> QED
    BY <1>3, <2>1, <2>2, <2>3, <2>4, <2>5, <2>6, <2>7, <2>8 DEF Continue
<1>4. ASSUME NEW r \in Requests, Fail(r) PROVE UnanimityIInv'
  BY <1>0, <1>4 DEF Fail, Finish, Idle, gmud, Unanimous, TypeOK
<1>5. CASE UNCHANGED vars
  BY <1>0, <1>5 DEF vars, Unanimous
<1> QED
  BY <1>1, <1>2, <1>3, <1>4, <1>5 DEF Next

\* No GMUD is approved, in execution or executed unless the approvers of some
\* round had all approved it (approve, startExecution, completeExecution).
THEOREM UnanimityRequired == Spec => []ExecutionRequiresUnanimity
<1>1. UnanimityIInv => ExecutionRequiresUnanimity
  BY DEF UnanimityIInv
<1> QED
  BY UnanimityInit, UnanimityNext, <1>1, PTL DEF Spec

-----------------------------------------------------------------------------
\* The evidence invariant is inductive.
LEMMA EvidenceNext == EvidenceIInv /\ [Next]_vars => EvidenceIInv'
<1> SUFFICES ASSUME EvidenceIInv, [Next]_vars PROVE EvidenceIInv'
  OBVIOUS
<1>0. TypeOK /\ TypeOK'
  BY TypeNext DEF EvidenceIInv
<1> USE DEF EvidenceIInv, BehalfHasEvidence
<1>1. ASSUME NEW A \in ApproverSets, NEW submit \in BOOLEAN, Create(A, submit)
      PROVE  EvidenceIInv'
  BY <1>0, <1>1 DEF Create
<1>2. ASSUME NEW r \in Requests,
             UNCHANGED <<behalf, evidence>>,
             \A q \in Requests \ {r} : req'[q] = req[q],
             req'[r].pc # "decide" \/ ~ req'[r].onBehalf
      PROVE  EvidenceIInv'
  BY <1>0, <1>2
<1>3. ASSUME NEW r \in Requests, Begin(r) PROVE EvidenceIInv'
  <2>1. /\ UNCHANGED <<behalf, evidence>>
        /\ \A q \in Requests \ {r} : req'[q] = req[q]
    BY <1>0, <1>3
    DEF Begin, BeginDecision, BeginEdit, BeginStart, BeginComplete, BeginCancel,
        BeginTransition, Goto, TypeOK
  <2>2. req'[r].pc # "decide"
    <3>1. ASSUME NEW u \in Users, NEW d \in Decisions, NEW b \in BOOLEAN,
                 BeginDecision(r, u, d, b)
          PROVE  req'[r].pc = "findApprover"
      BY <1>0, <3>1 DEF BeginDecision, Idle, TypeOK
    <3>2. ASSUME NEW A \in ApproverSets \cup {{}}, NEW submit \in BOOLEAN,
                 BeginEdit(r, A, submit)
          PROVE  req'[r].pc = "editWrite"
      BY <1>0, <3>2 DEF BeginEdit, Idle, TypeOK
    <3>3. ASSUME BeginStart(r) \/ BeginComplete(r) \/ BeginCancel(r)
          PROVE  req'[r].pc \in {"startWrite", "completeWrite", "cancelWrite"}
      BY <1>0, <3>3
      DEF BeginStart, BeginComplete, BeginCancel, BeginTransition, Goto, TypeOK, Request
    <3> QED
      BY <1>3, <3>1, <3>2, <3>3 DEF Begin
  <2> QED
    BY <1>2, <2>1, <2>2
<1>4. ASSUME NEW r \in Requests, Continue(r) PROVE EvidenceIInv'
  <2>1. CASE FindApprover(r)
    <3>1. req'[r].pc # "decide" \/ ~ req'[r].onBehalf
      BY <1>0, <2>1 DEF FindApprover, Finish, Idle, TypeOK, Request
    <3>2. /\ UNCHANGED <<behalf, evidence>>
          /\ \A q \in Requests \ {r} : req'[q] = req[q]
      BY <1>0, <2>1 DEF FindApprover, Finish, TypeOK
    <3> QED
      BY <1>2, <3>1, <3>2
  <2>2. CASE StoreEvidence(r)
    <3>1. /\ req'[r].user = req[r].user
          /\ req'[r].round = req[r].round
      BY <1>0, <2>2 DEF StoreEvidence, Goto, TypeOK, Request
    <3> QED
      BY <1>0, <2>2, <3>1 DEF StoreEvidence, Goto, TypeOK
  <2>3. CASE Decide(r)
    <3>1. req'[r].pc = "tally"
      BY <1>0, <2>3 DEF Decide, Idle, TypeOK
    <3>2. /\ behalf' \subseteq evidence
          /\ evidence' = evidence
      BY <1>0, <2>3 DEF Decide, At
    <3>3. \A q \in Requests \ {r} : req'[q] = req[q]
      BY <1>0, <2>3 DEF Decide, TypeOK
    <3> QED
      BY <1>0, <3>1, <3>2, <3>3
  <2>4. CASE Tally(r) \/ ApplyApprovalOutcome(r) \/ EditWrite(r)
             \/ StartWrite(r) \/ CompleteWrite(r) \/ CancelWrite(r)
             \/ DecideTooLate(r)
    <3>1. /\ UNCHANGED <<behalf, evidence>>
          /\ \A q \in Requests \ {r} : req'[q] = req[q]
          /\ req'[r].pc # "decide"
      BY <1>0, <2>4
      DEF Tally, ApplyApprovalOutcome, EditWrite, StartWrite, CompleteWrite,
          CancelWrite, WriteTransition, DecideTooLate, Finish, Idle, TypeOK, Request
    <3> QED
      BY <1>2, <3>1
  <2> QED
    BY <1>4, <2>1, <2>2, <2>3, <2>4 DEF Continue
<1>5. ASSUME NEW r \in Requests, Fail(r) PROVE EvidenceIInv'
  BY <1>0, <1>5 DEF Fail, Finish, Idle, TypeOK
<1>6. CASE UNCHANGED vars
  BY <1>0, <1>6 DEF vars
<1> QED
  BY <1>1, <1>3, <1>4, <1>5, <1>6 DEF Next

\* Every decision recorded in somebody's name has its evidence stored,
\* whatever request died (approveOnBehalf).
THEOREM EvidenceKept == Spec => []BehalfHasEvidence
<1>1. Init => EvidenceIInv
  BY TypeInit DEF EvidenceIInv, BehalfHasEvidence, Init, Idle
<1>2. EvidenceIInv => BehalfHasEvidence
  BY DEF EvidenceIInv
<1> QED
  BY <1>1, EvidenceNext, <1>2, PTL DEF Spec

-----------------------------------------------------------------------------
\* Until it is created the GMUD has no rows and no handler works on it.
AbsentIInv ==
    /\ TypeOK
    /\ status = "ABSENT" =>
          /\ \A u \in Users : approver[u] = "NONE"
          /\ \A r \in Requests : req[r].pc = "idle"

\* Every step keeps it: only Create leaves ABSENT, and every handler reads a
\* GMUD first.
LEMMA AbsentNext == AbsentIInv /\ [Next]_vars => AbsentIInv'
<1> SUFFICES ASSUME AbsentIInv, [Next]_vars PROVE AbsentIInv'
  OBVIOUS
<1>0. TypeOK /\ TypeOK'
  BY TypeNext DEF AbsentIInv
<1> USE DEF AbsentIInv
<1>1. ASSUME NEW A \in ApproverSets, NEW submit \in BOOLEAN, Create(A, submit)
      PROVE  status' # "ABSENT"
  BY <1>1 DEF Create
<1>2. ASSUME NEW r \in Requests, Begin(r) PROVE status' # "ABSENT"
  BY <1>2
  DEF Begin, BeginDecision, BeginEdit, BeginStart, BeginComplete, BeginCancel,
      BeginTransition, CanEdit, gmud
<1>3. ASSUME NEW r \in Requests, Continue(r) PROVE status' # "ABSENT"
  <2>1. status # "ABSENT"
    BY <1>3
    DEF Continue, FindApprover, StoreEvidence, Decide, DecideTooLate, Tally,
        ApplyApprovalOutcome, EditWrite, StartWrite, CompleteWrite, CancelWrite,
        WriteTransition, At
  <2> QED
    BY <1>3, <2>1
    DEF Continue, FindApprover, StoreEvidence, Decide, DecideTooLate, Tally,
        ApplyApprovalOutcome, OutcomeStatus, EditWrite, StartWrite, CompleteWrite,
        CancelWrite, WriteTransition, gmud
<1>4. ASSUME NEW r \in Requests, Fail(r) PROVE status' # "ABSENT"
  BY <1>4 DEF Fail, At, gmud
<1>5. CASE UNCHANGED vars
  BY <1>0, <1>5 DEF vars
<1> QED
  BY <1>0, <1>1, <1>2, <1>3, <1>4, <1>5 DEF Next

\* A decision the approver registered is changed in its round only by a
\* decision in his name (approve repeats its check in the write).
THEOREM DecisionsFinal == Spec => DecisionsAreFinal
<1> DEFINE Final == \A u \in Users :
                       /\ approver[u] \in Decisions
                       /\ round' = round
                       /\ approver'[u] # approver[u]
                       => <<u, round>> \in behalf'
<1>1. AbsentIInv /\ [Next]_vars => [Final]_vars
  <2> SUFFICES ASSUME AbsentIInv, Next PROVE Final
    BY DEF vars
  <2>1. ASSUME NEW A \in ApproverSets, NEW submit \in BOOLEAN, Create(A, submit)
        PROVE  Final
    BY <2>1 DEF Create, AbsentIInv, Decisions
  <2>2. ASSUME NEW r \in Requests, Decide(r) PROVE Final
    BY <2>2 DEF Decide, WriteMatches, RowExists, AbsentIInv, TypeOK, Decisions
  <2>3. ASSUME NEW r \in Requests, EditWrite(r) PROVE Final
    BY <2>3 DEF EditWrite, AbsentIInv, TypeOK
  <2>4. ASSUME NEW r \in Requests, Begin(r) PROVE approver' = approver
    BY <2>4
    DEF Begin, BeginDecision, BeginEdit, BeginStart, BeginComplete, BeginCancel,
        BeginTransition, gmud
  <2>5. ASSUME NEW r \in Requests, Continue(r), ~ Decide(r), ~ EditWrite(r)
        PROVE  approver' = approver
    BY <2>5
    DEF Continue, FindApprover, StoreEvidence, DecideTooLate, Tally,
        ApplyApprovalOutcome, StartWrite, CompleteWrite, CancelWrite,
        WriteTransition, gmud
  <2>6. ASSUME NEW r \in Requests, Fail(r) PROVE approver' = approver
    BY <2>6 DEF Fail, gmud
  <2> QED
    BY <2>1, <2>2, <2>3, <2>4, <2>5, <2>6 DEF Next
<1>2. Init => AbsentIInv
  BY TypeInit DEF Init, AbsentIInv, Idle
<1>3. Spec => []AbsentIInv
  BY <1>2, AbsentNext, PTL DEF Spec
<1> QED
  BY <1>1, <1>3, PTL DEF Spec, DecisionsAreFinal

-----------------------------------------------------------------------------
\* A request has read that somebody's row says REJECTED, or is about to read the rows.
RejectionUnderWay(r) ==
    \/ req[r].pc = "tally"
    \/ req[r].pc = "outcome" /\ req[r].verdict = "anyRejected"

\* A request has found the vote over, or is about to read the rows.
ClosingUnderWay(r) ==
    \/ req[r].pc = "tally"
    \/ req[r].pc = "outcome" /\ req[r].verdict # "open"

\* What makes the GMUD approved is unanimous still, as long as nobody but the
\* approvers decides: rows that all say APPROVED are not written again.
ApprovalStands ==
    OnlyVotes =>
        /\ status \in {"APPROVED", "IN_EXECUTION", "EXECUTED"} => Unanimous(approver)
        /\ \A r \in Requests :
              \/ req[r].pc = "outcome" /\ req[r].verdict = "allApproved"
              \/ req[r].pc \in {"startWrite", "completeWrite"}
              => Unanimous(approver)

\* As long as nobody edits and no request dies, a rejection that has not had its
\* effect, and a vote that is over and not closed, are in the hands of a request.
EffectsAreUnderWay ==
    edits = 0 /\ failures = 0 =>
        /\ status # "ABSENT" => \E u \in Users : approver[u] # "NONE"
        /\ /\ status \in {"PENDING_APPROVAL", "APPROVED"}
           /\ \E u \in Users : approver[u] = "REJECTED"
           => \E r \in Requests : RejectionUnderWay(r)
        /\ /\ status = "PENDING_APPROVAL"
           /\ \A u \in Users : approver[u] # "PENDING"
           => \E r \in Requests : ClosingUnderWay(r)

VotesIInv == AbsentIInv /\ ApprovalStands /\ EffectsAreUnderWay

\* The vote of a GMUD that does not exist is neither over nor refused.
LEMMA VotesInit == Init => VotesIInv
<1> SUFFICES ASSUME Init PROVE VotesIInv
  OBVIOUS
<1>1. AbsentIInv
  BY TypeInit DEF Init, AbsentIInv, Idle
<1>2. ApprovalStands
  BY DEF Init, ApprovalStands, Idle
<1>3. EffectsAreUnderWay
  BY DEF Init, EffectsAreUnderWay
<1> QED
  BY <1>1, <1>2, <1>3 DEF VotesIInv

\* A step that neither writes the GMUD nor brings a request to a tally or away
\* from one keeps the votes.
LEMMA VotesUntouched ==
    ASSUME TypeOK, TypeOK', ApprovalStands, EffectsAreUnderWay, NEW r \in Requests,
           UNCHANGED <<gmud, edits, behalf>>, failures' = 0 => failures = 0,
           \A q \in Requests \ {r} : req'[q] = req[q],
           req[r].pc \notin {"tally", "outcome"} \/ failures' # 0,
           req'[r].pc \in {"startWrite", "completeWrite"}
               => status \in {"APPROVED", "IN_EXECUTION"},
           req'[r].pc # "outcome"
    PROVE  ApprovalStands' /\ EffectsAreUnderWay'
<1>1. ApprovalStands'
  BY DEF ApprovalStands, OnlyVotes, Unanimous, gmud
<1>2. ASSUME edits' = 0, failures' = 0 PROVE edits = 0 /\ failures = 0
  BY <1>2
<1>3. ASSUME failures' = 0, NEW q \in Requests, RejectionUnderWay(q) PROVE RejectionUnderWay(q)'
  BY <1>3 DEF RejectionUnderWay
<1>4. ASSUME failures' = 0, NEW q \in Requests, ClosingUnderWay(q) PROVE ClosingUnderWay(q)'
  BY <1>4 DEF ClosingUnderWay
<1>5. EffectsAreUnderWay'
  BY <1>2, <1>3, <1>4 DEF EffectsAreUnderWay, gmud
<1> QED
  BY <1>1, <1>5

\* The tally finds a rejection if there is one, and the vote over if nobody's row waits.
LEMMA TallyIsSound ==
    ASSUME NEW rows \in [Users -> RowStatuses]
    PROVE  /\ (\E u \in Users : rows[u] = "REJECTED") => VerdictOf(rows) = "anyRejected"
           /\ /\ \E u \in Users : rows[u] # "NONE"
              /\ \A u \in Users : rows[u] # "PENDING"
              => VerdictOf(rows) # "open"
  BY DEF VerdictOf, RowStatuses, Decisions

\* The decision written under the approver's own name was waited for; only then
\* are the votes alone, and a unanimous vote has no row that waits.
LEMMA VotesDecide ==
    ASSUME TypeOK, TypeOK', ApprovalStands, EffectsAreUnderWay, AbsentIInv,
           NEW r \in Requests, Decide(r)
    PROVE  ApprovalStands' /\ EffectsAreUnderWay'
<1>1. /\ req'[r].pc = "tally"
      /\ \A q \in Requests \ {r} : req'[q] = req[q]
      /\ UNCHANGED <<status, edits, failures>>
  BY DEF Decide, TypeOK
<1>2. ApprovalStands'
  <2> SUFFICES ASSUME OnlyVotes' PROVE ApprovalStands'
    BY DEF ApprovalStands
  <2>1. OnlyVotes /\ ~req[r].onBehalf
    BY <1>1 DEF OnlyVotes, Decide
  <2>2. approver[req[r].user] = "PENDING" /\ req[r].user \in Users
    BY <2>1 DEF Decide, WriteMatches, TypeOK, At
  <2>3. ~Unanimous(approver)
    BY <2>2 DEF Unanimous
  <2> QED
    BY <1>1, <2>1, <2>3 DEF ApprovalStands
<1>3. RejectionUnderWay(r)' /\ ClosingUnderWay(r)'
  BY <1>1 DEF RejectionUnderWay, ClosingUnderWay
<1>4. \E u \in Users : approver'[u] # "NONE"
  BY DEF Decide, TypeOK, At, Request, Decisions
<1> QED
  BY <1>2, <1>3, <1>4 DEF EffectsAreUnderWay

\* What a tally concludes is so as it reads.
LEMMA VotesTally ==
    ASSUME TypeOK, TypeOK', ApprovalStands, EffectsAreUnderWay, AbsentIInv,
           NEW r \in Requests, Tally(r)
    PROVE  ApprovalStands' /\ EffectsAreUnderWay'
<1>1. /\ req'[r].pc = "outcome" /\ req'[r].verdict = VerdictOf(approver)
      /\ \A q \in Requests \ {r} : req'[q] = req[q]
      /\ UNCHANGED <<gmud, behalf, edits, failures>>
  BY DEF Tally, TypeOK, Request
<1>2. approver \in [Users -> RowStatuses]
  BY DEF TypeOK
<1>3. ApprovalStands'
  BY <1>1, <1>2, VerdictIsSound DEF ApprovalStands, OnlyVotes, gmud, Unanimous
<1>4. EffectsAreUnderWay'
  <2> SUFFICES ASSUME edits' = 0, failures' = 0 PROVE EffectsAreUnderWay'
    BY DEF EffectsAreUnderWay
  <2>1. status # "ABSENT" => \E u \in Users : approver[u] # "NONE"
    BY <1>1 DEF EffectsAreUnderWay
  <2>2. (\E u \in Users : approver[u] = "REJECTED") => RejectionUnderWay(r)'
    BY <1>1, <1>2, TallyIsSound DEF RejectionUnderWay
  <2>3. ASSUME status = "PENDING_APPROVAL", \A u \in Users : approver[u] # "PENDING"
        PROVE  ClosingUnderWay(r)'
    BY <1>1, <1>2, <2>1, <2>3, TallyIsSound DEF ClosingUnderWay
  <2> QED
    BY <1>1, <2>1, <2>2, <2>3 DEF EffectsAreUnderWay, gmud
<1> QED
  BY <1>3, <1>4

\* The outcome of a rejection ends what waits for it; no other verdict hides one.
LEMMA VotesOutcome ==
    ASSUME TypeOK, TypeOK', ApprovalStands, EffectsAreUnderWay,
           NEW r \in Requests, ApplyApprovalOutcome(r)
    PROVE  ApprovalStands' /\ EffectsAreUnderWay'
<1>1. /\ req[r].pc = "outcome" /\ req'[r].pc = "idle"
      /\ \A q \in Requests \ {r} : req'[q] = req[q]
      /\ UNCHANGED <<approver, behalf, edits, failures>>
      /\ status' = OutcomeStatus(status, req[r].verdict)
  BY DEF ApplyApprovalOutcome, At, Finish, Idle, TypeOK
<1>2. status' = "APPROVED" => status = "APPROVED" \/ req[r].verdict = "allApproved"
  BY <1>1 DEF OutcomeStatus
<1>3. status' \in {"IN_EXECUTION", "EXECUTED", "PENDING_APPROVAL"} => status' = status
  BY <1>1 DEF OutcomeStatus
<1>4. ApprovalStands'
  BY <1>1, <1>2, <1>3 DEF ApprovalStands, OnlyVotes, Unanimous
<1>5. EffectsAreUnderWay'
  <2> SUFFICES ASSUME edits' = 0, failures' = 0 PROVE EffectsAreUnderWay'
    BY DEF EffectsAreUnderWay
  <2>1. (status' # "ABSENT") = (status # "ABSENT")
    BY <1>1 DEF OutcomeStatus
  <2>2. ASSUME status' \in {"PENDING_APPROVAL", "APPROVED"},
               NEW u \in Users, approver[u] = "REJECTED"
        PROVE  \E q \in Requests : RejectionUnderWay(q)'
    <3>1. status \in {"PENDING_APPROVAL", "APPROVED"} /\ req[r].verdict # "anyRejected"
      BY <1>1, <2>2 DEF OutcomeStatus
    <3>2. PICK q \in Requests : RejectionUnderWay(q)
      BY <1>1, <2>2, <3>1 DEF EffectsAreUnderWay
    <3>3. q # r
      BY <1>1, <3>1, <3>2 DEF RejectionUnderWay
    <3> QED
      BY <1>1, <3>2, <3>3 DEF RejectionUnderWay
  <2>3. ASSUME status' = "PENDING_APPROVAL", \A u \in Users : approver[u] # "PENDING"
        PROVE  \E q \in Requests : ClosingUnderWay(q)'
    <3>1. status = "PENDING_APPROVAL" /\ req[r].verdict = "open"
      BY <1>1, <2>3 DEF OutcomeStatus, TypeOK, Request, Verdicts
    <3>2. PICK q \in Requests : ClosingUnderWay(q)
      BY <1>1, <2>3, <3>1 DEF EffectsAreUnderWay
    <3>3. q # r
      BY <1>1, <3>1, <3>2 DEF ClosingUnderWay
    <3> QED
      BY <1>1, <3>2, <3>3 DEF ClosingUnderWay
  <2> QED
    BY <1>1, <2>1, <2>2, <2>3 DEF EffectsAreUnderWay
<1> QED
  BY <1>4, <1>5

\* A transition takes the GMUD out of the vote, and to an execution only when it was approved.
LEMMA VotesTransition ==
    ASSUME TypeOK, TypeOK', AbsentIInv, ApprovalStands, EffectsAreUnderWay,
           NEW r \in Requests, StartWrite(r) \/ CompleteWrite(r) \/ CancelWrite(r)
    PROVE  ApprovalStands' /\ EffectsAreUnderWay'
<1>1. /\ req[r].pc \in {"startWrite", "completeWrite", "cancelWrite"} /\ req'[r].pc = "idle"
      /\ req[r].pc = "cancelWrite" => status' = "CANCELED"
      /\ status' \in {"IN_EXECUTION", "EXECUTED", "CANCELED"}
      /\ \A q \in Requests \ {r} : req'[q] = req[q]
      /\ UNCHANGED <<approver, behalf, edits, failures>>
  BY DEF StartWrite, CompleteWrite, CancelWrite, WriteTransition, At, Finish, Idle, TypeOK
<1>2. ApprovalStands'
  BY <1>1 DEF ApprovalStands, OnlyVotes, Unanimous
<1>3. status # "ABSENT"
  BY <1>1 DEF AbsentIInv
<1>4. EffectsAreUnderWay'
  BY <1>1, <1>3 DEF EffectsAreUnderWay
<1> QED
  BY <1>2, <1>4

\* Every step keeps the votes.
LEMMA VotesNext == VotesIInv /\ [Next]_vars => VotesIInv'
<1> SUFFICES ASSUME VotesIInv, [Next]_vars PROVE VotesIInv'
  OBVIOUS
<1>0. /\ TypeOK /\ TypeOK' /\ AbsentIInv /\ AbsentIInv'
      /\ ApprovalStands /\ EffectsAreUnderWay
  BY TypeNext, AbsentNext DEF VotesIInv, AbsentIInv
<1>1. ASSUME NEW A \in ApproverSets, NEW submit \in BOOLEAN, Create(A, submit)
      PROVE  ApprovalStands' /\ EffectsAreUnderWay'
  <2>1. \A r \in Requests : req[r].pc = "idle"
    BY <1>0, <1>1 DEF Create, AbsentIInv
  <2>2. \E u \in Users : u \in A
    <3>1. A # {}
      <4>1. SUFFICES ASSUME A = {} PROVE FALSE
        OBVIOUS
      <4>2. Cardinality({}) >= 2
        BY <4>1 DEF ApproverSets
      <4> QED
        BY <4>2, FS_EmptySet
    <3> QED
      BY <3>1 DEF ApproverSets
  <2>3. /\ approver' = FreshRows(A) /\ status' \in {"DRAFT", "PENDING_APPROVAL"}
        /\ req' = req
    BY <1>1 DEF Create
  <2>4. /\ \E u \in Users : approver'[u] = "PENDING"
        /\ \A u \in Users : approver'[u] # "REJECTED"
    BY <2>2, <2>3 DEF FreshRows
  <2> QED
    BY <2>1, <2>3, <2>4 DEF ApprovalStands, EffectsAreUnderWay
<1>2. ASSUME NEW r \in Requests, Begin(r) PROVE ApprovalStands' /\ EffectsAreUnderWay'
  <2>1. /\ UNCHANGED <<gmud, edits, behalf, failures>> /\ req[r].pc = "idle"
        /\ \A q \in Requests \ {r} : req'[q] = req[q]
    <3>1. UNCHANGED <<gmud, edits, behalf, failures>> /\ req[r].pc = "idle"
      BY <1>2
      DEF Begin, BeginDecision, BeginEdit, BeginStart, BeginComplete, BeginCancel,
          BeginTransition, At
    <3>2. \A q \in Requests \ {r} : req'[q] = req[q]
      BY <1>0, <1>2
      DEF Begin, BeginDecision, BeginEdit, BeginStart, BeginComplete, BeginCancel,
          BeginTransition, Goto, TypeOK
    <3> QED
      BY <3>1, <3>2
  <2>2. ASSUME BeginStart(r) \/ BeginComplete(r) \/ BeginCancel(r)
        PROVE  /\ req'[r].pc \in {"startWrite", "completeWrite"}
                     => status \in {"APPROVED", "IN_EXECUTION"}
               /\ req'[r].pc # "outcome"
    <3>1. CASE BeginStart(r)
      BY <1>0, <3>1 DEF BeginStart, BeginTransition, Goto, TypeOK, Request
    <3>2. CASE BeginComplete(r)
      BY <1>0, <3>2 DEF BeginComplete, BeginTransition, Goto, TypeOK, Request
    <3>3. CASE BeginCancel(r)
      BY <1>0, <3>3 DEF BeginCancel, BeginTransition, Goto, TypeOK, Request
    <3> QED
      BY <2>2, <3>1, <3>2, <3>3
  <2>3. ASSUME NEW u \in Users, NEW d \in Decisions, NEW b \in BOOLEAN,
               BeginDecision(r, u, d, b)
        PROVE  req'[r].pc = "findApprover"
    BY <1>0, <2>3 DEF BeginDecision, Idle, TypeOK
  <2>4. ASSUME NEW A \in ApproverSets \cup {{}}, NEW submit \in BOOLEAN,
               BeginEdit(r, A, submit)
        PROVE  req'[r].pc = "editWrite"
    BY <1>0, <2>4 DEF BeginEdit, Idle, TypeOK
  <2>5. /\ req'[r].pc \in {"startWrite", "completeWrite"}
              => status \in {"APPROVED", "IN_EXECUTION"}
        /\ req'[r].pc # "outcome"
    BY <1>2, <2>2, <2>3, <2>4 DEF Begin
  <2> QED
    BY <1>0, <2>1, <2>5, VotesUntouched
<1>3. ASSUME NEW r \in Requests, FindApprover(r) \/ StoreEvidence(r) \/ DecideTooLate(r)
      PROVE  ApprovalStands' /\ EffectsAreUnderWay'
  <2>1. /\ UNCHANGED <<gmud, edits, behalf, failures>>
        /\ req[r].pc \in {"findApprover", "storeEvidence", "decide"}
        /\ req'[r].pc \in {"idle", "storeEvidence", "decide"}
        /\ \A q \in Requests \ {r} : req'[q] = req[q]
    <3>1. CASE FindApprover(r)
      BY <1>0, <3>1 DEF FindApprover, At, Finish, Idle, TypeOK, Request
    <3>2. CASE StoreEvidence(r)
      BY <1>0, <3>2 DEF StoreEvidence, At, Goto, TypeOK, Request
    <3>3. CASE DecideTooLate(r)
      BY <1>0, <3>3 DEF DecideTooLate, At, Finish, Idle, TypeOK
    <3> QED
      BY <1>3, <3>1, <3>2, <3>3
  <2> QED
    BY <1>0, <2>1, VotesUntouched
<1>4. ASSUME NEW r \in Requests, EditWrite(r) PROVE ApprovalStands' /\ EffectsAreUnderWay'
  <2>1. edits' # 0
    BY <1>0, <1>4 DEF EditWrite, TypeOK
  <2> QED
    BY <2>1 DEF ApprovalStands, OnlyVotes, EffectsAreUnderWay
<1>5. ASSUME NEW r \in Requests, Continue(r) PROVE ApprovalStands' /\ EffectsAreUnderWay'
  BY <1>0, <1>3, <1>4, <1>5, VotesDecide, VotesTally, VotesOutcome, VotesTransition
  DEF Continue
<1>6. ASSUME NEW r \in Requests, Fail(r) PROVE ApprovalStands' /\ EffectsAreUnderWay'
  <2>1. /\ failures' # 0 /\ UNCHANGED <<gmud, edits, behalf>> /\ req'[r].pc = "idle"
        /\ \A q \in Requests \ {r} : req'[q] = req[q]
    BY <1>0, <1>6 DEF Fail, Finish, Idle, TypeOK
  <2> QED
    BY <1>0, <2>1, VotesUntouched
<1>7. CASE UNCHANGED vars
  <2>1. UNCHANGED <<status, approver, behalf, req, edits, failures>>
    BY <1>7 DEF vars
  <2>2. ApprovalStands'
    BY <1>0, <2>1 DEF ApprovalStands, OnlyVotes, Unanimous
  <2>3. EffectsAreUnderWay'
    BY <1>0, <2>1 DEF EffectsAreUnderWay, RejectionUnderWay, ClosingUnderWay
  <2> QED
    BY <1>0, <2>2, <2>3 DEF VotesIInv
<1> QED
  BY <1>0, <1>1, <1>2, <1>5, <1>6, <1>7 DEF Next, VotesIInv

\* Every vote counts: no approval hides a rejection, and the last of several decisions
\* at once closes the vote (approve reads all rows after its write, and the outcome
\* is written on the status the tally was about).
THEOREM VotesAreCounted == Spec => []VotesCount
<1>1. VotesIInv => VotesCount
  <2> SUFFICES ASSUME VotesIInv PROVE VotesCount
    OBVIOUS
  <2>1. NoHiddenRejection
    BY DEF VotesIInv, ApprovalStands, NoHiddenRejection, Unanimous
  <2>2. DecisionsTakeEffect
    BY DEF VotesIInv, EffectsAreUnderWay, RejectionUnderWay, ClosingUnderWay,
      DecisionsTakeEffect
  <2> QED
    BY <2>1, <2>2 DEF VotesCount
<1> QED
  BY VotesInit, VotesNext, <1>1, PTL DEF Spec
=============================================================================
