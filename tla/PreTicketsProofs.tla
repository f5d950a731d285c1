-------------------------- MODULE PreTicketsProofs --------------------------
(* Proofs about the queue of pre-tickets, for any number of e-mails,         *)
(* operators and requests and for any bounds.                                *)
EXTENDS PreTickets, TLAPS

\* The lock of openAsTicket: a pre-ticket being opened is not in the queue.
LockIInv ==
    /\ TypeOK
    /\ OneOpener
    /\ \A p \in Emails : Opening(p) # {} => status[p] # "PENDING"

\* An opening that has only its history left has recorded the number.
NoLossIInv ==
    /\ TypeOK
    /\ ErrorsLoseNoEmail
    /\ \A r \in Requests : req[r].pc = "history" => hasNumber[req[r].email]

\* An empty slot is a request.
LEMMA IdleType == Idle \in Request /\ Idle.pc = "idle"
  BY DEF Idle, Request, PCs

\* The initial state is well typed.
LEMMA TypeInit == Init => TypeOK
  BY IdleType DEF Init, TypeOK, Statuses

\* Moving a handler that has an e-mail to another label keeps its type.
LEMMA GotoType ==
    ASSUME TypeOK, NEW r \in Requests, NEW label \in PCs, req[r].pc # "idle",
           Goto(r, label)
    PROVE  /\ req' \in [Requests -> Request]
           /\ \A q \in Requests : req'[q].pc # "idle" =>
                 req'[q].email \in Emails /\ req'[q].actor \in Operators
           /\ req'[r].pc = label
           /\ req'[r].email = req[r].email
           /\ \A q \in Requests \ {r} : req'[q] = req[q]
<1> DEFINE x == [req[r] EXCEPT !.pc = label]
<1>1. /\ x \in Request /\ x.pc = label
      /\ x.email = req[r].email /\ x.actor = req[r].actor
  BY DEF TypeOK, Request
<1>2. req' = [req EXCEPT ![r] = x]
  BY DEF Goto
<1> HIDE DEF x
<1> QED
  BY <1>1, <1>2 DEF TypeOK

\* A handler that ends leaves an empty slot.
LEMMA FinishType ==
    ASSUME TypeOK, NEW r \in Requests, Finish(r)
    PROVE  /\ req' \in [Requests -> Request]
           /\ \A q \in Requests : req'[q].pc # "idle" =>
                 req'[q].email \in Emails /\ req'[q].actor \in Operators
           /\ req'[r].pc = "idle"
           /\ \A q \in Requests \ {r} : req'[q] = req[q]
  BY IdleType DEF Finish, TypeOK

\* A handler that begins.
LEMMA BeginType ==
    ASSUME TypeOK, NEW r \in Requests, NEW u \in Operators, NEW p \in Emails,
           Begin(r, u, p)
    PROVE  /\ TypeOK'
           /\ req'[r].pc \in {"claimWrite", "deleteWrite", "lock"}
           /\ \A q \in Requests \ {r} : req'[q] = req[q]
           /\ UNCHANGED <<preTicket, tickets, bounds>>
<1>1. PICK label \in {"claimWrite", "deleteWrite", "lock"} : BeginHandler(r, u, p, label)
  BY DEF Begin, BeginClaim, BeginDelete, BeginOpen
<1> DEFINE x == [pc |-> label, email |-> p, actor |-> u]
<1>2. /\ x \in Request
      /\ x.pc = label /\ x.email = p /\ x.actor = u
  BY DEF Request, PCs
<1>3. req' = [req EXCEPT ![r] = x] /\ UNCHANGED <<preTicket, tickets, bounds>>
  BY <1>1 DEF BeginHandler
<1> HIDE DEF x
<1> QED
  BY <1>2, <1>3 DEF TypeOK, preTicket, tickets, bounds

\* Every step keeps the types.
LEMMA TypeNext == TypeOK /\ [Next]_vars => TypeOK'
<1> SUFFICES ASSUME TypeOK, [Next]_vars PROVE TypeOK'
  OBVIOUS
<1>1. ASSUME NEW r \in Requests, NEW u \in Operators, NEW p \in Emails, Begin(r, u, p)
      PROVE  TypeOK'
  BY <1>1, BeginType
<1>2. ASSUME NEW r \in Requests, Continue(r) PROVE TypeOK'
  <2> DEFINE p == req[r].email
  <2>1. p \in Emails /\ req[r].actor \in Operators /\ req[r].pc # "idle"
    BY <1>2
    DEF Continue, ClaimWrite, DeleteWrite, Lock, Create, Upsert, Describe, Record,
        History, Revert, At, TypeOK
  <2>2. CASE ClaimWrite(r)
    BY <2>1, <2>2, FinishType DEF ClaimWrite, TypeOK, tickets, bounds
  <2>3. CASE DeleteWrite(r)
    BY <2>1, <2>3, FinishType DEF DeleteWrite, TypeOK, tickets, bounds, Statuses
  <2>4. CASE Lock(r)
    <3>1. CASE LockMatches(p)
      <4>1. Goto(r, "create")
        BY <2>4, <3>1 DEF Lock
      <4> QED
        BY <2>1, <2>4, <3>1, <4>1, GotoType
        DEF Lock, TypeOK, tickets, Statuses, PCs, HoldsLock
    <3>2. CASE ~ LockMatches(p)
      BY <2>1, <2>4, <3>2, FinishType DEF Lock, TypeOK, tickets
    <3> QED
      BY <3>1, <3>2
  <2>5. CASE Create(r)
    <3>1. remote' \in [Emails -> Nat]
      BY <2>1, <2>5 DEF Create, TypeOK
    <3> QED
      BY <2>1, <2>5, <3>1, GotoType
      DEF Create, TypeOK, preTicket, bounds, PCs, HoldsLock
  <2>6. CASE Upsert(r)
    BY <2>1, <2>6, GotoType
    DEF Upsert, TypeOK, preTicket, bounds, PCs, HoldsLock
  <2>7. CASE Describe(r)
    BY <2>1, <2>7, GotoType
    DEF Describe, TypeOK, preTicket, tickets, bounds, PCs, HoldsLock
  <2>8. CASE Record(r)
    BY <2>1, <2>8, GotoType
    DEF Record, TypeOK, tickets, bounds, PCs, HoldsLock, Statuses
  <2>9. CASE History(r)
    BY <2>1, <2>9, FinishType DEF History, TypeOK, preTicket, tickets, bounds
  <2>10. CASE Revert(r)
    BY <2>1, <2>10, FinishType DEF Revert, TypeOK, tickets, bounds, Statuses
  <2> QED
    BY <1>2, <2>2, <2>3, <2>4, <2>5, <2>6, <2>7, <2>8, <2>9, <2>10 DEF Continue
<1>3. ASSUME NEW r \in Requests, Throw(r) PROVE TypeOK'
  <2>1. req[r].pc # "idle"
    BY <1>3 DEF Throw, HoldsLock
  <2> QED
    BY <1>3, <2>1, GotoType
    DEF Throw, TypeOK, preTicket, tickets, PCs, HoldsLock
<1>4. ASSUME NEW r \in Requests, Crash(r) PROVE TypeOK'
  BY <1>4, FinishType DEF Crash, TypeOK, preTicket, tickets
<1>5. ASSUME NEW u \in Operators, NEW p \in Emails, Release(u, p) PROVE TypeOK'
  BY <1>5 DEF Release, TypeOK, tickets, bounds
<1>6. ASSUME NEW p \in Emails, ClaimExpires(p) PROVE TypeOK'
  BY <1>6 DEF ClaimExpires, TypeOK, tickets, bounds
<1>7. CASE UNCHANGED vars
  BY <1>7 DEF vars, TypeOK
<1> QED
  BY <1>1, <1>2, <1>3, <1>4, <1>5, <1>6, <1>7 DEF Next

\* Every variable keeps its type.
THEOREM TypeCorrect == Spec => []TypeOK
  BY TypeInit, TypeNext, PTL DEF Spec

-----------------------------------------------------------------------------
\* What a handler in flight does to the locks: only Lock takes one, and only
\* when the pre-ticket is in the queue; only Revert returns it to the queue.
LEMMA LockNext == LockIInv /\ [Next]_vars => LockIInv'
<1> SUFFICES ASSUME LockIInv, [Next]_vars PROVE LockIInv'
  OBVIOUS
<1>0. TypeOK /\ TypeOK'
  BY TypeNext DEF LockIInv
<1> USE DEF LockIInv, OneOpener, Opening
<1>1. ASSUME NEW r \in Requests,
             \A q \in Requests \ {r} : req'[q] = req[q],
             \/ req'[r].pc \notin HoldsLock
             \/ req[r].pc \in HoldsLock /\ req'[r].email = req[r].email,
             \A p \in Emails : status[p] # "PENDING" => status'[p] # "PENDING"
      PROVE  LockIInv'
  BY <1>0, <1>1
<1>2. ASSUME NEW r \in Requests, NEW u \in Operators, NEW p \in Emails, Begin(r, u, p)
      PROVE  LockIInv'
  BY <1>0, <1>1, <1>2, BeginType DEF preTicket, HoldsLock
<1>3. ASSUME NEW r \in Requests, Continue(r) PROVE LockIInv'
  <2> DEFINE p == req[r].email
  <2>1. p \in Emails /\ req[r].pc # "idle"
    BY <1>0, <1>3
    DEF Continue, ClaimWrite, DeleteWrite, Lock, Create, Upsert, Describe, Record,
        History, Revert, At, TypeOK
  <2>2. CASE ClaimWrite(r) \/ DeleteWrite(r) \/ History(r)
    <3>1. Finish(r)
      BY <2>2 DEF ClaimWrite, DeleteWrite, History
    <3>2. \A e \in Emails : status[e] # "PENDING" => status'[e] # "PENDING"
      BY <1>0, <2>2 DEF ClaimWrite, DeleteWrite, History, preTicket, TypeOK
    <3> QED
      BY <1>0, <1>1, <3>1, <3>2, FinishType DEF HoldsLock
  <2>3. CASE Create(r) \/ Upsert(r) \/ Describe(r) \/ Record(r)
    <3>1. \E label \in HoldsLock : Goto(r, label)
      BY <2>3 DEF Create, Upsert, Describe, Record, HoldsLock
    <3>2. \A e \in Emails : status[e] # "PENDING" => status'[e] # "PENDING"
      BY <1>0, <2>3 DEF Create, Upsert, Describe, Record, preTicket, TypeOK
    <3>3. req[r].pc \in HoldsLock
      BY <2>3 DEF Create, Upsert, Describe, Record, At, HoldsLock
    <3> QED
      BY <1>0, <1>1, <2>1, <3>1, <3>2, <3>3, GotoType DEF PCs
  <2>4. CASE Lock(r)
    <3>1. CASE LockMatches(p)
      <4>1. Goto(r, "create") /\ status[p] = "PENDING" /\ status' = [status EXCEPT ![p] = "OPENED"]
        BY <2>4, <3>1 DEF Lock, LockMatches
      <4>2. \A q \in Requests : req[q].email = p => req[q].pc \notin HoldsLock
        BY <2>1, <4>1
      <4>3. /\ req'[r].email = p
            /\ \A q \in Requests \ {r} : req'[q] = req[q]
        BY <1>0, <2>1, <4>1, GotoType DEF PCs, HoldsLock
      <4> QED
        BY <1>0, <2>1, <4>1, <4>2, <4>3 DEF TypeOK
    <3>2. CASE ~ LockMatches(p)
      <4>1. Finish(r) /\ status' = status
        BY <2>4, <3>2 DEF Lock
      <4> QED
        BY <1>0, <1>1, <4>1, FinishType DEF HoldsLock
    <3> QED
      BY <3>1, <3>2
  <2>5. CASE Revert(r)
    <3>1. /\ Finish(r)
          /\ \A e \in Emails \ {p} : status'[e] = status[e]
          /\ req[r].pc \in HoldsLock
      BY <1>0, <2>5 DEF Revert, At, HoldsLock, TypeOK
    <3>2. \A q \in Requests \ {r} : req[q].email = p => req[q].pc \notin HoldsLock
      BY <2>1, <3>1
    <3>3. /\ req'[r].pc \notin HoldsLock
          /\ \A q \in Requests \ {r} : req'[q] = req[q]
      BY <1>0, <3>1, FinishType DEF HoldsLock
    <3> QED
      BY <1>0, <3>1, <3>2, <3>3
  <2> QED
    BY <1>3, <2>2, <2>3, <2>4, <2>5 DEF Continue
<1>4. ASSUME NEW r \in Requests, Throw(r) PROVE LockIInv'
  <2>1. /\ req[r].pc \in HoldsLock /\ req[r].pc # "idle"
        /\ Goto(r, "revert") /\ status' = status
    BY <1>4 DEF Throw, HoldsLock, preTicket
  <2> QED
    BY <1>0, <1>1, <2>1, GotoType DEF PCs, HoldsLock
<1>5. ASSUME NEW r \in Requests, Crash(r) PROVE LockIInv'
  BY <1>0, <1>1, <1>5, FinishType DEF Crash, preTicket, HoldsLock
<1>6. CASE \/ \E u \in Operators, p \in Emails : Release(u, p)
           \/ \E p \in Emails : ClaimExpires(p)
           \/ UNCHANGED vars
  <2>1. req' = req /\ status' = status
    BY <1>6 DEF Release, ClaimExpires, vars
  <2> QED
    BY <1>0, <2>1
<1> QED
  BY <1>2, <1>3, <1>4, <1>5, <1>6 DEF Next

\* Two operators never open the same e-mail at the same time (openAsTicket).
THEOREM OpeningIsExclusive == Spec => []OneOpener
<1>1. Init => LockIInv
  BY TypeInit DEF LockIInv, OneOpener, Opening, Init, Idle, HoldsLock
<1>2. LockIInv => OneOpener
  BY DEF LockIInv
<1> QED
  BY <1>1, LockNext, <1>2, PTL DEF Spec
-----------------------------------------------------------------------------
\* A recorded pre-ticket never returns to the queue.
LEMMA RecordedNext ==
    TypeOK /\ RecordedStaysOutOfQueue /\ [Next]_vars => RecordedStaysOutOfQueue'
<1> SUFFICES ASSUME TypeOK, RecordedStaysOutOfQueue, [Next]_vars
             PROVE  RecordedStaysOutOfQueue'
  OBVIOUS
<1> USE DEF RecordedStaysOutOfQueue
<1>1. ASSUME NEW r \in Requests, NEW u \in Operators, NEW p \in Emails, Begin(r, u, p)
      PROVE  RecordedStaysOutOfQueue'
  BY <1>1, BeginType DEF preTicket
<1>2. ASSUME NEW r \in Requests, Continue(r) PROVE RecordedStaysOutOfQueue'
  <2>1. CASE ClaimWrite(r) \/ Create(r) \/ Upsert(r) \/ Describe(r) \/ History(r)
    <3>1. UNCHANGED <<status, hasNumber>>
      BY <2>1 DEF ClaimWrite, Create, Upsert, Describe, History, preTicket
    <3> QED
      BY <3>1
  <2>2. CASE DeleteWrite(r) \/ Lock(r) \/ Record(r) \/ Revert(r)
    BY <2>2 DEF DeleteWrite, Lock, Record, Revert, RevertMatches, TypeOK
  <2> QED
    BY <1>2, <2>1, <2>2 DEF Continue
<1>3. CASE \/ \E r \in Requests : Throw(r) \/ Crash(r)
           \/ \E u \in Operators, p \in Emails : Release(u, p)
           \/ \E p \in Emails : ClaimExpires(p)
           \/ UNCHANGED vars
  <2>1. UNCHANGED <<status, hasNumber>>
    BY <1>3 DEF Throw, Crash, Release, ClaimExpires, vars, preTicket
  <2> QED
    BY <2>1
<1> QED
  BY <1>1, <1>2, <1>3 DEF Next

\* A pre-ticket whose number is recorded is never in the queue again
\* (the condition of the write in the catch of openAsTicket).
THEOREM RecordedIsOutOfQueue == Spec => []RecordedStaysOutOfQueue
<1>1. Init => RecordedStaysOutOfQueue
  BY DEF Init, RecordedStaysOutOfQueue
<1> QED
  BY <1>1, RecordedNext, TypeCorrect, PTL DEF Spec

-----------------------------------------------------------------------------
\* Until a crash, every pre-ticket marked OPENED without a number has somebody
\* opening it: only a handler that recorded the number, or returned the
\* pre-ticket to the queue, lets go of it.
LEMMA NoLossNext == NoLossIInv /\ [Next]_vars => NoLossIInv'
<1> SUFFICES ASSUME NoLossIInv, [Next]_vars PROVE NoLossIInv'
  OBVIOUS
<1>0. TypeOK /\ TypeOK'
  BY TypeNext DEF NoLossIInv
<1> USE DEF NoLossIInv, ErrorsLoseNoEmail, Opening
\* A step that leaves the pre-tickets alone and keeps r in its opening.
<1>1. ASSUME NEW r \in Requests,
             UNCHANGED <<status, hasNumber, crashes>>,
             \A q \in Requests \ {r} : req'[q] = req[q],
             \/ req[r].pc \notin HoldsLock
             \/ req'[r].pc \in HoldsLock /\ req'[r].email = req[r].email,
             req'[r].pc # "history"
      PROVE  NoLossIInv'
  <2>1. ASSUME NEW p \in Emails, NEW q \in Requests,
               req[q].email = p, req[q].pc \in HoldsLock
        PROVE  req'[q].email = p /\ req'[q].pc \in HoldsLock
    BY <1>1, <2>1
  <2>2. \A q \in Requests : req'[q].pc = "history" => hasNumber'[req'[q].email]
    BY <1>1
  <2> QED
    BY <1>0, <1>1, <2>1, <2>2
<1>2. ASSUME NEW r \in Requests, NEW u \in Operators, NEW p \in Emails, Begin(r, u, p)
      PROVE  NoLossIInv'
  <2>1. req[r].pc = "idle"
    BY <1>2 DEF Begin, BeginClaim, BeginDelete, BeginOpen, BeginHandler, At
  <2> QED
    BY <1>0, <1>1, <1>2, <2>1, BeginType DEF preTicket, bounds, HoldsLock
<1>3. ASSUME NEW r \in Requests, Continue(r) PROVE NoLossIInv'
  <2> DEFINE p == req[r].email
  <2>1. p \in Emails /\ req[r].pc # "idle"
    BY <1>0, <1>3
    DEF Continue, ClaimWrite, DeleteWrite, Lock, Create, Upsert, Describe, Record,
        History, Revert, At, TypeOK
  <2>2. CASE ClaimWrite(r)
    <3>1. /\ Finish(r) /\ req[r].pc \notin HoldsLock
          /\ UNCHANGED <<status, hasNumber, crashes>>
      BY <2>2 DEF ClaimWrite, At, HoldsLock, bounds
    <3> QED
      BY <1>0, <1>1, <3>1, FinishType DEF HoldsLock
  <2>3. CASE DeleteWrite(r)
    <3>1. /\ Finish(r) /\ req[r].pc \notin HoldsLock
          /\ UNCHANGED <<hasNumber, crashes>>
          /\ status' = [status EXCEPT ![p] = "DELETED"]
      BY <2>3 DEF DeleteWrite, At, HoldsLock, bounds
    <3>2. \A e \in Emails : status'[e] = "OPENED" => status[e] = "OPENED"
      BY <1>0, <3>1 DEF TypeOK
    <3> QED
      BY <1>0, <3>1, <3>2, FinishType
  <2>4. CASE Lock(r)
    <3>1. CASE LockMatches(p)
      <4>1. /\ Goto(r, "create")
            /\ req[r].pc = "lock"
            /\ status' = [status EXCEPT ![p] = "OPENED"]
            /\ UNCHANGED <<hasNumber, crashes>>
        BY <2>4, <3>1 DEF Lock, At
      <4>2. /\ req'[r].pc = "create" /\ req'[r].email = p
            /\ \A q \in Requests \ {r} : req'[q] = req[q]
        BY <1>0, <2>1, <4>1, GotoType DEF PCs, HoldsLock
      <4>3. \A e \in Emails \ {p} : status'[e] = status[e]
        BY <1>0, <4>1 DEF TypeOK
      <4>4. r \in {q \in Requests : req'[q].email = p /\ req'[q].pc \in HoldsLock}
        BY <4>2 DEF HoldsLock
      <4>5. ASSUME NEW e \in Emails, NEW q \in Requests,
                   req[q].email = e, req[q].pc \in HoldsLock
            PROVE  req'[q].email = e /\ req'[q].pc \in HoldsLock
        BY <4>1, <4>2, <4>5 DEF HoldsLock
      <4>6. \A q \in Requests : req'[q].pc = "history" => hasNumber'[req'[q].email]
        BY <4>1, <4>2
      <4> QED
        BY <1>0, <4>1, <4>3, <4>4, <4>5, <4>6
    <3>2. CASE ~ LockMatches(p)
      <4>1. /\ Finish(r) /\ req[r].pc \notin HoldsLock
            /\ UNCHANGED <<status, hasNumber, crashes>>
        BY <2>4, <3>2 DEF Lock, At, HoldsLock
      <4> QED
        BY <1>0, <1>1, <4>1, FinishType DEF HoldsLock
    <3> QED
      BY <3>1, <3>2
  <2>5. CASE Create(r) \/ Upsert(r) \/ Describe(r)
    <3>1. \E label \in HoldsLock \ {"history"} : Goto(r, label)
      BY <2>5 DEF Create, Upsert, Describe, HoldsLock
    <3>2. UNCHANGED <<status, hasNumber, crashes>>
      BY <2>5 DEF Create, Upsert, Describe, preTicket, bounds
    <3> QED
      BY <1>0, <1>1, <2>1, <3>1, <3>2, GotoType DEF PCs
  <2>6. CASE Record(r)
    <3>1. /\ Goto(r, "history") /\ crashes' = crashes
          /\ status' = [status EXCEPT ![p] = "OPENED"]
          /\ hasNumber' = [hasNumber EXCEPT ![p] = TRUE]
      BY <2>6 DEF Record, bounds
    <3>2. /\ req'[r].pc = "history" /\ req'[r].email = p
          /\ \A q \in Requests \ {r} : req'[q] = req[q]
      BY <1>0, <2>1, <3>1, GotoType DEF PCs, HoldsLock
    <3>3. /\ hasNumber'[p]
          /\ \A e \in Emails \ {p} : hasNumber'[e] = hasNumber[e] /\ status'[e] = status[e]
      BY <1>0, <2>1, <3>1 DEF TypeOK
    <3>4. ASSUME NEW e \in Emails, NEW q \in Requests,
                 req[q].email = e, req[q].pc \in HoldsLock
          PROVE  req'[q].email = e /\ req'[q].pc \in HoldsLock
      BY <3>2, <3>4 DEF HoldsLock
    <3>5. \A q \in Requests : req'[q].pc = "history" => hasNumber'[req'[q].email]
      <4> SUFFICES ASSUME NEW q \in Requests, req'[q].pc = "history"
                   PROVE  hasNumber'[req'[q].email]
        OBVIOUS
      <4>1. req'[q].email \in Emails
        BY <1>0 DEF TypeOK
      <4> QED
        BY <3>2, <3>3, <4>1
    <3> QED
      BY <1>0, <3>1, <3>3, <3>4, <3>5
  <2>7. CASE History(r)
    <3>1. /\ Finish(r) /\ hasNumber[p]
          /\ UNCHANGED <<status, hasNumber, crashes>>
      BY <2>7 DEF History, At, preTicket, bounds
    <3>2. ASSUME NEW e \in Emails, e # p, NEW q \in Requests,
                 req[q].email = e, req[q].pc \in HoldsLock
          PROVE  req'[q].email = e /\ req'[q].pc \in HoldsLock
      BY <1>0, <3>1, <3>2, FinishType
    <3>3. \A q \in Requests : req'[q].pc = "history" => hasNumber'[req'[q].email]
      BY <1>0, <3>1, FinishType
    <3> QED
      BY <1>0, <3>1, <3>2, <3>3
  <2>8. CASE Revert(r)
    <3>1. /\ Finish(r) /\ UNCHANGED <<hasNumber, crashes>>
          /\ status'[p] = "OPENED" => hasNumber[p]
          /\ \A e \in Emails \ {p} : status'[e] = status[e]
      BY <1>0, <2>1, <2>8 DEF Revert, RevertMatches, TypeOK, bounds
    <3>2. ASSUME NEW e \in Emails, e # p, NEW q \in Requests,
                 req[q].email = e, req[q].pc \in HoldsLock
          PROVE  req'[q].email = e /\ req'[q].pc \in HoldsLock
      BY <1>0, <3>1, <3>2, FinishType
    <3>3. \A q \in Requests : req'[q].pc = "history" => hasNumber'[req'[q].email]
      BY <1>0, <3>1, FinishType
    <3> QED
      BY <1>0, <3>1, <3>2, <3>3
  <2> QED
    BY <1>3, <2>2, <2>3, <2>4, <2>5, <2>6, <2>7, <2>8 DEF Continue
<1>4. ASSUME NEW r \in Requests, Throw(r) PROVE NoLossIInv'
  <2>1. /\ req[r].pc \in HoldsLock /\ req[r].pc # "idle" /\ Goto(r, "revert")
        /\ UNCHANGED <<status, hasNumber, crashes>>
    BY <1>4 DEF Throw, HoldsLock, preTicket
  <2> QED
    BY <1>0, <1>1, <2>1, GotoType DEF PCs, HoldsLock
<1>5. ASSUME NEW r \in Requests, Crash(r) PROVE NoLossIInv'
  <2>1. crashes' # 0
    BY <1>0, <1>5 DEF Crash, TypeOK
  <2>2. \A q \in Requests : req'[q].pc = "history" => hasNumber'[req'[q].email]
    BY <1>0, <1>5, FinishType DEF Crash, preTicket
  <2> QED
    BY <1>0, <2>1, <2>2
<1>6. CASE \/ \E u \in Operators, p \in Emails : Release(u, p)
           \/ \E p \in Emails : ClaimExpires(p)
           \/ UNCHANGED vars
  <2>1. UNCHANGED <<req, status, hasNumber, crashes>>
    BY <1>6 DEF Release, ClaimExpires, vars, bounds
  <2> QED
    BY <1>0, <2>1
<1> QED
  BY <1>2, <1>3, <1>4, <1>5, <1>6 DEF Next

\* An error while a ticket is opened does not lose the e-mail: the catch of
\* openAsTicket returns it to the queue.
THEOREM ErrorsAreRecovered == Spec => []ErrorsLoseNoEmail
<1>1. Init => NoLossIInv
  BY TypeInit DEF NoLossIInv, ErrorsLoseNoEmail, Init, Idle
<1>2. NoLossIInv => ErrorsLoseNoEmail
  BY DEF NoLossIInv
<1> QED
  BY <1>1, NoLossNext, <1>2, PTL DEF Spec

\* The queue holds what it should, whatever threw, was deleted or crashed, and
\* until a crash nothing is missing from it (openAsTicket and its catch).
THEOREM QueueStaysSound == Spec => []QueueIsSound
<1>1. RecordedStaysOutOfQueue /\ ErrorsLoseNoEmail => QueueIsSound
  BY DEF QueueIsSound
<1> QED
  BY <1>1, RecordedIsOutOfQueue, ErrorsAreRecovered, PTL

-----------------------------------------------------------------------------
\* Nobody takes over a reservation that is still valid (claim, release).
THEOREM ReservationsHold == Spec => ReservationIsHonoured
<1> DEFINE Honoured == \A p \in Emails :
                          claimFresh[p] /\ claimedBy[p] # Nobody
                          => claimedBy'[p] \in {claimedBy[p], Nobody}
<1>1. TypeOK /\ [Next]_vars => [Honoured]_vars
  <2> SUFFICES ASSUME TypeOK, Next PROVE Honoured
    BY DEF vars
  <2>1. ASSUME NEW r \in Requests, ClaimWrite(r) PROVE Honoured
    BY <2>1 DEF ClaimWrite, ClaimMatches, TypeOK
  <2>2. ASSUME NEW u \in Operators, NEW p \in Emails, Release(u, p) PROVE Honoured
    BY <2>2 DEF Release, TypeOK
  <2>3. ASSUME NEW r \in Requests, Continue(r), ~ ClaimWrite(r)
        PROVE  claimedBy' = claimedBy
    BY <2>3
    DEF Continue, DeleteWrite, Lock, Create, Upsert, Describe, Record, History,
        Revert, preTicket
  <2>4. CASE \/ \E r \in Requests, u \in Operators, p \in Emails : Begin(r, u, p)
             \/ \E r \in Requests : Throw(r) \/ Crash(r)
             \/ \E p \in Emails : ClaimExpires(p)
    <3>1. claimedBy' = claimedBy
      BY <2>4 DEF Begin, BeginClaim, BeginDelete, BeginOpen, BeginHandler, Throw,
                  Crash, ClaimExpires, preTicket
    <3> QED
      BY <3>1
  <2> QED
    BY <2>1, <2>2, <2>3, <2>4 DEF Next
<1> QED
  BY <1>1, TypeCorrect, PTL DEF Spec, ReservationIsHonoured

=============================================================================
