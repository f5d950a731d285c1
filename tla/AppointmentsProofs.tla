--------------------------- MODULE AppointmentsProofs ---------------------------
(* Proofs about the appointments and their outbox, for any appointments,      *)
(* requests and batches at once, and for any bounds: what is marked as sent   *)
(* was sent, and the outbox keeps its contract.  When requests come one at a  *)
(* time, no two appointments overlap; when batches do, an appointment is sent *)
(* again only after an error, a crash or an edit.                             *)
EXTENDS OutboxRefinement, FiniteSetTheorems, TLAPS

-----------------------------------------------------------------------------
(* The invariant.                                                             *)

Early == {"createOverlap", "insert"}

\* Only the request that creates an appointment has to do with it before its row
\* is there.
RequestOK(q) ==
    /\ req[q].pc = "idle" => req[q].appt = Nothing
    /\ req[q].pc \in Early => /\ life[req[q].appt] = "new"
                              /\ \A other \in Requests \ {q} : req[other].appt # req[q].appt
    /\ req[q].pc \notin Early \cup {"idle"} => life[req[q].appt] # "new"

\* A row of the outbox is of an appointment whose row was inserted before.
RowOK(r) == row[r].status # "none" =>
    row[r].appt \in Appointments /\ life[row[r].appt] # "new"

HasRow == {"pauseCheck", "send", "commit", "markFailed"}

\* A batch works on a row that was there, and commits the copy made for it.
ProcessorOK(p) ==
    /\ proc[p].pc \in HasRow => proc[p].row \in Rows /\ row[proc[p].row].status # "none"
    /\ proc[p].pc = "commit" => /\ proc[p].external \in Copies
                                /\ copy[proc[p].external].row = proc[p].row

CopyOK(c) == copy[c].row # 0 => row[copy[c].row].status # "none"

OutboxIInv ==
    /\ TypeOK
    /\ SyncedWasSent
    /\ \A q \in Requests : RequestOK(q)
    /\ \A r \in Rows : RowOK(r)
    /\ \A p \in Processors : ProcessorOK(p)
    /\ \A c \in Copies : CopyOK(c)

-----------------------------------------------------------------------------
(* The types, in three groups.                                                *)

StoreTypes ==
    /\ life \in [Appointments -> {"new", "present", "deleted"}]
    /\ time \in [Appointments -> Dtos \cup {Nothing}]
    /\ sync \in [Appointments -> SyncStates]
    /\ paused \in [Appointments -> BOOLEAN]
    /\ link \in [Appointments -> {0} \cup Rows]
    /\ external \in [Appointments -> {0} \cup Copies]
    /\ row \in [Rows -> OutboxRow]
    /\ copy \in [Copies -> Copy]
    /\ count \in Counters
    /\ \A a \in Appointments : life[a] = "present" => time[a] \in Dtos

WithTime == {"createOverlap", "insert", "record", "updateOverlap", "reset", "write"}

RequestTyped(x) ==
    /\ x \in Request
    /\ x.pc # "idle" => x.appt \in Appointments
    /\ x.pc \in WithTime => x.dto \in Dtos

ProcessorTyped(x) == x \in Processor /\ (x.pc \in HasRow => x.row \in Rows)

LEMMA TypesSplit ==
    TypeOK <=> /\ StoreTypes
               /\ req \in [Requests -> Request]
               /\ \A q \in Requests : RequestTyped(req[q])
               /\ proc \in [Processors -> Processor]
               /\ \A p \in Processors : ProcessorTyped(proc[p])
  BY DEF TypeOK, StoreTypes, RequestTyped, ProcessorTyped, WithTime, HasRow

LEMMA IdleTyped ==
    /\ RequestTyped(IdleRequest) /\ IdleRequest.pc = "idle" /\ IdleRequest.appt = Nothing
    /\ ProcessorTyped(IdleProcessor) /\ IdleProcessor.pc = "idle"
  BY DEF RequestTyped, IdleRequest, Request, RequestPCs, SyncStates, WithTime,
         ProcessorTyped, IdleProcessor, Processor, ProcessorPCs, HasRow

-----------------------------------------------------------------------------
(* What every step does to the stores.                                        *)

\* No row of an appointment comes back or is forgotten.
LifeGoesOn ==
    \A a \in Appointments : /\ life[a] # "new" => life'[a] # "new"
                            /\ life'[a] = "present" => life[a] # "deleted"

\* A row of the outbox stays, and stays the row of its appointment.
RowsGoOn ==
    \A r \in Rows :
        /\ row[r].status # "none" => row'[r].status # "none" /\ row'[r].appt = row[r].appt
        /\ row[r].status = "none" /\ row'[r].status # "none" =>
              row'[r].appt \in Appointments /\ life'[row'[r].appt] # "new"

\* TiFlux forgets no copy.
CopiesGoOn ==
    \A c \in Copies :
        /\ copy[c].row # 0 => copy'[c] = copy[c]
        /\ copy[c].row = 0 /\ copy'[c].row # 0 =>
              copy'[c].row \in Rows /\ row[copy'[c].row].status # "none"

GoesOn == LifeGoesOn /\ RowsGoOn /\ CopiesGoOn

LEMMA RowsAndCopiesStay ==
    ASSUME OutboxIInv, GoesOn, StoreTypes'
    PROVE  (\A r \in Rows : RowOK(r))' /\ (\A c \in Copies : CopyOK(c))'
<1>1. ASSUME NEW r \in Rows PROVE RowOK(r)'
  BY DEF OutboxIInv, GoesOn, LifeGoesOn, RowsGoOn, RowOK
<1>2. ASSUME NEW c \in Copies, copy'[c].row # 0 PROVE row'[copy'[c].row].status # "none"
  <2>1. copy'[c].row \in Rows /\ row[copy'[c].row].status # "none"
    <3>1. CASE copy[c].row = 0
      BY <1>2, <3>1 DEF GoesOn, CopiesGoOn
    <3>2. CASE copy[c].row # 0
      BY <1>2, <3>2, TypesSplit DEF GoesOn, CopiesGoOn, OutboxIInv, CopyOK, StoreTypes, Copy
    <3> QED
      BY <3>1, <3>2
  <2> QED
    BY <2>1 DEF GoesOn, RowsGoOn
<1> QED
  BY <1>1, <1>2 DEF CopyOK

\* Nothing new is marked, and what was marked stays as it was.
LEMMA MarksStay ==
    ASSUME OutboxIInv, GoesOn, StoreTypes', UNCHANGED external,
           \A r \in Rows : row'[r].status = "SYNCED" =>
               row[r].status = "SYNCED" /\ row'[r].external = row[r].external,
           \A a \in Appointments : sync'[a] = sync[a] \/ (life[a] = "new" /\ sync'[a] # "SYNCED")
    PROVE  SyncedWasSent'
<1>1. ASSUME NEW r \in Rows, row'[r].status = "SYNCED"
      PROVE  /\ row'[r].external # 0 /\ copy'[row'[r].external].row = r
             /\ life'[row'[r].appt] = "present" => sync'[row'[r].appt] = "SYNCED"
  <2> DEFINE c == row[r].external
             a == row[r].appt
  <2>1. /\ row[r].status = "SYNCED" /\ row'[r].external = c /\ row'[r].appt = a
        /\ c # 0 /\ copy[c].row = r /\ (Present(a) => sync[a] = "SYNCED")
    BY <1>1 DEF OutboxIInv, SyncedWasSent, GoesOn, RowsGoOn
  <2>2. c \in Copies /\ r # 0
    BY <2>1, TypesSplit DEF OutboxIInv, StoreTypes, OutboxRow, Rows
  <2>3. copy'[c] = copy[c]
    BY <2>1, <2>2 DEF GoesOn, CopiesGoOn
  <2>4. a \in Appointments /\ life[a] # "new"
    BY <2>1 DEF OutboxIInv, RowOK
  <2>5. life'[a] = "present" => Present(a)
    BY <2>4, TypesSplit DEF OutboxIInv, StoreTypes, GoesOn, LifeGoesOn, Present
  <2> QED
    BY <2>1, <2>3, <2>4, <2>5
<1>2. ASSUME NEW a \in Appointments, sync'[a] = "SYNCED"
      PROVE  external'[a] # 0 /\ external'[a] \in CopiesOf(a)'
  <2> DEFINE c == external[a]
  <2>1. c # 0 /\ c \in Copies /\ copy[c].row # 0 /\ row[copy[c].row].appt = a
    BY <1>2 DEF OutboxIInv, SyncedWasSent, CopiesOf
  <2>2. copy[c].row \in Rows /\ row[copy[c].row].status # "none"
    BY <2>1, TypesSplit DEF OutboxIInv, CopyOK, StoreTypes, Copy
  <2>3. copy'[c] = copy[c] /\ row'[copy[c].row].appt = a
    BY <2>1, <2>2 DEF GoesOn, CopiesGoOn, RowsGoOn
  <2> QED
    BY <2>1, <2>3 DEF CopiesOf
<1> QED
  BY <1>1, <1>2 DEF SyncedWasSent, Present

-----------------------------------------------------------------------------
(* Requests and batches that move.                                            *)

\* A request goes from one record to another.
LEMMA RequestMoves ==
    ASSUME OutboxIInv, LifeGoesOn, NEW q \in Requests, NEW x, RequestTyped(x),
           req' = [req EXCEPT ![q] = x],
           \A a \in Appointments : life[a] = "new" =>
               life'[a] = "new" \/ (req[q].pc = "insert" /\ a = req[q].appt),
           x.pc = "idle" => x.appt = Nothing,
           x.pc # "idle" => \/ x.appt = req[q].appt
                            \/ life[x.appt] # "new"
                            \/ \A other \in Requests \ {q} : req[other].appt # x.appt,
           x.pc \in Early => /\ life'[x.appt] = "new"
                             /\ \A other \in Requests \ {q} : req[other].appt # x.appt,
           x.pc \notin Early \cup {"idle"} => life'[x.appt] # "new"
    PROVE  /\ req' \in [Requests -> Request]
           /\ \A r \in Requests : RequestTyped(req'[r])
           /\ (\A r \in Requests : RequestOK(r))'
<1>1. req \in [Requests -> Request] /\ \A r \in Requests : RequestTyped(req[r])
  BY TypesSplit DEF OutboxIInv
<1>2. \A r \in Requests : req'[r] = IF r = q THEN x ELSE req[r]
  BY <1>1
<1>3. req' \in [Requests -> Request] /\ \A r \in Requests : RequestTyped(req'[r])
  BY <1>1, <1>2 DEF RequestTyped
<1>4. RequestOK(q)'
  BY <1>2 DEF RequestOK
<1>5. ASSUME NEW r \in Requests, r # q PROVE RequestOK(r)'
  <2>1. req'[r] = req[r] /\ RequestOK(r) /\ RequestOK(q) /\ RequestTyped(req[r])
    BY <1>1, <1>2, <1>5 DEF OutboxIInv
  <2>2. CASE req[r].pc \in Early
    <3>1. req[r].appt \in Appointments /\ life[req[r].appt] = "new"
      BY <2>1, <2>2 DEF RequestOK, RequestTyped, Early
    <3>2. req[r].appt # req[q].appt
      BY <1>5, <2>1, <2>2 DEF RequestOK
    <3>3. life'[req[r].appt] = "new"
      BY <3>1, <3>2
    <3>4. x.appt # req[r].appt
      <4>1. CASE x.pc = "idle"
        BY <4>1, <3>1, NothingAssumption
      <4>2. CASE x.pc # "idle"
        BY <4>2, <3>1, <3>2, <1>5
      <4> QED
        BY <4>1, <4>2
    <3> QED
      BY <1>2, <2>1, <2>2, <3>3, <3>4 DEF RequestOK, Early
  <2>3. CASE req[r].pc \notin Early
    BY <2>1, <2>3 DEF RequestOK, RequestTyped, LifeGoesOn
  <2> QED
    BY <2>2, <2>3
<1> QED
  BY <1>3, <1>4, <1>5

\* A request ends.
LEMMA RequestEnds ==
    ASSUME OutboxIInv, LifeGoesOn, NEW q \in Requests, Finish(q),
           \A a \in Appointments : life[a] = "new" =>
               life'[a] = "new" \/ (req[q].pc = "insert" /\ a = req[q].appt)
    PROVE  /\ req' \in [Requests -> Request]
           /\ \A r \in Requests : RequestTyped(req'[r])
           /\ (\A r \in Requests : RequestOK(r))'
<1>1. req' = [req EXCEPT ![q] = IdleRequest]
  BY DEF Finish
<1> DEFINE x == IdleRequest
<1>2. RequestTyped(x) /\ x.pc = "idle" /\ x.appt = Nothing
  BY IdleTyped
<1> HIDE DEF x
<1>3. req' = [req EXCEPT ![q] = x]
  BY <1>1 DEF x
<1>4. x.pc \notin Early
  BY <1>2 DEF Early
<1> QED
  BY <1>2, <1>3, <1>4, RequestMoves

\* No request moves.
LEMMA RequestsStay ==
    ASSUME OutboxIInv, UNCHANGED <<life, req>>
    PROVE  /\ req' \in [Requests -> Request]
           /\ \A r \in Requests : RequestTyped(req'[r])
           /\ (\A r \in Requests : RequestOK(r))'
  BY TypesSplit DEF OutboxIInv, RequestOK

\* A batch goes from one record to another.
LEMMA ProcessorMoves ==
    ASSUME OutboxIInv, GoesOn, NEW p \in Processors, NEW x, ProcessorTyped(x),
           proc' = [proc EXCEPT ![p] = x],
           x.pc \in HasRow => row'[x.row].status # "none",
           x.pc = "commit" => x.external \in Copies /\ copy'[x.external].row = x.row
    PROVE  /\ proc' \in [Processors -> Processor]
           /\ \A s \in Processors : ProcessorTyped(proc'[s])
           /\ (\A s \in Processors : ProcessorOK(s))'
<1>1. proc \in [Processors -> Processor] /\ \A s \in Processors : ProcessorTyped(proc[s])
  BY TypesSplit DEF OutboxIInv
<1>2. \A s \in Processors : proc'[s] = IF s = p THEN x ELSE proc[s]
  BY <1>1
<1>3. proc' \in [Processors -> Processor] /\ \A s \in Processors : ProcessorTyped(proc'[s])
  BY <1>1, <1>2 DEF ProcessorTyped
<1>4. ProcessorOK(p)'
  BY <1>2 DEF ProcessorOK, ProcessorTyped
<1>5. ASSUME NEW s \in Processors, s # p PROVE ProcessorOK(s)'
  <2>1. proc'[s] = proc[s] /\ ProcessorOK(s)
    BY <1>2, <1>5 DEF OutboxIInv
  <2>2. proc[s].pc = "commit" => proc[s].row # 0
    BY <2>1 DEF ProcessorOK, HasRow, Rows
  <2> QED
    BY <2>1, <2>2 DEF ProcessorOK, GoesOn, RowsGoOn, CopiesGoOn
<1> QED
  BY <1>3, <1>4, <1>5

\* No batch moves.
LEMMA ProcessorsStay ==
    ASSUME OutboxIInv, GoesOn, UNCHANGED proc
    PROVE  /\ proc' \in [Processors -> Processor]
           /\ \A s \in Processors : ProcessorTyped(proc'[s])
           /\ (\A s \in Processors : ProcessorOK(s))'
<1>1. proc \in [Processors -> Processor] /\ \A s \in Processors : ProcessorTyped(proc[s])
  BY TypesSplit DEF OutboxIInv
<1>2. ASSUME NEW s \in Processors PROVE ProcessorOK(s)'
  <2>1. proc'[s] = proc[s] /\ ProcessorOK(s)
    BY DEF OutboxIInv
  <2>2. proc[s].pc = "commit" => proc[s].row # 0
    BY <2>1 DEF ProcessorOK, HasRow, Rows
  <2> QED
    BY <2>1, <2>2 DEF ProcessorOK, GoesOn, RowsGoOn, CopiesGoOn
<1> QED
  BY <1>1, <1>2

\* The parts make the invariant.
LEMMA Assemble ==
    ASSUME OutboxIInv, GoesOn, StoreTypes', SyncedWasSent',
           req' \in [Requests -> Request], \A r \in Requests : RequestTyped(req'[r]),
           (\A r \in Requests : RequestOK(r))',
           proc' \in [Processors -> Processor], \A s \in Processors : ProcessorTyped(proc'[s]),
           (\A s \in Processors : ProcessorOK(s))'
    PROVE  OutboxIInv'
<1>1. TypeOK'
  BY DEF TypeOK, StoreTypes, RequestTyped, ProcessorTyped, WithTime, HasRow
<1>2. (\A r \in Rows : RowOK(r))' /\ (\A c \in Copies : CopyOK(c))'
  BY RowsAndCopiesStay
<1> QED
  BY <1>1, <1>2 DEF OutboxIInv

-----------------------------------------------------------------------------
(* The steps of the requests.                                                 *)

\* Only requests move.
LEMMA OnlyRequests ==
    ASSUME OutboxIInv, UNCHANGED <<portal, row, copy, proc>>, count' \in Counters,
           req' \in [Requests -> Request], \A r \in Requests : RequestTyped(req'[r]),
           (\A r \in Requests : RequestOK(r))'
    PROVE  OutboxIInv'
<1>1. GoesOn
  BY TypesSplit DEF OutboxIInv, GoesOn, LifeGoesOn, RowsGoOn, CopiesGoOn, portal, StoreTypes
<1>2. StoreTypes'
  BY TypesSplit DEF OutboxIInv, StoreTypes, portal
<1>3. SyncedWasSent'
  BY <1>1, <1>2, MarksStay DEF portal
<1> QED
  BY <1>1, <1>2, <1>3, ProcessorsStay, Assemble

LEMMA CountTyped ==
    ASSUME OutboxIInv, NEW what \in {"edits", "pauses", "errors", "crashes"}, Count(what)
    PROVE  count' \in Counters
  BY TypesSplit DEF OutboxIInv, StoreTypes, Counters, Count

\* A request begins, with an appointment nobody else creates or one that is there.
BeginsWith(q, a, x) ==
    /\ req[q].pc = "idle" /\ req' = [req EXCEPT ![q] = x]
    /\ RequestTyped(x) /\ x.pc # "idle" /\ x.appt = a
    /\ \/ /\ x.pc \in Early /\ life[a] = "new"
          /\ \A other \in Requests : req[other].appt # a
       \/ x.pc \notin Early /\ Present(a)
    /\ UNCHANGED <<portal, row, copy, proc>> /\ count' \in Counters

LEMMA BeginKeeps ==
    ASSUME OutboxIInv, NEW q \in Requests, NEW a \in Appointments, Begin(q, a)
    PROVE  OutboxIInv'
<1>1. PICK x : BeginsWith(q, a, x)
  <2>1. /\ count \in Counters /\ link[a] \in {0} \cup Rows /\ sync[a] \in SyncStates
        /\ IdleRequest \in Request
    BY TypesSplit, IdleTyped DEF OutboxIInv, StoreTypes, RequestTyped
  <2>2. ASSUME NEW dto \in Dtos, BeginCreate(q, a, dto) PROVE \E x : BeginsWith(q, a, x)
    <3> DEFINE x == [IdleRequest EXCEPT !.pc = "createOverlap", !.appt = a, !.dto = dto]
    <3>1. RequestTyped(x) /\ x.pc = "createOverlap" /\ x.appt = a
      BY DEF IdleRequest, RequestTyped, Request, RequestPCs, SyncStates, WithTime
    <3>2. /\ req[q].pc = "idle" /\ req' = [req EXCEPT ![q] = x] /\ life[a] = "new"
          /\ \A other \in Requests : req[other].appt # a
          /\ UNCHANGED <<portal, row, copy, proc, count>>
      BY <2>2 DEF BeginCreate
    <3> HIDE DEF x
    <3>3. x.pc \in Early
      BY <3>1 DEF Early
    <3> QED
      BY <2>1, <3>1, <3>2, <3>3 DEF BeginsWith
  <2>3. ASSUME NEW dto \in Dtos, BeginUpdate(q, a, dto) PROVE \E x : BeginsWith(q, a, x)
    <3> DEFINE x == [pc |-> "updateOverlap", appt |-> a, dto |-> dto,
                     outboxId |-> link[a], sync |-> sync[a]]
    <3>1. RequestTyped(x) /\ x.pc = "updateOverlap" /\ x.appt = a
      BY <2>1 DEF RequestTyped, Request, RequestPCs, WithTime
    <3>2. /\ req[q].pc = "idle" /\ req' = [req EXCEPT ![q] = x] /\ Present(a)
          /\ UNCHANGED <<portal, row, copy, proc>> /\ Count("edits")
      BY <2>3 DEF BeginUpdate
    <3> HIDE DEF x
    <3>3. x.pc \notin Early /\ x.pc # "idle"
      BY <3>1 DEF Early
    <3> QED
      BY <3>1, <3>2, <3>3, CountTyped DEF BeginsWith
  <2>4. CASE BeginDelete(q, a)
    <3> DEFINE label == IF link[a] # 0 THEN "checkOutbox" ELSE "remove"
               x == [IdleRequest EXCEPT !.pc = label, !.appt = a, !.outboxId = link[a]]
    <3>1. RequestTyped(x) /\ x.pc \in {"checkOutbox", "remove"} /\ x.appt = a
      BY <2>1 DEF IdleRequest, RequestTyped, Request, RequestPCs, SyncStates, WithTime
    <3>2. /\ req[q].pc = "idle" /\ req' = [req EXCEPT ![q] = x] /\ Present(a)
          /\ UNCHANGED <<portal, row, copy, proc, count>>
      BY <2>4 DEF BeginDelete
    <3> HIDE DEF x
    <3>3. x.pc \notin Early /\ x.pc # "idle"
      BY <3>1 DEF Early
    <3> QED
      BY <2>1, <3>1, <3>2, <3>3 DEF BeginsWith
  <2>5. CASE BeginPause(q, a) \/ BeginResume(q, a)
    <3>1. PICK label \in {"pause", "resume"} :
              req' = [req EXCEPT ![q] = [IdleRequest EXCEPT !.pc = label, !.appt = a]]
      BY <2>5 DEF BeginPause, BeginResume
    <3> DEFINE x == [IdleRequest EXCEPT !.pc = label, !.appt = a]
    <3>2. RequestTyped(x) /\ x.pc \in {"pause", "resume"} /\ x.appt = a
      BY DEF IdleRequest, RequestTyped, Request, RequestPCs, SyncStates, WithTime
    <3>3. /\ req[q].pc = "idle" /\ req' = [req EXCEPT ![q] = x] /\ Present(a)
          /\ UNCHANGED <<portal, row, copy, proc>> /\ count' \in Counters
      BY <2>1, <2>5, <3>1, CountTyped DEF BeginPause, BeginResume
    <3> HIDE DEF x
    <3>4. x.pc \notin Early /\ x.pc # "idle"
      BY <3>2 DEF Early
    <3> QED
      BY <3>2, <3>3, <3>4 DEF BeginsWith
  <2> QED
    BY <2>2, <2>3, <2>4, <2>5 DEF Begin
<1>2. LifeGoesOn
  BY <1>1 DEF BeginsWith, LifeGoesOn, portal
<1>3. /\ req' \in [Requests -> Request]
      /\ \A r \in Requests : RequestTyped(req'[r])
      /\ (\A r \in Requests : RequestOK(r))'
  <2>1. x.pc \in Early => life'[x.appt] = "new"
                          /\ \A other \in Requests \ {q} : req[other].appt # x.appt
    BY <1>1 DEF BeginsWith, portal, Present
  <2>2. x.pc \notin Early \cup {"idle"} => life'[x.appt] # "new"
    BY <1>1 DEF BeginsWith, portal, Present
  <2>3. \/ x.appt = req[q].appt
        \/ life[x.appt] # "new"
        \/ \A other \in Requests \ {q} : req[other].appt # x.appt
    BY <1>1 DEF BeginsWith, Present
  <2>4. UNCHANGED life
    BY <1>1 DEF BeginsWith, portal
  <2> QED
    BY <1>1, <1>2, <2>1, <2>2, <2>3, <2>4, RequestMoves DEF BeginsWith
<1> QED
  BY <1>1, <1>3, OnlyRequests DEF BeginsWith

\* A request in flight that goes on with the same appointment, which stays as it
\* is or is inserted.
LEMMA RequestGoesOn ==
    ASSUME OutboxIInv, LifeGoesOn, NEW q \in Requests, NEW x, RequestTyped(x),
           req[q].pc # "idle", req' = [req EXCEPT ![q] = x],
           x.appt = req[q].appt, x.pc # "idle",
           x.pc \in Early => req[q].pc \in Early /\ life'[x.appt] = "new",
           x.pc \notin Early => life'[x.appt] # "new",
           \A a \in Appointments : life[a] = "new" =>
               life'[a] = "new" \/ (req[q].pc = "insert" /\ a = req[q].appt)
    PROVE  /\ req' \in [Requests -> Request]
           /\ \A r \in Requests : RequestTyped(req'[r])
           /\ (\A r \in Requests : RequestOK(r))'
<1>1. RequestOK(q)
  BY DEF OutboxIInv
<1>2. x.pc \in Early => \A other \in Requests \ {q} : req[other].appt # x.appt
  BY <1>1 DEF RequestOK
<1> QED
  BY <1>2, RequestMoves

\* What a request in flight holds.
LEMMA InFlight ==
    ASSUME OutboxIInv, NEW q \in Requests, req[q].pc # "idle"
    PROVE  /\ RequestTyped(req[q]) /\ req[q].appt \in Appointments
           /\ req[q].pc \in WithTime => req[q].dto \in Dtos
           /\ req[q].outboxId \in {0} \cup Rows
           /\ IF req[q].pc \in Early THEN life[req[q].appt] = "new"
              ELSE life[req[q].appt] # "new"
  BY TypesSplit DEF OutboxIInv, RequestTyped, Request, RequestOK, Early

\* A new row of the outbox: others stay, and it is not marked.
LEMMA RecordedRow ==
    ASSUME OutboxIInv, UNCHANGED life, NEW r \in Rows, NEW a \in Appointments,
           NEW dto \in Dtos, life[a] # "new", RecordOutbox(r, a, dto)
    PROVE  /\ row' \in [Rows -> OutboxRow] /\ RowsGoOn
           /\ \A s \in Rows : row'[s].status = "SYNCED" =>
                  row[s].status = "SYNCED" /\ row'[s].external = row[s].external
<1> DEFINE x == [status |-> "PENDING", appt |-> a, time |-> dto, external |-> 0]
<1>1. row \in [Rows -> OutboxRow] /\ row[r].status = "none" /\ row' = [row EXCEPT ![r] = x]
  BY TypesSplit DEF OutboxIInv, StoreTypes, RecordOutbox
<1>2. x \in OutboxRow /\ x.status = "PENDING" /\ x.appt = a
  BY DEF OutboxRow, RowStates
<1> HIDE DEF x
<1>3. \A s \in Rows : row'[s] = IF s = r THEN x ELSE row[s]
  BY <1>1
<1> QED
  BY <1>1, <1>2, <1>3 DEF RowsGoOn

\* A row of the outbox gets another status, or another time; it is not marked.
LEMMA ChangedRow ==
    ASSUME OutboxIInv, UNCHANGED life, NEW r \in Rows, row[r].status # "none",
           NEW s \in RowStates \ {"none", "SYNCED"}, NEW t \in Dtos \cup {Nothing},
           row' = [row EXCEPT ![r].status = s, ![r].time = t]
    PROVE  /\ row' \in [Rows -> OutboxRow] /\ RowsGoOn
           /\ \A u \in Rows : row'[u].status = "SYNCED" =>
                  row[u].status = "SYNCED" /\ row'[u].external = row[u].external
<1> DEFINE x == [row[r] EXCEPT !.status = s, !.time = t]
<1>1. row \in [Rows -> OutboxRow]
  BY TypesSplit DEF OutboxIInv, StoreTypes
<1>2. row' = [row EXCEPT ![r] = x]
  BY <1>1
<1>3. x \in OutboxRow /\ x.status = s /\ x.appt = row[r].appt
  BY <1>1 DEF OutboxRow
<1> HIDE DEF x
<1>4. \A u \in Rows : row'[u] = IF u = r THEN x ELSE row[u]
  BY <1>1, <1>2
<1> QED
  BY <1>1, <1>3, <1>4 DEF RowsGoOn

\* Requests and rows move, batches and copies do not, and no mark is set.
LEMMA RequestsAndStores ==
    ASSUME OutboxIInv, StoreTypes', LifeGoesOn, RowsGoOn, UNCHANGED <<copy, proc, external>>,
           \A r \in Rows : row'[r].status = "SYNCED" =>
               row[r].status = "SYNCED" /\ row'[r].external = row[r].external,
           \A a \in Appointments : sync'[a] = sync[a] \/ (life[a] = "new" /\ sync'[a] # "SYNCED"),
           req' \in [Requests -> Request], \A r \in Requests : RequestTyped(req'[r]),
           (\A r \in Requests : RequestOK(r))'
    PROVE  OutboxIInv'
<1>1. GoesOn
  BY DEF GoesOn, CopiesGoOn
<1>2. SyncedWasSent'
  BY <1>1, MarksStay
<1> QED
  BY <1>1, <1>2, ProcessorsStay, Assemble

\* A query of a request in flight keeps the invariant.
LEMMA ContinueKeeps ==
    ASSUME OutboxIInv, NEW q \in Requests, Continue(q)
    PROVE  OutboxIInv'
<1> DEFINE r == req[q]
           a == r.appt
<1>1. StoreTypes
  BY TypesSplit DEF OutboxIInv
<1>2. r.pc # "idle"
  BY DEF Continue, CheckOverlap, Insert, Record, Link, Reset, Write, CheckOutbox,
         DropOutbox, Remove, SetPaused
<1>3. /\ RequestTyped(r) /\ a \in Appointments /\ (r.pc \in WithTime => r.dto \in Dtos)
      /\ r.outboxId \in {0} \cup Rows
      /\ IF r.pc \in Early THEN life[a] = "new" ELSE life[a] # "new"
  BY <1>2, InFlight
<1>4. UNCHANGED life => LifeGoesOn
  BY <1>1 DEF LifeGoesOn, StoreTypes
<1>5. UNCHANGED row => RowsGoOn
  BY DEF RowsGoOn
<1>6. ASSUME UNCHANGED life, Finish(q)
      PROVE  /\ req' \in [Requests -> Request]
             /\ \A s \in Requests : RequestTyped(req'[s])
             /\ (\A s \in Requests : RequestOK(s))'
  BY <1>4, <1>6, RequestEnds
<1>7. ASSUME UNCHANGED life, NEW label \in RequestPCs \ {"idle"}, NEW id \in {0} \cup Rows,
             label \in WithTime => r.dto \in Dtos,
             \/ req' = [req EXCEPT ![q].pc = label]
             \/ req' = [req EXCEPT ![q].pc = label, ![q].outboxId = id],
             label \in Early <=> r.pc \in Early
      PROVE  /\ req' \in [Requests -> Request]
             /\ \A s \in Requests : RequestTyped(req'[s])
             /\ (\A s \in Requests : RequestOK(s))'
  <2>1. req \in [Requests -> Request]
    BY TypesSplit DEF OutboxIInv
  <2>2. PICK x : /\ x \in {[r EXCEPT !.pc = label], [r EXCEPT !.pc = label, !.outboxId = id]}
                 /\ req' = [req EXCEPT ![q] = x]
    BY <1>7, <2>1
  <2>3. RequestTyped(x) /\ x.pc = label /\ x.appt = a
    <3> HIDE DEF r
    <3>1. label \in WithTime => r.dto \in Dtos
      BY <1>7
    <3>2. r \in Request /\ a \in Appointments
      BY <1>2, <1>3 DEF RequestTyped
    <3>3. x \in Request /\ x.pc = label /\ x.appt = a /\ x.dto = r.dto
      BY <2>2, <3>2 DEF Request
    <3> QED
      BY <3>1, <3>2, <3>3 DEF RequestTyped
  <2>4. x.pc \in Early => r.pc \in Early /\ life'[x.appt] = "new"
    BY <1>3, <1>7, <2>3
  <2>5. x.pc \notin Early => life'[x.appt] # "new"
    BY <1>3, <1>7, <2>3
  <2> QED
    BY <1>2, <1>4, <1>7, <2>2, <2>3, <2>4, <2>5, RequestGoesOn
<1>8. CASE CheckOverlap(q)
  <2>1. \/ Finish(q)
        \/ r.pc = "createOverlap" /\ Goto(q, "insert")
        \/ r.pc = "updateOverlap" /\ (Goto(q, "reset") \/ Goto(q, "write"))
    BY <1>8 DEF CheckOverlap
  <2>2. /\ UNCHANGED <<portal, row, copy, proc, count>> /\ UNCHANGED life
        /\ r.pc \in {"createOverlap", "updateOverlap"}
    BY <1>8 DEF CheckOverlap, portal
  <2>3. /\ req' \in [Requests -> Request]
        /\ \A s \in Requests : RequestTyped(req'[s])
        /\ (\A s \in Requests : RequestOK(s))'
    <3>1. ASSUME NEW label \in {"insert", "reset", "write"}, Goto(q, label),
                 label = "insert" <=> r.pc = "createOverlap"
          PROVE  <2>3
      <4>1. label \in RequestPCs \ {"idle"} /\ (label \in WithTime => r.dto \in Dtos)
        BY <1>3, <2>2 DEF RequestPCs, WithTime
      <4>2. label \in Early <=> r.pc \in Early
        BY <2>2, <3>1 DEF Early
      <4>3. req' = [req EXCEPT ![q].pc = label]
        BY <3>1 DEF Goto
      <4> QED
        BY <1>7, <2>2, <4>1, <4>2, <4>3
    <3> QED
      BY <1>6, <2>1, <2>2, <3>1
  <2> QED
    BY <1>1, <2>2, <2>3, OnlyRequests DEF StoreTypes
<1>9. CASE CheckOutbox(q)
  <2>1. PICK label \in {"remove", "dropOutbox"} : req' = [req EXCEPT ![q].pc = label]
    BY <1>9 DEF CheckOutbox, Goto
  <2>2. /\ UNCHANGED <<portal, row, copy, proc, count>> /\ UNCHANGED life
        /\ r.pc = "checkOutbox"
    BY <1>9 DEF CheckOutbox, portal
  <2>3. label \in RequestPCs \ {"idle"} /\ label \notin WithTime
        /\ label \notin Early /\ r.pc \notin Early
    BY <2>2 DEF RequestPCs, WithTime, Early
  <2>4. /\ req' \in [Requests -> Request]
        /\ \A s \in Requests : RequestTyped(req'[s])
        /\ (\A s \in Requests : RequestOK(s))'
    BY <1>7, <2>1, <2>2, <2>3
  <2> QED
    BY <1>1, <2>2, <2>4, OnlyRequests DEF StoreTypes
<1>10. CASE SetPaused(q)
  <2>1. /\ UNCHANGED <<life, time, sync, link, external, row, copy, proc, count>>
        /\ Finish(q) /\ paused' \in [Appointments -> BOOLEAN]
    BY <1>1, <1>10 DEF SetPaused, StoreTypes
  <2> QED
    BY <1>1, <1>4, <1>5, <1>6, <2>1, RequestsAndStores DEF StoreTypes
<1>11. CASE Link(q)
  <2>1. /\ UNCHANGED <<life, time, sync, paused, external, row, copy, proc, count>>
        /\ Finish(q) /\ link' \in [Appointments -> {0} \cup Rows]
    BY <1>1, <1>3, <1>11 DEF Link, StoreTypes
  <2> QED
    BY <1>1, <1>4, <1>5, <1>6, <2>1, RequestsAndStores DEF StoreTypes
<1>12. CASE Write(q)
  <2>1. r.dto \in Dtos
    BY <1>3, <1>12 DEF Write, WithTime
  <2>2. /\ UNCHANGED <<life, sync, external, row, copy, proc, count>> /\ Finish(q)
    BY <1>12 DEF Write
  <2>3. StoreTypes'
    BY <1>1, <1>3, <1>12, <2>1 DEF Write, StoreTypes
  <2> QED
    BY <1>4, <1>5, <1>6, <2>2, <2>3, RequestsAndStores
<1>13. CASE Remove(q)
  <2>1. /\ UNCHANGED <<time, sync, paused, link, external, row, copy, proc, count>>
        /\ Finish(q)
        /\ life' = IF life[a] = "present" THEN [life EXCEPT ![a] = "deleted"] ELSE life
    BY <1>13 DEF Remove, Present
  <2>2. \A b \in Appointments :
            life'[b] = IF b = a /\ life[a] = "present" THEN "deleted" ELSE life[b]
    BY <1>1, <1>3, <2>1 DEF StoreTypes
  <2>3. StoreTypes'
    BY <1>1, <1>3, <2>1, <2>2 DEF StoreTypes
  <2>4. LifeGoesOn /\ \A b \in Appointments : life[b] = "new" => life'[b] = "new"
    BY <1>1, <2>2 DEF LifeGoesOn, StoreTypes
  <2>5. /\ req' \in [Requests -> Request]
        /\ \A s \in Requests : RequestTyped(req'[s])
        /\ (\A s \in Requests : RequestOK(s))'
    BY <2>1, <2>4, RequestEnds
  <2> QED
    BY <1>5, <2>1, <2>3, <2>4, <2>5, RequestsAndStores
<1>14. CASE DropOutbox(q)
  <2>1. /\ UNCHANGED <<life, time, sync, paused, external, copy, proc, count>>
        /\ req' = [req EXCEPT ![q].pc = "remove"] /\ r.pc = "dropOutbox"
    BY <1>14 DEF DropOutbox, Goto
  <2>2. /\ row' \in [Rows -> OutboxRow] /\ RowsGoOn
        /\ \A s \in Rows : row'[s].status = "SYNCED" =>
               row[s].status = "SYNCED" /\ row'[s].external = row[s].external
    <3>1. CASE Exists(r.outboxId)
      <4> DEFINE id == r.outboxId
      <4>1. id \in Rows /\ row[id].status # "none" /\ row[id].time \in Dtos \cup {Nothing}
        BY <1>1, <3>1 DEF Exists, StoreTypes, OutboxRow
      <4>2. row' = [row EXCEPT ![id].status = "deleted", ![id].time = row[id].time]
        <5>1. row' = [row EXCEPT ![id].status = "deleted"] /\ row[id] \in OutboxRow
          BY <1>1, <1>14, <3>1, <4>1 DEF DropOutbox, StoreTypes
        <5>2. [row[id] EXCEPT !.status = "deleted"]
                = [[row[id] EXCEPT !.status = "deleted"] EXCEPT !.time = row[id].time]
          BY <5>1 DEF OutboxRow
        <5> QED
          BY <1>1, <4>1, <5>1, <5>2 DEF StoreTypes
      <4>3. "deleted" \in RowStates \ {"none", "SYNCED"}
        BY DEF RowStates
      <4> HIDE DEF id
      <4> QED
        BY <2>1, <4>1, <4>2, <4>3, ChangedRow
    <3>2. CASE ~ Exists(r.outboxId)
      BY <1>1, <1>5, <1>14, <3>2 DEF DropOutbox, StoreTypes
    <3> QED
      BY <3>1, <3>2
  <2>3. StoreTypes'
    BY <1>1, <1>14, <2>1, <2>2 DEF DropOutbox, StoreTypes
  <2>4. "remove" \in RequestPCs \ {"idle"} /\ "remove" \notin WithTime
        /\ "remove" \notin Early /\ r.pc \notin Early
    BY <2>1 DEF RequestPCs, WithTime, Early
  <2>5. /\ req' \in [Requests -> Request]
        /\ \A s \in Requests : RequestTyped(req'[s])
        /\ (\A s \in Requests : RequestOK(s))'
    BY <1>7, <2>1, <2>4
  <2> QED
    BY <1>4, <2>1, <2>2, <2>3, <2>5, RequestsAndStores
<1>15. CASE Record(q)
  <2>1. PICK id \in Rows : /\ RecordOutbox(id, a, r.dto)
                           /\ req' = [req EXCEPT ![q].pc = "link", ![q].outboxId = id]
    BY <1>15 DEF Record
  <2>2. /\ UNCHANGED <<life, time, sync, paused, link, external, copy, proc, count>>
        /\ r.pc = "record"
    BY <1>15 DEF Record, portal
  <2>3. /\ "link" \in RequestPCs \ {"idle"} /\ "link" \notin WithTime
        /\ "link" \notin Early /\ r.pc \notin Early /\ r.pc \in WithTime
    BY <2>2 DEF RequestPCs, WithTime, Early
  <2>4. /\ row' \in [Rows -> OutboxRow] /\ RowsGoOn
        /\ \A s \in Rows : row'[s].status = "SYNCED" =>
               row[s].status = "SYNCED" /\ row'[s].external = row[s].external
    BY <1>3, <2>1, <2>2, <2>3, RecordedRow
  <2>5. /\ req' \in [Requests -> Request]
        /\ \A s \in Requests : RequestTyped(req'[s])
        /\ (\A s \in Requests : RequestOK(s))'
    BY <1>7, <2>1, <2>2, <2>3
  <2> QED
    BY <1>1, <1>4, <2>2, <2>4, <2>5, RequestsAndStores DEF StoreTypes
<1>16. CASE Reset(q)
  <2>1. /\ UNCHANGED <<life, time, sync, paused, link, external, copy, proc, count>>
        /\ r.pc = "reset"
    BY <1>16 DEF Reset, portal
  <2>2. /\ "write" \in RequestPCs \ {"idle"} /\ "write" \in WithTime
        /\ "write" \notin Early /\ r.pc \notin Early /\ r.dto \in Dtos
    BY <1>3, <2>1 DEF RequestPCs, WithTime, Early
  <2>3. CASE r.outboxId # 0 /\ Exists(r.outboxId)
    <3> DEFINE id == r.outboxId
    <3>1. /\ row' = [row EXCEPT ![id].status = "PENDING", ![id].time = r.dto]
          /\ req' = [req EXCEPT ![q].pc = "write"]
      BY <1>16, <2>3 DEF Reset, Goto
    <3>2. id \in Rows /\ row[id].status # "none"
      BY <2>3 DEF Exists
    <3>3. "PENDING" \in RowStates \ {"none", "SYNCED"}
      BY DEF RowStates
    <3>4. /\ row' \in [Rows -> OutboxRow] /\ RowsGoOn
          /\ \A s \in Rows : row'[s].status = "SYNCED" =>
                 row[s].status = "SYNCED" /\ row'[s].external = row[s].external
      <4> HIDE DEF id
      <4> QED
        BY <2>1, <2>2, <3>1, <3>2, <3>3, ChangedRow
    <3>5. /\ req' \in [Requests -> Request]
          /\ \A s \in Requests : RequestTyped(req'[s])
          /\ (\A s \in Requests : RequestOK(s))'
      BY <1>7, <2>1, <2>2, <3>1
    <3> QED
      BY <1>1, <1>4, <2>1, <3>4, <3>5, RequestsAndStores DEF StoreTypes
  <2>4. CASE r.outboxId # 0 /\ ~ Exists(r.outboxId)
    <3>1. Finish(q) /\ UNCHANGED row
      BY <1>16, <2>4 DEF Reset
    <3> QED
      BY <1>1, <1>4, <1>5, <1>6, <2>1, <3>1, RequestsAndStores DEF StoreTypes
  <2>5. CASE r.outboxId = 0
    <3>1. PICK id \in Rows :
              /\ RecordOutbox(id, a, r.dto)
              /\ req' = [req EXCEPT ![q].pc = "write", ![q].outboxId = id]
      BY <1>16, <2>5 DEF Reset
    <3>2. /\ row' \in [Rows -> OutboxRow] /\ RowsGoOn
          /\ \A s \in Rows : row'[s].status = "SYNCED" =>
                 row[s].status = "SYNCED" /\ row'[s].external = row[s].external
      BY <1>3, <2>1, <2>2, <3>1, RecordedRow
    <3>3. /\ req' \in [Requests -> Request]
          /\ \A s \in Requests : RequestTyped(req'[s])
          /\ (\A s \in Requests : RequestOK(s))'
      BY <1>7, <2>1, <2>2, <3>1
    <3> QED
      BY <1>1, <1>4, <2>1, <3>2, <3>3, RequestsAndStores DEF StoreTypes
  <2> QED
    BY <2>3, <2>4, <2>5
<1>17. CASE Insert(q)
  <2>1. /\ UNCHANGED <<paused, link, external, row, copy, proc, count>>
        /\ r.pc = "insert" /\ life' = [life EXCEPT ![a] = "present"]
        /\ time' = [time EXCEPT ![a] = r.dto]
        /\ \/ /\ sync' = [sync EXCEPT ![a] = "PENDING_TIFLUX"]
              /\ req' = [req EXCEPT ![q].pc = "record"]
           \/ UNCHANGED sync /\ Finish(q)
    BY <1>17 DEF Insert, Goto
  <2>2. life[a] = "new" /\ r.dto \in Dtos
    BY <1>3, <2>1 DEF Early, WithTime
  <2>3. \A b \in Appointments : life'[b] = IF b = a THEN "present" ELSE life[b]
    BY <1>1, <1>3, <2>1 DEF StoreTypes
  <2>4. \A b \in Appointments : time'[b] = IF b = a THEN r.dto ELSE time[b]
    BY <1>1, <1>3, <2>1 DEF StoreTypes
  <2>5. /\ sync' \in [Appointments -> SyncStates]
        /\ \A b \in Appointments : sync'[b] = sync[b] \/ (life[b] = "new" /\ sync'[b] # "SYNCED")
    BY <1>1, <1>3, <2>1, <2>2 DEF StoreTypes, SyncStates
  <2>6. StoreTypes'
    BY <1>1, <1>3, <2>1, <2>2, <2>3, <2>4, <2>5 DEF StoreTypes
  <2>7. /\ LifeGoesOn
        /\ \A b \in Appointments : life[b] = "new" =>
               life'[b] = "new" \/ (req[q].pc = "insert" /\ b = req[q].appt)
    BY <1>1, <2>1, <2>2, <2>3 DEF LifeGoesOn, StoreTypes
  <2>8. /\ req' \in [Requests -> Request]
        /\ \A s \in Requests : RequestTyped(req'[s])
        /\ (\A s \in Requests : RequestOK(s))'
    <3>1. CASE Finish(q)
      BY <2>7, <3>1, RequestEnds
    <3>2. CASE req' = [req EXCEPT ![q].pc = "record"]
      <4> DEFINE x == [r EXCEPT !.pc = "record"]
      <4>1. req' = [req EXCEPT ![q] = x] /\ r \in Request
        BY <1>3, <3>2, TypesSplit DEF OutboxIInv, RequestTyped
      <4>2. x \in Request /\ x.pc = "record" /\ x.appt = a /\ x.dto = r.dto
        BY <4>1 DEF Request, RequestPCs
      <4> HIDE DEF x
      <4>3. RequestTyped(x) /\ x.pc \notin Early
        BY <1>3, <2>2, <4>2 DEF RequestTyped, Early
      <4>4. life'[x.appt] # "new"
        BY <1>3, <2>3, <4>2
      <4> QED
        BY <1>2, <2>7, <4>1, <4>2, <4>3, <4>4, RequestGoesOn
    <3> QED
      BY <2>1, <3>1, <3>2
  <2>9. RowsGoOn
    BY <2>1 DEF RowsGoOn
  <2> QED
    BY <2>1, <2>5, <2>6, <2>7, <2>8, <2>9, RequestsAndStores
<1> QED
  BY <1>8, <1>9, <1>10, <1>11, <1>12, <1>13, <1>14, <1>15, <1>16, <1>17 DEF Continue

-----------------------------------------------------------------------------
(* The steps of the batches.                                                  *)

\* Batches and copies move, the rest stays.
LEMMA OnlyBatches ==
    ASSUME OutboxIInv, UNCHANGED <<portal, row, req>>, count' \in Counters,
           copy' \in [Copies -> Copy], CopiesGoOn,
           proc' \in [Processors -> Processor], \A s \in Processors : ProcessorTyped(proc'[s]),
           (\A s \in Processors : ProcessorOK(s))'
    PROVE  OutboxIInv'
<1>1. StoreTypes'
  BY TypesSplit DEF OutboxIInv, StoreTypes, portal
<1>2. GoesOn
  BY TypesSplit DEF OutboxIInv, StoreTypes, GoesOn, LifeGoesOn, RowsGoOn, portal
<1>3. SyncedWasSent'
  BY <1>1, <1>2, MarksStay DEF portal
<1> QED
  BY <1>1, <1>2, <1>3, RequestsStay, Assemble DEF portal

\* A batch moves that leaves everything else as it is, but for a count.
LEMMA BatchMoves ==
    ASSUME OutboxIInv, UNCHANGED <<portal, row, copy, req>>, count' \in Counters,
           NEW p \in Processors, NEW x, ProcessorTyped(x), Become(p, x),
           x.pc \in HasRow => row[x.row].status # "none",
           x.pc = "commit" => x.external \in Copies /\ copy[x.external].row = x.row
    PROVE  OutboxIInv'
<1>1. GoesOn
  BY TypesSplit DEF OutboxIInv, StoreTypes, GoesOn, LifeGoesOn, RowsGoOn, CopiesGoOn, portal
<1>2. proc' = [proc EXCEPT ![p] = x]
  BY DEF Become
<1>3. /\ proc' \in [Processors -> Processor]
      /\ \A s \in Processors : ProcessorTyped(proc'[s])
      /\ (\A s \in Processors : ProcessorOK(s))'
  BY <1>1, <1>2, ProcessorMoves
<1>4. copy' \in [Copies -> Copy] /\ CopiesGoOn
  BY <1>1, TypesSplit DEF OutboxIInv, StoreTypes, GoesOn
<1> QED
  BY <1>3, <1>4, OnlyBatches

\* A batch between two rows holds none.
LEMMA BetweenRows ==
    ASSUME NEW batch \in SUBSET Rows, NEW label \in {"requeue", "start", "next"},
           NEW x, x = [IdleProcessor EXCEPT !.pc = label, !.batch = batch]
    PROVE  ProcessorTyped(x) /\ x.pc = label /\ x.pc \notin HasRow /\ x.pc # "commit"
  BY DEF IdleProcessor, ProcessorTyped, Processor, ProcessorPCs, HasRow

LEMMA WithoutTyped ==
    ASSUME OutboxIInv, NEW p \in Processors, NEW r
    PROVE  ProcessorTyped(Without(p, r)) /\ Without(p, r).pc \notin HasRow
           /\ Without(p, r).pc # "commit"
<1> DEFINE rest == proc[p].batch \ {r}
           x == [IdleProcessor EXCEPT !.pc = "next", !.batch = rest]
<1>1. rest \in SUBSET Rows
  BY TypesSplit DEF OutboxIInv, ProcessorTyped, Processor
<1>2. ProcessorTyped(x) /\ x.pc = "next"
  <2> HIDE DEF rest
  <2> QED
    BY <1>1, BetweenRows
<1>3. ProcessorTyped(IdleProcessor) /\ IdleProcessor.pc = "idle"
  BY IdleTyped
<1>4. Without(p, r) = IF rest = {} THEN IdleProcessor ELSE x
  BY DEF Without
<1> HIDE DEF x
<1> QED
  BY <1>2, <1>3, <1>4 DEF HasRow

\* The batch with a row goes to another label.
LEMMA WithRow ==
    ASSUME OutboxIInv, NEW p \in Processors, proc[p].pc \in HasRow,
           NEW label \in {"send", "markFailed"},
           NEW x, x = [proc[p] EXCEPT !.pc = label]
    PROVE  /\ ProcessorTyped(x) /\ x.pc = label /\ x.row = proc[p].row
           /\ proc[p].row \in Rows /\ row[proc[p].row].status # "none"
<1>1. proc[p] \in Processor /\ proc[p].row \in Rows /\ row[proc[p].row].status # "none"
  BY TypesSplit DEF OutboxIInv, ProcessorTyped, ProcessorOK
<1>2. x \in Processor /\ x.pc = label /\ x.row = proc[p].row
  BY <1>1 DEF Processor, ProcessorPCs
<1> QED
  BY <1>1, <1>2 DEF ProcessorTyped

\* A copy is made for the row of a batch.
LEMMA MadeCopy ==
    ASSUME OutboxIInv, NEW p \in Processors, proc[p].pc = "send", NEW c \in Copies, MakeCopy(p, c)
    PROVE  copy' \in [Copies -> Copy] /\ CopiesGoOn /\ copy'[c].row = proc[p].row
           /\ copy[c].row = 0 /\ proc[p].row \in Rows /\ row[proc[p].row].status # "none"
           /\ \A d \in Copies \ {c} : copy'[d] = copy[d]
<1>1. copy \in [Copies -> Copy] /\ proc[p] \in Processor
  BY TypesSplit DEF OutboxIInv, StoreTypes
<1>2. proc[p].row \in Rows /\ row[proc[p].row].status # "none"
  BY DEF OutboxIInv, ProcessorOK, HasRow
<1> DEFINE x == [row |-> proc[p].row, time |-> proc[p].time]
<1>3. x \in Copy /\ x.row = proc[p].row
  BY <1>1, <1>2 DEF Copy, Processor
<1>4. copy' = [copy EXCEPT ![c] = x] /\ copy[c].row = 0
  BY DEF MakeCopy
<1> HIDE DEF x
<1>5. \A d \in Copies : copy'[d] = IF d = c THEN x ELSE copy[d]
  BY <1>1, <1>4
<1> QED
  BY <1>1, <1>2, <1>3, <1>4, <1>5 DEF CopiesGoOn

\* Rows and batches move, but no mark is set.
LEMMA BatchAndRows ==
    ASSUME OutboxIInv, UNCHANGED <<portal, copy, req, count>>,
           row' \in [Rows -> OutboxRow], RowsGoOn,
           \A r \in Rows : row'[r].status = "SYNCED" =>
               row[r].status = "SYNCED" /\ row'[r].external = row[r].external,
           NEW p \in Processors, NEW x, ProcessorTyped(x), Become(p, x), x.pc \notin HasRow
    PROVE  OutboxIInv'
<1>1. GoesOn
  BY TypesSplit DEF OutboxIInv, StoreTypes, GoesOn, LifeGoesOn, CopiesGoOn, portal
<1>2. StoreTypes'
  BY TypesSplit DEF OutboxIInv, StoreTypes, portal
<1>3. SyncedWasSent'
  BY <1>1, <1>2, MarksStay DEF portal
<1>4. proc' = [proc EXCEPT ![p] = x] /\ x.pc # "commit"
  BY DEF Become, HasRow
<1>5. /\ proc' \in [Processors -> Processor]
      /\ \A s \in Processors : ProcessorTyped(proc'[s])
      /\ (\A s \in Processors : ProcessorOK(s))'
  BY <1>1, <1>4, ProcessorMoves
<1> QED
  BY <1>1, <1>2, <1>3, <1>5, RequestsStay, Assemble DEF portal

\* The transaction marks the row and its appointment, with the copy of the batch.
LEMMA CommitKeeps ==
    ASSUME OutboxIInv, NEW p \in Processors, Commit(p), Exists(proc[p].row)
    PROVE  OutboxIInv'
<1> DEFINE r == proc[p].row
           c == proc[p].external
           a == row[r].appt
<1>1. StoreTypes
  BY TypesSplit DEF OutboxIInv
<1>2. /\ r \in Rows /\ c \in Copies /\ copy[c].row = r /\ c # 0 /\ row[r].status # "none"
      /\ a \in Appointments /\ r # 0
  BY DEF Commit, OutboxIInv, ProcessorOK, HasRow, Copies, Rows, RowOK
<1>3. /\ row' = [row EXCEPT ![r] = Committed(r, c)]
      /\ sync' = [b \in Appointments |->
                     IF b \in CommittedAppointments(r) THEN "SYNCED" ELSE sync[b]]
      /\ external' = [b \in Appointments |->
                         IF b \in CommittedAppointments(r) THEN c ELSE external[b]]
      /\ Become(p, Without(p, r))
      /\ UNCHANGED <<life, time, paused, link, copy, req, count>>
  BY DEF Commit
<1>4. \A b \in Appointments : b \in CommittedAppointments(r) <=> b = a /\ life[a] = "present"
  BY <1>2 DEF CommittedAppointments, Present
<1>5. /\ Committed(r, c) \in OutboxRow /\ Committed(r, c).status = "SYNCED"
      /\ Committed(r, c).external = c /\ Committed(r, c).appt = a
  BY <1>1, <1>2 DEF Committed, StoreTypes, OutboxRow, RowStates
<1>6. \A s \in Rows : row'[s] = IF s = r THEN Committed(r, c) ELSE row[s]
  BY <1>1, <1>3 DEF StoreTypes
<1>7. row' \in [Rows -> OutboxRow] /\ RowsGoOn
  BY <1>1, <1>2, <1>3, <1>5, <1>6 DEF RowsGoOn, StoreTypes
<1>8. GoesOn
  BY <1>1, <1>3, <1>7 DEF GoesOn, LifeGoesOn, CopiesGoOn, StoreTypes
<1>9. \A b \in Appointments :
          /\ sync'[b] = IF b = a /\ life[a] = "present" THEN "SYNCED" ELSE sync[b]
          /\ external'[b] = IF b = a /\ life[a] = "present" THEN c ELSE external[b]
  BY <1>3, <1>4
<1>10. StoreTypes'
  <2>1. /\ sync' \in [Appointments -> SyncStates]
        /\ external' \in [Appointments -> {0} \cup Copies]
    BY <1>1, <1>2, <1>3 DEF StoreTypes, SyncStates
  <2> QED
    BY <1>1, <1>3, <1>7, <2>1 DEF StoreTypes
<1> HIDE DEF r, c, a
<1>11. ASSUME NEW s \in Rows, row'[s].status = "SYNCED"
       PROVE  /\ row'[s].external # 0 /\ copy'[row'[s].external].row = s
              /\ life'[row'[s].appt] = "present" => sync'[row'[s].appt] = "SYNCED"
  <2>1. CASE s = r
    BY <1>2, <1>3, <1>5, <1>6, <1>9, <2>1
  <2>2. CASE s # r
    <3>1. row'[s] = row[s] /\ row[s].status = "SYNCED"
      BY <1>6, <1>11, <2>2
    <3>2. /\ row[s].external # 0 /\ copy[row[s].external].row = s
          /\ row[s].appt \in Appointments
          /\ life[row[s].appt] = "present" => sync[row[s].appt] = "SYNCED"
      BY <3>1 DEF OutboxIInv, SyncedWasSent, RowOK, Present
    <3> QED
      BY <1>3, <1>9, <3>1, <3>2
  <2> QED
    BY <2>1, <2>2
<1>12. ASSUME NEW b \in Appointments, sync'[b] = "SYNCED"
       PROVE  external'[b] # 0 /\ external'[b] \in CopiesOf(b)'
  <2>1. CASE b = a /\ life[a] = "present"
    BY <1>2, <1>3, <1>5, <1>6, <1>9, <2>1 DEF CopiesOf
  <2>2. CASE ~(b = a /\ life[a] = "present")
    <3> DEFINE d == external[b]
    <3>1. external'[b] = d /\ sync[b] = "SYNCED"
      BY <1>9, <1>12, <2>2
    <3>2. d # 0 /\ d \in Copies /\ copy[d].row # 0 /\ row[copy[d].row].appt = b
      BY <3>1 DEF OutboxIInv, SyncedWasSent, CopiesOf
    <3>3. copy[d].row \in Rows
      BY <1>1, <3>2 DEF StoreTypes, Copy
    <3>4. copy'[d] = copy[d] /\ row'[copy[d].row].appt = b
      BY <1>3, <1>5, <1>6, <3>2, <3>3 DEF a
    <3> QED
      BY <3>1, <3>2, <3>4 DEF CopiesOf
  <2> QED
    BY <2>1, <2>2
<1>13. SyncedWasSent'
  BY <1>11, <1>12 DEF SyncedWasSent, Present
<1>14. /\ proc' \in [Processors -> Processor]
       /\ \A s \in Processors : ProcessorTyped(proc'[s])
       /\ (\A s \in Processors : ProcessorOK(s))'
  BY <1>3, <1>8, WithoutTyped, ProcessorMoves DEF Become
<1> QED
  BY <1>3, <1>8, <1>10, <1>13, <1>14, RequestsStay, Assemble

\* What a processor does keeps the invariant.
LEMMA WorkKeeps ==
    ASSUME OutboxIInv, NEW p \in Processors,
           Work(p) \/ BeginRetry(p) \/ SendAgain(p) \/ SendFails(p) \/ CommitFails(p)
    PROVE  OutboxIInv'
<1>1. StoreTypes /\ proc \in [Processors -> Processor] /\ ProcessorTyped(proc[p])
  BY TypesSplit DEF OutboxIInv
<1>2. CASE BeginRetry(p)
  <2> DEFINE batch == WithStatus("FAILED")
             x == [IdleProcessor EXCEPT !.pc = "requeue", !.batch = batch]
  <2>1. batch \in SUBSET Rows
    BY DEF WithStatus
  <2>2. Become(p, x) /\ UNCHANGED <<portal, row, copy, req, count>>
    BY <1>2 DEF BeginRetry
  <2>3. ProcessorTyped(x) /\ x.pc \notin HasRow /\ x.pc # "commit"
    <3> HIDE DEF batch
    <3> QED
      BY <2>1, BetweenRows
  <2> HIDE DEF x
  <2> QED
    BY <1>1, <2>2, <2>3, BatchMoves DEF StoreTypes
<1>3. CASE Requeue(p)
  <2> DEFINE batch == {}
             x == [IdleProcessor EXCEPT !.pc = "start"]
             again == {r \in Rows : r \in proc[p].batch /\ Exists(r)}
  <2>1. ProcessorTyped(x) /\ x.pc \notin HasRow
    BY DEF IdleProcessor, ProcessorTyped, Processor, ProcessorPCs, HasRow
  <2>2. /\ Become(p, x) /\ UNCHANGED <<portal, copy, req, count>>
        /\ row' = [r \in Rows |-> IF r \in again
                                  THEN [row[r] EXCEPT !.status = "PENDING"] ELSE row[r]]
    BY <1>3 DEF Requeue
  <2> HIDE DEF x
  <2>3. ASSUME NEW r \in Rows
        PROVE  /\ row'[r] \in OutboxRow /\ row'[r].appt = row[r].appt
               /\ row'[r].external = row[r].external
               /\ (row'[r].status = "none") = (row[r].status = "none")
               /\ row'[r].status = "SYNCED" => row[r].status = "SYNCED"
    <3>1. row[r] \in OutboxRow
      BY <1>1 DEF StoreTypes
    <3>2. CASE r \in again
      <4>1. row'[r] = [row[r] EXCEPT !.status = "PENDING"]
        BY <2>2, <3>2
      <4>2. row[r].status # "none"
        BY <3>2 DEF Exists
      <4> QED
        BY <3>1, <4>1, <4>2 DEF OutboxRow, RowStates
    <3>3. CASE r \notin again
      BY <2>2, <3>1, <3>3
    <3> QED
      BY <3>2, <3>3
  <2>4. row' \in [Rows -> OutboxRow] /\ RowsGoOn
    <3>1. row' \in [Rows -> OutboxRow]
      BY <2>2, <2>3
    <3> QED
      BY <2>3, <3>1 DEF RowsGoOn
  <2> QED
    BY <2>1, <2>2, <2>3, <2>4, BatchAndRows
<1>4. CASE StartBatch(p)
  <2> DEFINE batch == Oldest(BatchLimit, WithStatus("PENDING"))
             y == [IdleProcessor EXCEPT !.pc = "next", !.batch = batch]
             x == IF batch = {} THEN IdleProcessor ELSE y
  <2>1. batch \in SUBSET Rows
    BY DEF WithStatus, Oldest
  <2>2. Become(p, x) /\ UNCHANGED <<portal, row, copy, req, count>>
    BY <1>4 DEF StartBatch
  <2>3. ProcessorTyped(y) /\ y.pc \notin HasRow /\ y.pc # "commit"
    <3> HIDE DEF batch
    <3> QED
      BY <2>1, BetweenRows
  <2>4. ProcessorTyped(x) /\ x.pc \notin HasRow /\ x.pc # "commit"
    <3> HIDE DEF y
    <3> QED
      BY <2>3, IdleTyped DEF HasRow
  <2> HIDE DEF x
  <2> QED
    BY <1>1, <2>2, <2>4, BatchMoves DEF StoreTypes
<1>5. CASE TakeNext(p)
  <2>1. PICK r \in proc[p].batch :
            Become(p, IF row[r].status = "PENDING" THEN Taken(p, r) ELSE Without(p, r))
    BY <1>5 DEF TakeNext, Oldest
  <2>2. UNCHANGED <<portal, row, copy, req, count>> /\ r \in Rows
    BY <1>1, <1>5 DEF TakeNext, ProcessorTyped, Processor
  <2>3. CASE row[r].status = "PENDING"
    <3> DEFINE x == Taken(p, r)
    <3>1. Become(p, x)
      BY <2>1, <2>3
    <3>2. x \in Processor /\ x.pc = "pauseCheck" /\ x.row = r
      BY <1>1, <2>2 DEF Taken, ProcessorTyped, Processor, ProcessorPCs, StoreTypes, OutboxRow
    <3>3. ProcessorTyped(x)
      BY <2>2, <3>2 DEF ProcessorTyped
    <3> HIDE DEF x
    <3> QED
      BY <1>1, <2>2, <2>3, <3>1, <3>2, <3>3, BatchMoves DEF StoreTypes
  <2>4. CASE row[r].status # "PENDING"
    BY <1>1, <2>1, <2>2, <2>4, WithoutTyped, BatchMoves DEF StoreTypes
  <2> QED
    BY <2>3, <2>4
<1>6. CASE CheckPaused(p)
  <2>1. UNCHANGED <<portal, row, copy, req, count>> /\ proc[p].pc \in HasRow
    BY <1>6 DEF CheckPaused, HasRow
  <2>2. CASE IsPaused(proc[p].row)
    <3>1. Become(p, Without(p, proc[p].row))
      BY <1>6, <2>2 DEF CheckPaused, AfterPaused
    <3> QED
      BY <1>1, <2>1, <3>1, WithoutTyped, BatchMoves DEF StoreTypes
  <2>3. CASE ~ IsPaused(proc[p].row)
    <3> DEFINE x == [proc[p] EXCEPT !.pc = "send"]
    <3>1. Become(p, x)
      BY <1>6, <2>3 DEF CheckPaused
    <3>2. /\ ProcessorTyped(x) /\ x.pc = "send" /\ x.row = proc[p].row
          /\ row[proc[p].row].status # "none"
      BY <2>1, WithRow
    <3> HIDE DEF x
    <3> QED
      BY <1>1, <2>1, <3>1, <3>2, BatchMoves DEF StoreTypes
  <2> QED
    BY <2>2, <2>3
<1>7. CASE Send(p)
  <2>1. PICK c \in Copies :
            MakeCopy(p, c) /\ Become(p, [proc[p] EXCEPT !.pc = "commit", !.external = c])
    BY <1>7 DEF Send
  <2> DEFINE x == [proc[p] EXCEPT !.pc = "commit", !.external = c]
  <2>2. UNCHANGED <<portal, row, req, count>> /\ proc[p].pc = "send" /\ proc[p].pc \in HasRow
    BY <1>7 DEF Send, HasRow
  <2>3. copy' \in [Copies -> Copy] /\ CopiesGoOn /\ copy'[c].row = proc[p].row
    BY <2>1, <2>2, MadeCopy
  <2>4. /\ ProcessorTyped(x) /\ x.pc = "commit" /\ x.row = proc[p].row
        /\ row[proc[p].row].status # "none"
    <3>1. proc[p].row \in Rows /\ row[proc[p].row].status # "none"
      BY <2>2 DEF OutboxIInv, ProcessorOK
    <3>2. x \in Processor /\ x.pc = "commit" /\ x.row = proc[p].row
      BY <1>1 DEF ProcessorTyped, Processor, ProcessorPCs
    <3> QED
      BY <3>1, <3>2 DEF ProcessorTyped
  <2>5. x.external = c
    BY <1>1 DEF ProcessorTyped, Processor
  <2>6. GoesOn
    BY <1>1, <2>2, <2>3 DEF GoesOn, LifeGoesOn, RowsGoOn, portal, StoreTypes
  <2>7. proc' = [proc EXCEPT ![p] = x]
    BY <2>1 DEF Become
  <2> HIDE DEF x
  <2>8. /\ proc' \in [Processors -> Processor]
        /\ \A s \in Processors : ProcessorTyped(proc'[s])
        /\ (\A s \in Processors : ProcessorOK(s))'
    BY <2>2, <2>3, <2>4, <2>5, <2>6, <2>7, ProcessorMoves
  <2> QED
    BY <1>1, <2>2, <2>3, <2>8, OnlyBatches DEF StoreTypes
<1>8. CASE SendAgain(p)
  <2>1. PICK c \in Copies : MakeCopy(p, c)
    BY <1>8 DEF SendAgain
  <2>2. UNCHANGED <<portal, row, req, proc>> /\ proc[p].pc = "send" /\ count' \in Counters
    BY <1>8, CountTyped DEF SendAgain
  <2>3. copy' \in [Copies -> Copy] /\ CopiesGoOn
    BY <2>1, <2>2, MadeCopy
  <2>4. GoesOn
    BY <1>1, <2>2, <2>3 DEF GoesOn, LifeGoesOn, RowsGoOn, portal, StoreTypes
  <2> QED
    BY <2>2, <2>3, <2>4, ProcessorsStay, OnlyBatches
<1>9. CASE SendFails(p)
  <2> DEFINE x == [proc[p] EXCEPT !.pc = "markFailed"]
  <2>1. UNCHANGED <<portal, row, req>> /\ proc[p].pc = "send" /\ proc[p].pc \in HasRow
        /\ count' \in Counters /\ proc' = [proc EXCEPT ![p] = x]
    BY <1>9, CountTyped DEF SendFails, Become, AfterFailedCall, HasRow
  <2>2. copy' \in [Copies -> Copy] /\ CopiesGoOn
    <3>1. CASE UNCHANGED copy
      BY <1>1, <3>1 DEF StoreTypes, CopiesGoOn
    <3>2. ASSUME NEW c \in Copies, MakeCopy(p, c) PROVE <2>2
      BY <2>1, <3>2, MadeCopy
    <3> QED
      BY <1>9, <3>1, <3>2 DEF SendFails
  <2>3. /\ ProcessorTyped(x) /\ x.pc = "markFailed" /\ x.row = proc[p].row
        /\ row[proc[p].row].status # "none"
    BY <2>1, WithRow
  <2>4. GoesOn
    BY <1>1, <2>1, <2>2 DEF GoesOn, LifeGoesOn, RowsGoOn, portal, StoreTypes
  <2> HIDE DEF x
  <2>5. /\ proc' \in [Processors -> Processor]
        /\ \A s \in Processors : ProcessorTyped(proc'[s])
        /\ (\A s \in Processors : ProcessorOK(s))'
    BY <2>1, <2>3, <2>4, ProcessorMoves
  <2> QED
    BY <2>1, <2>2, <2>5, OnlyBatches
<1>10. CASE CommitFails(p) \/ (Commit(p) /\ ~ Exists(proc[p].row))
  <2> DEFINE x == [proc[p] EXCEPT !.pc = "markFailed"]
  <2>1. /\ UNCHANGED <<portal, row, copy, req>> /\ proc[p].pc \in HasRow
        /\ count' \in Counters /\ Become(p, x)
    BY <1>1, <1>10, CountTyped DEF CommitFails, Commit, HasRow, portal, StoreTypes
  <2>2. /\ ProcessorTyped(x) /\ x.pc = "markFailed" /\ x.row = proc[p].row
        /\ row[proc[p].row].status # "none"
    BY <2>1, WithRow
  <2> HIDE DEF x
  <2> QED
    BY <2>1, <2>2, BatchMoves
<1>11. CASE MarkFailed(p)
  <2> DEFINE r == proc[p].row
  <2>1. UNCHANGED <<portal, copy, req, count>> /\ proc[p].pc \in HasRow
    BY <1>11 DEF MarkFailed, HasRow
  <2>2. CASE Exists(r)
    <3>1. row' = [row EXCEPT ![r].status = "FAILED"] /\ Become(p, Without(p, r))
      BY <1>11, <2>2 DEF MarkFailed
    <3>2. r \in Rows /\ row[r] \in OutboxRow /\ row[r].status # "none"
      BY <1>1, <2>2 DEF Exists, StoreTypes
    <3>3. row' = [row EXCEPT ![r].status = "FAILED", ![r].time = row[r].time]
      <4>1. [row[r] EXCEPT !.status = "FAILED"]
              = [[row[r] EXCEPT !.status = "FAILED"] EXCEPT !.time = row[r].time]
        BY <3>2 DEF OutboxRow
      <4> QED
        BY <1>1, <3>1, <3>2, <4>1 DEF StoreTypes
    <3>4. "FAILED" \in RowStates \ {"none", "SYNCED"} /\ row[r].time \in Dtos \cup {Nothing}
      BY <3>2 DEF RowStates, OutboxRow
    <3>5. UNCHANGED life
      BY <2>1 DEF portal
    <3> HIDE DEF r
    <3>6. /\ row' \in [Rows -> OutboxRow] /\ RowsGoOn
          /\ \A u \in Rows : row'[u].status = "SYNCED" =>
                 row[u].status = "SYNCED" /\ row'[u].external = row[u].external
      BY <3>2, <3>3, <3>4, <3>5, ChangedRow
    <3> QED
      BY <2>1, <3>1, <3>6, WithoutTyped, BatchAndRows
  <2>3. CASE ~ Exists(r)
    <3>1. Become(p, IdleProcessor) /\ UNCHANGED row
      BY <1>11, <2>3 DEF MarkFailed
    <3>2. IdleProcessor.pc \notin HasRow /\ IdleProcessor.pc # "commit"
      BY IdleTyped DEF HasRow
    <3> QED
      BY <1>1, <2>1, <3>1, <3>2, IdleTyped, BatchMoves DEF StoreTypes
  <2> QED
    BY <2>2, <2>3
<1> QED
  BY <1>2, <1>3, <1>4, <1>5, <1>6, <1>7, <1>8, <1>9, <1>10, <1>11, CommitKeeps DEF Work

\* A request or a batch that dies leaves an empty slot.
LEMMA CrashKeeps ==
    ASSUME OutboxIInv, Crash
    PROVE  OutboxIInv'
<1>1. UNCHANGED <<portal, row, copy>> /\ count' \in Counters
  BY CountTyped DEF Crash
<1>2. ASSUME NEW q \in Requests, Finish(q), UNCHANGED proc PROVE OutboxIInv'
  <2>1. LifeGoesOn /\ UNCHANGED life
    BY <1>1, TypesSplit DEF OutboxIInv, StoreTypes, LifeGoesOn, portal
  <2> QED
    BY <1>1, <1>2, <2>1, RequestEnds, OnlyRequests
<1>3. ASSUME NEW p \in Processors, Become(p, IdleProcessor), UNCHANGED req PROVE OutboxIInv'
  <2>1. IdleProcessor.pc \notin HasRow /\ IdleProcessor.pc # "commit"
    BY IdleTyped DEF HasRow
  <2> QED
    BY <1>1, <1>3, <2>1, IdleTyped, BatchMoves
<1> QED
  BY <1>2, <1>3 DEF Crash

-----------------------------------------------------------------------------
(* The theorems.                                                              *)

LEMMA OutboxInvInit == Init => OutboxIInv
<1> SUFFICES ASSUME Init PROVE OutboxIInv
  OBVIOUS
<1>1. StoreTypes
  BY BoundsAssumption DEF Init, StoreTypes, SyncStates, OutboxRow, RowStates, Copy, Counters
<1>2. \A q \in Requests : req[q] = IdleRequest
  BY DEF Init
<1>3. \A p \in Processors : proc[p] = IdleProcessor
  BY DEF Init
<1>4. TypeOK
  <2>1. req \in [Requests -> Request] /\ proc \in [Processors -> Processor]
    BY IdleTyped DEF Init, RequestTyped, ProcessorTyped
  <2> QED
    BY <1>1, <1>2, <1>3, <2>1, IdleTyped, TypesSplit
<1>5. /\ \A q \in Requests : RequestOK(q)
      /\ \A p \in Processors : ProcessorOK(p)
  BY <1>2, <1>3, IdleTyped DEF RequestOK, ProcessorOK, Early, HasRow
<1>6. /\ \A r \in Rows : row[r].status = "none"
      /\ \A c \in Copies : copy[c].row = 0
      /\ \A a \in Appointments : sync[a] = "PORTAL_ONLY"
  BY DEF Init
<1> QED
  BY <1>4, <1>5, <1>6 DEF OutboxIInv, RowOK, CopyOK, SyncedWasSent

LEMMA OutboxInvNext == OutboxIInv /\ [Next]_vars => OutboxIInv'
<1> SUFFICES ASSUME OutboxIInv, [Next]_vars PROVE OutboxIInv'
  OBVIOUS
<1>1. CASE UNCHANGED vars
  BY <1>1
  DEF vars, OutboxIInv, TypeOK, SyncedWasSent, CopiesOf, Present, RequestOK, RowOK,
      ProcessorOK, CopyOK
<1> QED
  BY <1>1, BeginKeeps, ContinueKeeps, WorkKeeps, CrashKeeps DEF Next

LEMMA OutboxInvariant == Spec => []OutboxIInv
  BY OutboxInvInit, OutboxInvNext, PTL DEF Spec

\* The rows of the appointments and of the outbox, the requests and the batches keep
\* their types (tickets-appointments.service.ts, tickets-outbox.service.ts).
THEOREM AppointmentTypes == Spec => []TypeOK
<1>1. OutboxIInv => TypeOK
  BY DEF OutboxIInv
<1> QED
  BY <1>1, OutboxInvariant, PTL

\* What is marked as sent was sent, and row and appointment are marked together, for
\* any number of requests, batches, retries, edits, errors and crashes (processOne).
THEOREM MarkedWasSent == Spec => []SyncedWasSent
<1>1. OutboxIInv => SyncedWasSent
  BY DEF OutboxIInv
<1> QED
  BY <1>1, OutboxInvariant, PTL

-----------------------------------------------------------------------------
(* The contract.                                                              *)

\* The rows that have been sent once a copy was made.
LEMMA CopySends ==
    ASSUME OutboxIInv, NEW p \in Processors, proc[p].pc = "send", NEW c \in Copies, MakeCopy(p, c)
    PROVE  /\ proc[p].row \in Rows /\ row[proc[p].row].status # "none"
           /\ rowsSent' = rowsSent \cup {proc[p].row}
<1>1. /\ copy'[c].row = proc[p].row /\ copy[c].row = 0
      /\ proc[p].row \in Rows /\ row[proc[p].row].status # "none"
      /\ \A d \in Copies \ {c} : copy'[d] = copy[d]
  BY MadeCopy
<1>2. ASSUME NEW r \in Rows PROVE r \in rowsSent' <=> r \in rowsSent \/ r = proc[p].row
  <2>1. r # 0
    BY DEF Rows
  <2> QED
    BY <1>1, <2>1 DEF rowsSent
<1>3. rowsSent \subseteq Rows /\ rowsSent' \subseteq Rows
  BY DEF rowsSent
<1> QED
  BY <1>1, <1>2, <1>3

\* A step that touches neither rows nor copies is none of the contract's.
LEMMA OutsideTheContract ==
    ASSUME UNCHANGED <<row, copy>>
    PROVE  UNCHANGED <<rowStates, rowsSent>>
  BY DEF rowStates, rowsSent

\* The contract does not see where else a row changes.
LEMMA StateSeen ==
    ASSUME OutboxIInv, NEW r \in Rows
    PROVE  /\ row[r].status = "none" <=> rowStates[r] = "none"
           /\ row[r].status = "SYNCED" => rowStates[r] = "done"
           /\ Exists(r) <=> Contract!Live(r)
<1>1. row[r].status \in RowStates /\ rowStates[r] = StateOf(row[r].status)
  BY TypesSplit DEF OutboxIInv, StoreTypes, OutboxRow, rowStates
<1> QED
  BY <1>1 DEF RowStates, StateOf, Exists, Contract!Live

\* One row changes, no copy is made.
LEMMA RowSeen ==
    ASSUME OutboxIInv, NEW r \in Rows, NEW s \in RowStates, UNCHANGED copy,
           row' \in [Rows -> OutboxRow], row'[r].status = s,
           \A other \in Rows \ {r} : row'[other].status = row[other].status
    PROVE  /\ rowStates' = [rowStates EXCEPT ![r] = StateOf(s)]
           /\ UNCHANGED rowsSent
<1>1. rowStates' = [q \in Rows |-> StateOf(row'[q].status)]
  BY DEF rowStates
<1>2. \A q \in Rows : row'[q].status = IF q = r THEN s ELSE row[q].status
  OBVIOUS
<1> QED
  BY <1>1, <1>2 DEF rowStates, rowsSent

LEMMA ContractInit == Init => Contract!Init
<1> SUFFICES ASSUME Init PROVE Contract!Init
  OBVIOUS
<1>1. \A r \in Rows : row[r].status = "none"
  BY DEF Init
<1>2. rowStates = [r \in Rows |-> "none"]
  BY <1>1 DEF rowStates, StateOf
<1>3. \A c \in Copies : copy[c].row = 0
  BY DEF Init
<1>4. rowsSent = {}
  BY <1>3 DEF rowsSent, Rows
<1> QED
  BY <1>2, <1>4 DEF Contract!Init

\* A query of a request is a step of the contract.
LEMMA RequestsKeepContract ==
    ASSUME OutboxIInv, OutboxIInv', NEW q \in Requests, Continue(q)
    PROVE  Contract!Next \/ UNCHANGED <<rowStates, rowsSent>>
<1>1. row \in [Rows -> OutboxRow] /\ row' \in [Rows -> OutboxRow]
  BY TypesSplit DEF OutboxIInv, TypeOK, StoreTypes
<1>2. ASSUME NEW r \in Rows, NEW a, NEW dto, RecordOutbox(r, a, dto), UNCHANGED copy
      PROVE  Contract!Next
  <2>1. /\ row[r].status = "none" /\ row'[r].status = "PENDING"
        /\ \A other \in Rows \ {r} : row'[other].status = row[other].status
    BY <1>1, <1>2 DEF RecordOutbox
  <2>2. rowStates' = [rowStates EXCEPT ![r] = "queued"] /\ UNCHANGED rowsSent
    BY <1>1, <1>2, <2>1, RowSeen DEF RowStates, StateOf
  <2>3. Contract!Enqueue(r)
    BY <2>1, <2>2, StateSeen DEF Contract!Enqueue
  <2> QED
    BY <2>3 DEF Contract!Next
<1>3. CASE Record(q)
  BY <1>2, <1>3 DEF Record
<1>4. CASE Reset(q)
  <2> DEFINE r == req[q].outboxId
  <2>1. CASE r # 0 /\ Exists(r)
    <3>1. /\ r \in Rows /\ UNCHANGED copy
          /\ row' = [row EXCEPT ![r].status = "PENDING", ![r].time = req[q].dto]
      BY <1>4, <2>1 DEF Reset, Exists
    <3> HIDE DEF r
    <3>2. /\ row'[r].status = "PENDING"
          /\ \A other \in Rows \ {r} : row'[other].status = row[other].status
      BY <1>1, <3>1 DEF OutboxRow
    <3>3. rowStates' = [rowStates EXCEPT ![r] = "queued"] /\ UNCHANGED rowsSent
      BY <1>1, <3>1, <3>2, RowSeen DEF RowStates, StateOf
    <3>4. rowStates' = [e \in Rows |-> IF e \in {r} THEN "queued" ELSE rowStates[e]]
      BY <3>1, <3>3 DEF rowStates
    <3>5. Contract!Requeue({r})
      BY <2>1, <3>1, <3>3, <3>4, StateSeen DEF Contract!Requeue
    <3> QED
      BY <3>1, <3>5 DEF Contract!Next
  <2>2. CASE r # 0 /\ ~ Exists(r)
    BY <1>4, <2>2, OutsideTheContract DEF Reset
  <2>3. CASE r = 0
    BY <1>2, <1>4, <2>3 DEF Reset
  <2> QED
    BY <2>1, <2>2, <2>3
<1>5. CASE DropOutbox(q)
  <2> DEFINE r == req[q].outboxId
  <2>1. CASE Exists(r)
    <3>1. /\ r \in Rows /\ UNCHANGED copy
          /\ row' = [row EXCEPT ![r].status = "deleted"]
      BY <1>5, <2>1 DEF DropOutbox, Exists
    <3> HIDE DEF r
    <3>2. /\ row'[r].status = "deleted"
          /\ \A other \in Rows \ {r} : row'[other].status = row[other].status
      BY <1>1, <3>1 DEF OutboxRow
    <3>3. rowStates' = [rowStates EXCEPT ![r] = "withdrawn"] /\ UNCHANGED rowsSent
      BY <1>1, <3>1, <3>2, RowSeen DEF RowStates, StateOf
    <3>4. Contract!Withdraw(r)
      BY <2>1, <3>1, <3>3, StateSeen DEF Contract!Withdraw
    <3> QED
      BY <3>1, <3>4 DEF Contract!Next
  <2>2. CASE ~ Exists(r)
    BY <1>5, <2>2, OutsideTheContract DEF DropOutbox
  <2> QED
    BY <2>1, <2>2
<1>6. CASE CheckOverlap(q) \/ Insert(q) \/ Link(q) \/ Write(q) \/ CheckOutbox(q) \/ Remove(q)
           \/ SetPaused(q)
  BY <1>6, OutsideTheContract
  DEF CheckOverlap, Insert, Link, Write, CheckOutbox, Remove, SetPaused
<1> QED
  BY <1>3, <1>4, <1>5, <1>6 DEF Continue

\* What a processor does is a step of the contract.
LEMMA BatchesKeepContract ==
    ASSUME OutboxIInv, OutboxIInv', NEW p \in Processors,
           Work(p) \/ BeginRetry(p) \/ SendAgain(p) \/ SendFails(p) \/ CommitFails(p)
    PROVE  Contract!Next \/ UNCHANGED <<rowStates, rowsSent>>
<1>1. row \in [Rows -> OutboxRow] /\ row' \in [Rows -> OutboxRow]
  BY TypesSplit DEF OutboxIInv, TypeOK, StoreTypes
<1>2. ASSUME NEW c \in Copies, proc[p].pc = "send", MakeCopy(p, c), UNCHANGED row
      PROVE  Contract!Next
  <2> DEFINE r == proc[p].row
  <2>1. r \in Rows /\ row[r].status # "none" /\ rowsSent' = rowsSent \cup {r}
    BY <1>2, CopySends
  <2>2. UNCHANGED rowStates
    BY <1>2 DEF rowStates
  <2>3. Contract!Deliver(r)
    BY <2>1, <2>2, StateSeen DEF Contract!Deliver
  <2> QED
    BY <2>1, <2>3 DEF Contract!Next
<1>3. CASE Send(p) \/ SendAgain(p)
  BY <1>2, <1>3 DEF Send, SendAgain
<1>4. CASE SendFails(p)
  BY <1>2, <1>4, OutsideTheContract DEF SendFails
<1>5. CASE Requeue(p)
  <2> DEFINE S == {r \in Rows : r \in proc[p].batch /\ Exists(r)}
  <2>1. /\ UNCHANGED copy
        /\ row' = [r \in Rows |-> IF r \in S THEN [row[r] EXCEPT !.status = "PENDING"]
                                  ELSE row[r]]
    BY <1>5 DEF Requeue
  <2>2. \A r \in S : r \in Rows /\ Contract!Live(r)
    BY StateSeen
  <2>3. S \in SUBSET Rows
    OBVIOUS
  <2> HIDE DEF S
  <2>4. ASSUME NEW r \in Rows
        PROVE  row'[r].status = IF r \in S THEN "PENDING" ELSE row[r].status
    BY <1>1, <2>1 DEF OutboxRow
  <2>5. rowStates' = [r \in Rows |-> IF r \in S THEN "queued" ELSE rowStates[r]]
    <3>1. StateOf("PENDING") = "queued"
      BY DEF StateOf
    <3>2. ASSUME NEW r \in Rows
          PROVE  StateOf(row'[r].status) = IF r \in S THEN "queued" ELSE StateOf(row[r].status)
      BY <2>4, <3>1
    <3> QED
      BY <3>2 DEF rowStates
  <2>6. UNCHANGED rowsSent
    BY <2>1 DEF rowsSent
  <2>7. Contract!Requeue(S)
    BY <2>2, <2>5, <2>6 DEF Contract!Requeue
  <2> QED
    BY <2>3, <2>7 DEF Contract!Next
<1>6. CASE Commit(p) /\ Exists(proc[p].row)
  <2> DEFINE r == proc[p].row
             c == proc[p].external
  <2>1. /\ r \in Rows /\ UNCHANGED copy /\ proc[p].pc = "commit"
        /\ row' = [row EXCEPT ![r] = Committed(r, c)]
    BY <1>6 DEF Commit, Exists
  <2>2. /\ row'[r].status = "SYNCED"
        /\ \A other \in Rows \ {r} : row'[other].status = row[other].status
    BY <1>1, <2>1 DEF OutboxRow, Committed
  <2>3. rowStates' = [rowStates EXCEPT ![r] = "done"] /\ UNCHANGED rowsSent
    BY <1>1, <2>1, <2>2, RowSeen DEF RowStates, StateOf
  <2>4. r \in rowsSent
    BY <2>1 DEF OutboxIInv, ProcessorOK, rowsSent
  <2>5. Contract!Complete(r)
    BY <1>6, <2>1, <2>3, <2>4, StateSeen DEF Contract!Complete
  <2> QED
    BY <2>1, <2>5 DEF Contract!Next
<1>7. CASE MarkFailed(p) /\ Exists(proc[p].row)
  <2> DEFINE r == proc[p].row
  <2>1. r \in Rows /\ UNCHANGED copy /\ row' = [row EXCEPT ![r].status = "FAILED"]
    BY <1>7 DEF MarkFailed, Exists
  <2>2. /\ row'[r].status = "FAILED"
        /\ \A other \in Rows \ {r} : row'[other].status = row[other].status
    BY <1>1, <2>1 DEF OutboxRow
  <2>3. rowStates' = [rowStates EXCEPT ![r] = "failed"] /\ UNCHANGED rowsSent
    BY <1>1, <2>1, <2>2, RowSeen DEF RowStates, StateOf
  <2>4. Contract!Fail(r)
    BY <1>7, <2>1, <2>3, StateSeen DEF Contract!Fail
  <2> QED
    BY <2>1, <2>4 DEF Contract!Next
<1>8. CASE (Commit(p) \/ MarkFailed(p)) /\ ~ Exists(proc[p].row)
  BY <1>8, OutsideTheContract DEF Commit, MarkFailed
<1>9. CASE BeginRetry(p) \/ StartBatch(p) \/ TakeNext(p) \/ CheckPaused(p) \/ CommitFails(p)
  BY <1>9, OutsideTheContract DEF BeginRetry, StartBatch, TakeNext, CheckPaused, CommitFails
<1> QED
  BY <1>3, <1>4, <1>5, <1>6, <1>7, <1>8, <1>9 DEF Work

\* Every step of the outbox is one of its contract, or none: a row is marked only after
\* TiFlux made a copy for it, and one that was deleted never comes back (processOne).
THEOREM OutboxImplementsContract == Spec => OutboxKeepsContract
<1>1. OutboxIInv /\ OutboxIInv' /\ [Next]_vars => [Contract!Next]_<<rowStates, rowsSent>>
  <2> SUFFICES ASSUME OutboxIInv, OutboxIInv', [Next]_vars
               PROVE  Contract!Next \/ UNCHANGED <<rowStates, rowsSent>>
    OBVIOUS
  <2>1. ASSUME NEW q \in Requests, NEW a \in Appointments, Begin(q, a)
        PROVE  UNCHANGED <<rowStates, rowsSent>>
    BY <2>1, OutsideTheContract
    DEF Begin, BeginCreate, BeginUpdate, BeginDelete, BeginPause, BeginResume
  <2>2. CASE Crash
    BY <2>2, OutsideTheContract DEF Crash
  <2>3. CASE UNCHANGED vars
    BY <2>3, OutsideTheContract DEF vars
  <2> QED
    BY <2>1, <2>2, <2>3, RequestsKeepContract, BatchesKeepContract DEF Next
<1> QED
  BY <1>1, ContractInit, OutboxInvariant, PTL DEF Spec, OutboxKeepsContract, Contract!Spec

-----------------------------------------------------------------------------
(* Overlaps.                                                                  *)

\* Two days apart are two days of minutes apart.
LEMMA DaysApart ==
    ASSUME NEW i \in Int, NEW j \in Int
    PROVE  /\ i * DayLength \in Int
           /\ (i + 1) * DayLength = i * DayLength + DayLength
           /\ (i - 1) * DayLength = i * DayLength - DayLength
           /\ i <= j => i * DayLength <= j * DayLength
<1>1. DayLength \in Nat /\ DayLength > 0
  BY DayAssumption
<1>2. /\ i * DayLength \in Int
      /\ (i + 1) * DayLength = i * DayLength + DayLength
      /\ (i - 1) * DayLength = i * DayLength - DayLength
  BY <1>1
<1>3. ASSUME i <= j PROVE i * DayLength <= j * DayLength
  <2>1. j - i \in Nat /\ j = i + (j - i)
    BY <1>3
  <2>2. (j - i) * DayLength >= 0
    BY <1>1, <2>1
  <2>3. j * DayLength = i * DayLength + (j - i) * DayLength
    BY <1>1, <2>1
  <2> QED
    BY <1>1, <1>2, <2>2, <2>3
<1> QED
  BY <1>2, <1>3

\* What is accepted, and is shorter than a day, covers the minutes that are
\* compared, whether or not the date of its end is known.
LEMMA MinutesCompared ==
    ASSUME NEW d \in DtoType, Accepted(d), ~ FullDay(d)
    PROVE  /\ TrueMinutes(d) = Minutes(d) /\ Minutes(Stored(d)) = Minutes(d)
           /\ EndDate(d) \in {d.date, d.date + 1} /\ EndDate(Stored(d)) = EndDate(d)
           /\ Overnight(d) <=> EndDate(d) = d.date + 1
<1> DEFINE s == Stored(d)
<1>1. /\ DayLength \in Nat /\ DayLength > 0 /\ NoDate \notin Int
      /\ d.date \in Int /\ d.initTime \in Int /\ d.endTime \in Int
      /\ 0 <= d.initTime /\ d.initTime < DayLength /\ 0 <= d.endTime /\ d.endTime < DayLength
      /\ d.endDate \in Int \cup {NoDate} /\ d.date * DayLength \in Int
  BY DayAssumption DEF DtoType
<1>2. s.date = d.date /\ s.initTime = d.initTime /\ s.endTime = d.endTime /\ s.endDate = NoDate
  BY DEF Stored, DtoType
<1>3. /\ d.endDate \in {NoDate, d.date, d.date + 1}
      /\ Duration(d) >= 0 /\ Duration(d) < DayLength
      /\ Duration(d) = 0 => d.initTime = d.endTime /\ d.endDate \in {NoDate, d.date}
  <2>1. DaySpan(d) \in Int
    BY <1>1 DEF DaySpan, Accepted
  <2>2. DaySpan(d) \in {0, 1}
    BY <1>1, <2>1 DEF DaySpan, Accepted
  <2>3. Duration(d) \in Int
    BY <1>1, <2>2 DEF Duration
  <2>4. Duration(d) # DayLength /\ Duration(d) <= DayLength
    BY DEF FullDay, Accepted
  <2>5. \/ Duration(d) > 0
        \/ d.initTime = d.endTime /\ d.endDate \in {NoDate, d.date}
    BY DEF Accepted
  <2>6. d.initTime = d.endTime /\ d.endDate \in {NoDate, d.date} => Duration(d) = 0
    BY <1>1 DEF Duration, DaySpan
  <2> QED
    BY <1>1, <2>3, <2>4, <2>5, <2>6 DEF Accepted
<1>4. CASE d.endTime < d.initTime
  <2>1. DaySpan(d) = 1 /\ Duration(d) = d.endTime + DayLength - d.initTime
    <3>1. d.endDate # d.date
      BY <1>1, <1>3, <1>4 DEF Duration, DaySpan
    <3>2. DaySpan(d) = 1
      BY <1>1, <1>3, <1>4, <3>1 DEF DaySpan
    <3> QED
      BY <1>1, <3>2 DEF Duration
  <2>2. Overnight(d) /\ Overnight(s)
    BY <1>2, <1>4 DEF Overnight
  <2>3. EndDate(d) = d.date + 1 /\ EndDate(s) = d.date + 1
    BY <1>1, <1>2, <1>3, <2>2 DEF EndDate
  <2>4. (d.date + 1) * DayLength = d.date * DayLength + DayLength
    BY <1>1, DaysApart
  <2>5. TrueMinutes(d) = (d.date * DayLength + d.initTime)
                           .. (d.date * DayLength + DayLength + d.endTime - 1)
    <3> DEFINE D == d.date * DayLength
    <3>1. D \in Int
      BY <1>1
    <3> HIDE DEF D
    <3>2. (D + d.initTime) + Duration(d) - 1 = D + DayLength + d.endTime - 1
      BY <1>1, <2>1, <3>1
    <3>3. TrueMinutes(d) = (D + d.initTime) .. ((D + d.initTime) + Duration(d) - 1)
      BY DEF TrueMinutes, D
    <3> QED
      BY <3>2, <3>3 DEF D
  <2> QED
    BY <1>1, <1>2, <2>2, <2>3, <2>4, <2>5 DEF Minutes
<1>5. CASE d.endTime >= d.initTime
  <2>1. DaySpan(d) = 0 /\ Duration(d) = d.endTime - d.initTime /\ d.endDate \in {NoDate, d.date}
    <3>1. d.endDate # d.date + 1
      <4>1. d.endDate = d.date + 1 => DaySpan(d) = 1
        BY <1>1 DEF DaySpan
      <4> QED
        BY <1>1, <1>3, <1>5, <4>1 DEF Duration
    <3>2. DaySpan(d) = 0
      BY <1>1, <1>3, <1>5, <3>1 DEF DaySpan
    <3> QED
      BY <1>1, <1>3, <3>1, <3>2 DEF Duration
  <2>2. ~ Overnight(d) /\ ~ Overnight(s)
    BY <1>1, <1>2, <1>5, <2>1 DEF Overnight
  <2>3. EndDate(d) = d.date /\ EndDate(s) = d.date
    BY <1>2, <2>2 DEF EndDate
  <2> QED
    BY <1>1, <1>2, <2>1, <2>2, <2>3 DEF TrueMinutes, Minutes
<1> QED
  BY <1>1, <1>4, <1>5

\* The check sees every overlap of two appointments shorter than a day: it reads all
\* the dates an overlap may come from.
LEMMA ConflictIsSeen ==
    ASSUME NEW d \in DtoType, NEW e \in DtoType, Accepted(d), Accepted(e),
           ~ FullDay(d), ~ FullDay(e), TrueMinutes(d) \cap TrueMinutes(e) # {}
    PROVE  Conflict(d, e)
<1>1. PICK m : m \in Minutes(d) /\ m \in Minutes(e) /\ m \in Minutes(Stored(e))
  BY MinutesCompared
<1>2. /\ DayLength \in Nat /\ DayLength > 0 /\ d.date \in Int /\ e.date \in Int
      /\ 0 <= d.initTime /\ d.initTime < DayLength /\ 0 <= d.endTime /\ d.endTime < DayLength
      /\ 0 <= e.initTime /\ e.initTime < DayLength /\ 0 <= e.endTime /\ e.endTime < DayLength
      /\ d.initTime \in Int /\ d.endTime \in Int /\ e.initTime \in Int /\ e.endTime \in Int
  BY DayAssumption DEF DtoType
<1> DEFINE D == d.date * DayLength
           E == e.date * DayLength
<1>3. /\ D \in Int /\ E \in Int
      /\ (d.date + 1) * DayLength = D + DayLength
      /\ (e.date + 1) * DayLength = E + DayLength
  BY <1>2, DaysApart
<1>4. /\ m \in Int /\ D + d.initTime <= m /\ E + e.initTime <= m
      /\ EndDate(d) = d.date => m < D + d.endTime
      /\ EndDate(d) = d.date + 1 => m < D + DayLength + d.endTime
      /\ m < E + DayLength + e.endTime
  <2>1. EndDate(d) \in {d.date, d.date + 1} /\ EndDate(e) \in {e.date, e.date + 1}
    BY MinutesCompared
  <2>2. EndDate(d) * DayLength \in Int /\ EndDate(e) * DayLength \in Int
    BY <1>2, <1>3, <2>1
  <2>3. /\ m \in Int /\ D + d.initTime <= m /\ m < EndDate(d) * DayLength + d.endTime
        /\ E + e.initTime <= m /\ m < EndDate(e) * DayLength + e.endTime
    BY <1>1, <1>2, <1>3, <2>2 DEF Minutes
  <2>4. EndDate(e) * DayLength <= E + DayLength
    BY <1>2, <1>3, <2>1
  <2>5. /\ EndDate(d) = d.date => EndDate(d) * DayLength = D
        /\ EndDate(d) = d.date + 1 => EndDate(d) * DayLength = D + DayLength
    BY <1>3
  <2> HIDE DEF D, E
  <2> QED
    BY <1>2, <1>3, <2>2, <2>3, <2>4, <2>5
<1>5. e.date >= d.date - 1
  <2> SUFFICES ASSUME e.date <= d.date - 2 PROVE FALSE
    BY <1>2
  <2>1. (e.date + 1) + 1 <= d.date /\ e.date + 1 \in Int /\ (e.date + 1) + 1 \in Int
    BY <1>2
  <2>2. /\ ((e.date + 1) + 1) * DayLength <= D
        /\ ((e.date + 1) + 1) * DayLength = (e.date + 1) * DayLength + DayLength
    BY <1>2, <2>1, DaysApart
  <2>3. E + DayLength + DayLength <= D
    BY <1>3, <2>2
  <2> HIDE DEF D, E
  <2> QED
    BY <1>2, <1>3, <1>4, <2>3
<1>6. EndDate(d) = d.date => e.date <= d.date
  <2> SUFFICES ASSUME EndDate(d) = d.date, e.date >= d.date + 1 PROVE FALSE
    BY <1>2
  <2>1. (d.date + 1) * DayLength <= E /\ d.date + 1 \in Int
    BY <1>2, DaysApart
  <2>2. D + DayLength <= E
    BY <1>3, <2>1
  <2> HIDE DEF D, E
  <2> QED
    BY <1>2, <1>3, <1>4, <2>2
<1>7. e.date <= d.date + 1
  <2> SUFFICES ASSUME e.date >= d.date + 2 PROVE FALSE
    BY <1>2
  <2>1. /\ ((d.date + 1) + 1) * DayLength <= E
        /\ ((d.date + 1) + 1) * DayLength = (d.date + 1) * DayLength + DayLength
    <3>1. (d.date + 1) + 1 <= e.date /\ d.date + 1 \in Int /\ (d.date + 1) + 1 \in Int
      BY <1>2
    <3> QED
      BY <1>2, <3>1, DaysApart
  <2>2. D + DayLength + DayLength <= E
    BY <1>3, <2>1
  <2>3. m < D + DayLength + d.endTime
    <3>1. EndDate(d) \in {d.date, d.date + 1}
      BY MinutesCompared
    <3> HIDE DEF D, E
    <3> QED
      BY <1>2, <1>3, <1>4, <3>1
  <2> HIDE DEF D, E
  <2> QED
    BY <1>2, <1>3, <1>4, <2>2, <2>3
<1>8. e.date \in DatesLookedAt(d)
  <2>1. EndDate(d) \in {d.date, d.date + 1} /\ (Overnight(d) <=> EndDate(d) = d.date + 1)
    BY MinutesCompared
  <2> QED
    BY <1>2, <1>5, <1>6, <1>7, <2>1 DEF DatesLookedAt
<1> QED
  BY <1>1, <1>8 DEF Conflict


-----------------------------------------------------------------------------
(* With one request at a time, what was checked still holds when it is written. *)

Checked == {"insert", "reset", "write"}

\* The time a request asks for was accepted, and, once it was checked, conflicts with
\* no other appointment.
AskedOK(x) ==
    /\ x.pc \in WithTime => Accepted(x.dto)
    /\ x.pc \in Checked =>
          \A b \in Appointments : Present(b) /\ b # x.appt => ~ Conflict(x.dto, time[b])

TimesOK ==
    /\ NoOverlapShortOfADay
    /\ \A a \in Appointments : Present(a) => Accepted(time[a])

OverlapIInv == TimesOK /\ \A q \in Requests : AskedOK(req[q])

\* Appointments may go, and none changes its time.
LEMMA TimesStay ==
    ASSUME OverlapIInv, UNCHANGED time,
           \A a \in Appointments : life'[a] = "present" => life[a] = "present"
    PROVE  TimesOK' /\ \A x : AskedOK(x) => AskedOK(x)'
<1>1. TimesOK'
  BY DEF OverlapIInv, TimesOK, NoOverlapShortOfADay, Present
<1>2. ASSUME NEW x, AskedOK(x) PROVE AskedOK(x)'
  BY <1>2 DEF AskedOK, Present
<1> QED
  BY <1>1, <1>2

\* A request writes the time it has checked.
LEMMA CheckedIsWritten ==
    ASSUME OverlapIInv, TypeOK, NEW q \in Requests, req[q].pc \in {"insert", "write"},
           \A a \in Appointments \ {req[q].appt} : life'[a] = life[a],
           time' = [time EXCEPT ![req[q].appt] = req[q].dto]
    PROVE  TimesOK'
<1> DEFINE a == req[q].appt
           d == req[q].dto
<1>1. a \in Appointments /\ d \in Dtos /\ d \in DtoType
  BY DtosAssumption DEF TypeOK
<1>2. Accepted(d) /\ \A b \in Appointments : Present(b) /\ b # a => ~ Conflict(d, time[b])
  BY DEF OverlapIInv, AskedOK, WithTime, Checked
<1>3. time'[a] = d /\ \A b \in Appointments \ {a} : time'[b] = time[b]
  BY <1>1 DEF TypeOK
<1>4. ASSUME NEW b \in Appointments, Present(b)
      PROVE  time[b] \in DtoType /\ Accepted(time[b])
  BY <1>4, DtosAssumption DEF TypeOK, OverlapIInv, TimesOK, Present
<1>5. ASSUME NEW b \in Appointments, b # a, Present(b), ~ FullDay(d), ~ FullDay(time[b])
      PROVE  TrueMinutes(d) \cap TrueMinutes(time[b]) = {}
  BY <1>1, <1>2, <1>4, <1>5, ConflictIsSeen
<1> HIDE DEF a, d
<1>6. life' = life' /\ \A b \in Appointments \ {a} : life'[b] = life[b]
  BY DEF a
<1>7. ASSUME NEW b \in Appointments, NEW c \in Appointments, b # c,
             life'[b] = "present", life'[c] = "present",
             ~ FullDay(time'[b]), ~ FullDay(time'[c])
      PROVE  TrueMinutes(time'[b]) \cap TrueMinutes(time'[c]) = {}
  <2>1. CASE b = a
    <3>1. Present(c) /\ time'[c] = time[c] /\ time'[b] = d
      BY <1>3, <1>6, <1>7, <2>1 DEF Present
    <3> QED
      BY <1>5, <1>7, <2>1, <3>1
  <2>2. CASE c = a
    <3>1. Present(b) /\ time'[b] = time[b] /\ time'[c] = d
      BY <1>3, <1>6, <1>7, <2>2 DEF Present
    <3>2. TrueMinutes(d) \cap TrueMinutes(time[b]) = {}
      BY <1>5, <1>7, <2>2, <3>1
    <3> QED
      BY <3>1, <3>2
  <2>3. CASE b # a /\ c # a
    BY <1>3, <1>6, <1>7, <2>3 DEF OverlapIInv, TimesOK, NoOverlapShortOfADay, Present
  <2> QED
    BY <2>1, <2>2, <2>3
<1>8. ASSUME NEW b \in Appointments, life'[b] = "present" PROVE Accepted(time'[b])
  <2>1. CASE b = a
    BY <1>2, <1>3, <2>1
  <2>2. CASE b # a
    BY <1>3, <1>4, <1>6, <1>8, <2>2 DEF Present
  <2> QED
    BY <2>1, <2>2
<1> QED
  BY <1>7, <1>8 DEF TimesOK, NoOverlapShortOfADay, Present

\* The only request goes from one record to another.
LEMMA TheOnlyRequest ==
    ASSUME TypeOK, NEW q \in Requests, Requests = {q}, NEW x,
           req' = [req EXCEPT ![q] = x], TimesOK', AskedOK(x)'
    PROVE  OverlapIInv'
<1>1. req'[q] = x
  BY DEF TypeOK
<1> QED
  BY <1>1 DEF OverlapIInv, AskedOK, Present

LEMMA OverlapInit == Init => OverlapIInv
  BY DEF Init, OverlapIInv, TimesOK, NoOverlapShortOfADay, Present, AskedOK, IdleRequest,
         WithTime, Checked

\* A batch changes neither the appointments there are nor their times, nor the requests.
LEMMA BatchesChangeNoTime ==
    ASSUME NEW p \in Processors,
           Work(p) \/ BeginRetry(p) \/ SendAgain(p) \/ SendFails(p) \/ CommitFails(p)
    PROVE  UNCHANGED <<life, time, req>>
<1>1. CASE Work(p)
  <2>1. CASE Requeue(p)
    BY <2>1 DEF Requeue, portal
  <2>2. CASE StartBatch(p)
    BY <2>2 DEF StartBatch, portal
  <2>3. CASE TakeNext(p)
    BY <2>3 DEF TakeNext, portal
  <2>4. CASE CheckPaused(p)
    BY <2>4 DEF CheckPaused, portal
  <2>5. CASE Send(p)
    BY <2>5 DEF Send, portal
  <2>6. CASE Commit(p)
    BY <2>6 DEF Commit
  <2>7. CASE MarkFailed(p)
    BY <2>7 DEF MarkFailed, portal
  <2> QED
    BY <1>1, <2>1, <2>2, <2>3, <2>4, <2>5, <2>6, <2>7 DEF Work
<1>2. CASE BeginRetry(p) \/ SendAgain(p) \/ SendFails(p) \/ CommitFails(p)
  BY <1>2 DEF BeginRetry, SendAgain, SendFails, CommitFails, portal
<1> QED
  BY <1>1, <1>2

LEMMA RequestBegins ==
    ASSUME OverlapIInv, TypeOK, NEW q \in Requests, Requests = {q},
           NEW a \in Appointments, Begin(q, a)
    PROVE  OverlapIInv'
<1>1. UNCHANGED <<life, time>>
  BY DEF Begin, BeginCreate, BeginUpdate, BeginDelete, BeginPause, BeginResume, portal
<1>2. TimesOK' /\ \A x : AskedOK(x) => AskedOK(x)'
  BY <1>1, TimesStay
<1>3. ASSUME NEW dto \in Dtos, BeginCreate(q, a, dto) PROVE OverlapIInv'
  <2>1. PICK x : x = [IdleRequest EXCEPT !.pc = "createOverlap", !.appt = a, !.dto = dto]
    OBVIOUS
  <2>2. x.pc = "createOverlap" /\ x.dto = dto
    BY <2>1 DEF IdleRequest
  <2>3. req' = [req EXCEPT ![q] = x] /\ Accepted(dto)
    BY <1>3, <2>1 DEF BeginCreate
  <2>4. AskedOK(x)
    BY <2>2, <2>3 DEF AskedOK, Checked
  <2> QED
    BY <1>2, <2>3, <2>4, TheOnlyRequest
<1>4. ASSUME NEW dto \in Dtos, BeginUpdate(q, a, dto) PROVE OverlapIInv'
  <2>1. PICK x : x = [pc |-> "updateOverlap", appt |-> a, dto |-> dto,
                      outboxId |-> link[a], sync |-> sync[a]]
    OBVIOUS
  <2>2. x.pc = "updateOverlap" /\ x.dto = dto
    BY <2>1
  <2>3. req' = [req EXCEPT ![q] = x] /\ Accepted(dto)
    BY <1>4, <2>1 DEF BeginUpdate
  <2>4. AskedOK(x)
    BY <2>2, <2>3 DEF AskedOK, Checked
  <2> QED
    BY <1>2, <2>3, <2>4, TheOnlyRequest
<1>5. CASE BeginDelete(q, a)
  <2>1. PICK x : x = [IdleRequest EXCEPT !.pc = IF link[a] # 0 THEN "checkOutbox" ELSE "remove",
                                         !.appt = a, !.outboxId = link[a]]
    OBVIOUS
  <2>2. x.pc \in {"checkOutbox", "remove"}
    BY <2>1 DEF IdleRequest
  <2>3. req' = [req EXCEPT ![q] = x]
    BY <1>5, <2>1 DEF BeginDelete
  <2>4. AskedOK(x)
    BY <2>2 DEF AskedOK, Checked, WithTime
  <2> QED
    BY <1>2, <2>3, <2>4, TheOnlyRequest
<1>6. CASE BeginPause(q, a) \/ BeginResume(q, a)
  <2>1. PICK x : /\ x \in {[IdleRequest EXCEPT !.pc = "pause", !.appt = a],
                           [IdleRequest EXCEPT !.pc = "resume", !.appt = a]}
                 /\ req' = [req EXCEPT ![q] = x]
    BY <1>6 DEF BeginPause, BeginResume
  <2>2. x.pc \in {"pause", "resume"}
    BY <2>1 DEF IdleRequest
  <2>4. AskedOK(x)
    BY <2>2 DEF AskedOK, Checked, WithTime
  <2> QED
    BY <1>2, <2>1, <2>4, TheOnlyRequest
<1> QED
  BY <1>3, <1>4, <1>5, <1>6 DEF Begin

\* A request that ends asks for nothing.
LEMMA TheOnlyRequestEnds ==
    ASSUME TypeOK, NEW q \in Requests, Requests = {q}, Finish(q), TimesOK'
    PROVE  OverlapIInv'
<1>1. PICK x : x = IdleRequest
  OBVIOUS
<1>2. AskedOK(x)'
  BY <1>1 DEF AskedOK, IdleRequest, WithTime, Checked
<1> QED
  BY <1>1, <1>2, TheOnlyRequest DEF Finish

\* A request that goes on to a step that writes no time needs no more than it had.
LEMMA TheOnlyRequestGoesOn ==
    ASSUME TypeOK, NEW q \in Requests, Requests = {q}, NEW label, NEW r,
           label \notin Checked, label \notin WithTime \/ req[q].pc \in WithTime,
           \/ Goto(q, label)
           \/ req' = [req EXCEPT ![q].pc = label, ![q].outboxId = r],
           TimesOK', AskedOK(req[q])
    PROVE  OverlapIInv'
<1>1. req[q] \in Request /\ req \in [Requests -> Request]
  BY DEF TypeOK
<1>2. req'[q].pc = label /\ req'[q].dto = req[q].dto
  BY <1>1 DEF Goto, Request
<1> QED
  BY <1>2 DEF OverlapIInv, AskedOK, Present

LEMMA RequestContinues ==
    ASSUME OverlapIInv, TypeOK, NEW q \in Requests, Requests = {q}, Continue(q)
    PROVE  OverlapIInv'
<1> USE DEF WithTime, Checked
<1>0. AskedOK(req[q]) /\ req[q] \in Request /\ req \in [Requests -> Request]
  BY DEF OverlapIInv, TypeOK
<1>1. CASE CheckOverlap(q)
  <2>1. UNCHANGED <<life, time>> /\ req[q].pc \in {"createOverlap", "updateOverlap"}
    BY <1>1 DEF CheckOverlap, portal
  <2>2. TimesOK' /\ \A x : AskedOK(x) => AskedOK(x)'
    BY <2>1, TimesStay
  <2>3. CASE Finish(q)
    BY <2>2, <2>3, TheOnlyRequestEnds
  <2>4. CASE ~ Finish(q)
    <3>1. \A b \in Appointments :
             Present(b) /\ b # req[q].appt => ~ Conflict(req[q].dto, time[b])
      BY <1>1, <2>4 DEF CheckOverlap
    <3>2. \E label \in Checked : Goto(q, label)
      BY <1>1, <2>4 DEF CheckOverlap
    <3>3. req'[q].pc \in Checked /\ req'[q].dto = req[q].dto /\ req'[q].appt = req[q].appt
      BY <1>0, <3>2 DEF Goto, Request
    <3>4. Accepted(req[q].dto)
      BY <1>0, <2>1 DEF AskedOK
    <3> QED
      BY <2>1, <2>2, <3>1, <3>3, <3>4 DEF OverlapIInv, AskedOK, Present
  <2> QED
    BY <2>3, <2>4
<1>2. CASE Insert(q)
  <2>1. TimesOK'
    <3>1. \A a \in Appointments \ {req[q].appt} : life'[a] = life[a]
      BY <1>2 DEF Insert, TypeOK
    <3> QED
      BY <1>2, <3>1, CheckedIsWritten DEF Insert
  <2>2. CASE Finish(q)
    BY <2>1, <2>2, TheOnlyRequestEnds
  <2>3. CASE ~ Finish(q)
    <3>1. Goto(q, "record") /\ req[q].pc = "insert"
      BY <1>2, <2>3 DEF Insert
    <3>2. req'[q].pc = "record" /\ req'[q].dto = req[q].dto
      BY <1>0, <3>1 DEF Goto, Request
    <3>3. Accepted(req[q].dto)
      BY <1>0, <3>1 DEF AskedOK
    <3> QED
      BY <2>1, <3>2, <3>3 DEF OverlapIInv, AskedOK
  <2> QED
    BY <2>2, <2>3
<1>3. CASE Record(q) \/ CheckOutbox(q)
  <2>1. TimesOK'
    BY <1>3, TimesStay DEF Record, CheckOutbox, portal
  <2>2. req'[q].pc \in {"link", "remove", "dropOutbox"}
    BY <1>0, <1>3 DEF Record, CheckOutbox, Goto, Request
  <2> QED
    BY <2>1, <2>2 DEF OverlapIInv, AskedOK
<1>4. CASE Reset(q)
  <2>1. UNCHANGED <<life, time>> /\ req[q].pc = "reset"
    BY <1>4 DEF Reset, portal
  <2>2. TimesOK' /\ AskedOK(req[q])
    BY <1>0, <2>1, TimesStay
  <2>3. CASE Finish(q)
    BY <2>2, <2>3, TheOnlyRequestEnds
  <2>4. CASE ~ Finish(q)
    <3>1. req'[q].pc = "write" /\ req'[q].dto = req[q].dto /\ req'[q].appt = req[q].appt
      BY <1>0, <1>4, <2>4 DEF Reset, Goto, Request
    <3> QED
      BY <2>1, <2>2, <3>1 DEF OverlapIInv, AskedOK, Present
  <2> QED
    BY <2>3, <2>4
<1>5. CASE Write(q)
  <2>1. Finish(q) /\ UNCHANGED life /\ req[q].pc = "write"
    BY <1>5 DEF Write
  <2>2. TimesOK'
    <3>1. CASE UNCHANGED time
      BY <2>1, <3>1, TimesStay
    <3>2. CASE time' = [time EXCEPT ![req[q].appt] = req[q].dto]
      BY <2>1, <3>2, CheckedIsWritten
    <3> QED
      BY <1>5, <3>1, <3>2 DEF Write
  <2> QED
    BY <2>1, <2>2, TheOnlyRequestEnds
<1>6. CASE DropOutbox(q)
  <2>1. TimesOK' /\ Goto(q, "remove")
    BY <1>6, TimesStay DEF DropOutbox
  <2>2. req'[q].pc = "remove"
    BY <1>0, <2>1 DEF Goto, Request
  <2> QED
    BY <2>1, <2>2 DEF OverlapIInv, AskedOK
<1>7. CASE Link(q) \/ Remove(q) \/ SetPaused(q)
  <2>1. UNCHANGED time /\ Finish(q)
    BY <1>7 DEF Link, Remove, SetPaused
  <2>2. \A a \in Appointments : life'[a] = "present" => life[a] = "present"
    BY <1>7 DEF Link, Remove, SetPaused, Present, TypeOK
  <2> QED
    BY <2>1, <2>2, TimesStay, TheOnlyRequestEnds
<1> QED
  BY <1>1, <1>2, <1>3, <1>4, <1>5, <1>6, <1>7 DEF Continue

LEMMA OverlapNext ==
    ASSUME OverlapIInv, TypeOK, NEW q \in Requests, Requests = {q}, [Next]_vars
    PROVE  OverlapIInv'
<1>1. ASSUME UNCHANGED <<life, time, req>> PROVE OverlapIInv'
  <2>1. TimesOK' /\ AskedOK(req[q])'
    <3>1. TimesOK' /\ AskedOK(req[q])
      BY <1>1, TimesStay DEF OverlapIInv
    <3> QED
      BY <1>1, <3>1 DEF AskedOK, Present
  <2> QED
    BY <2>1 DEF OverlapIInv
<1>2. ASSUME NEW r \in Requests, NEW a \in Appointments, Begin(r, a) PROVE OverlapIInv'
  BY <1>2, RequestBegins
<1>3. ASSUME NEW r \in Requests, Continue(r) PROVE OverlapIInv'
  BY <1>3, RequestContinues
<1>4. ASSUME NEW p \in Processors,
             Work(p) \/ BeginRetry(p) \/ SendAgain(p) \/ SendFails(p) \/ CommitFails(p)
      PROVE  OverlapIInv'
  BY <1>1, <1>4, BatchesChangeNoTime
<1>5. CASE Crash
  <2>1. UNCHANGED <<life, time>>
    BY <1>5 DEF Crash, portal
  <2>2. CASE UNCHANGED req
    BY <1>1, <2>1, <2>2
  <2>3. CASE Finish(q)
    BY <2>1, <2>3, TimesStay, TheOnlyRequestEnds
  <2> QED
    BY <1>5, <2>2, <2>3 DEF Crash
<1>6. CASE UNCHANGED vars
  BY <1>1, <1>6 DEF vars
<1> QED
  BY <1>2, <1>3, <1>4, <1>5, <1>6 DEF Next

\* When requests come one at a time, no two appointments of a user on a ticket overlap,
\* apart from those of a full day, whatever is created, edited, deleted, retried or
\* crashes: the check reads every date an overlap can come from
\* (assertNoOverlappingAppointmentForUser, tickets-appointments.service.ts).
THEOREM NoOverlapOneAtATime ==
    ASSUME NEW q \in Requests, Requests = {q}
    PROVE  Spec => []NoOverlapShortOfADay
<1>1. Init => OverlapIInv
  BY OverlapInit
<1>2. TypeOK /\ OverlapIInv /\ [Next]_vars => OverlapIInv'
  BY OverlapNext
<1>3. OverlapIInv => NoOverlapShortOfADay
  BY DEF OverlapIInv, TimesOK
<1> QED
  BY <1>1, <1>2, <1>3, AppointmentTypes, PTL DEF Spec

-----------------------------------------------------------------------------
(* One batch at a time: copies beyond the first are accounted for.            *)

\* A set of at most as many elements, of one more or of one less.
Differs(S, T, d) ==
    \/ d = 0 /\ T \subseteq S
    \/ d = 1 /\ \E y : T \subseteq S \cup {y}
    \/ d = -1 /\ \E x \in S : T \subseteq S \ {x}

LEMMA DiffersBy ==
    ASSUME NEW S, NEW T, NEW d, Differs(S, T, d), IsFiniteSet(S)
    PROVE  /\ IsFiniteSet(T) /\ Cardinality(S) \in Nat /\ Cardinality(T) \in Nat
           /\ d \in {-1, 0, 1} /\ Cardinality(T) <= Cardinality(S) + d
<1>1. Cardinality(S) \in Nat
  BY FS_CardinalityType
<1>2. CASE d = 0 /\ T \subseteq S
  BY <1>1, <1>2, FS_Subset, FS_CardinalityType
<1>3. CASE d = 1 /\ \E y : T \subseteq S \cup {y}
  <2>1. PICK y : T \subseteq S \cup {y}
    BY <1>3
  <2>2. IsFiniteSet(S \cup {y}) /\ Cardinality(S \cup {y}) <= Cardinality(S) + 1
    BY <1>1, FS_AddElement
  <2>3. IsFiniteSet(T) /\ Cardinality(T) <= Cardinality(S \cup {y})
    BY <2>1, <2>2, FS_Subset
  <2> QED
    BY <1>1, <1>3, <2>2, <2>3, FS_CardinalityType
<1>4. CASE d = -1 /\ \E x \in S : T \subseteq S \ {x}
  <2>1. PICK x \in S : T \subseteq S \ {x}
    BY <1>4
  <2>2. IsFiniteSet(S \ {x}) /\ Cardinality(S \ {x}) = Cardinality(S) - 1
    BY FS_RemoveElement
  <2>3. IsFiniteSet(T) /\ Cardinality(T) <= Cardinality(S \ {x})
    BY <2>1, <2>2, FS_Subset
  <2> QED
    BY <1>1, <1>4, <2>2, <2>3, FS_CardinalityType
<1> QED
  BY <1>2, <1>3, <1>4 DEF Differs

InHand == {"createOverlap", "insert", "record", "updateOverlap", "reset"}
Sending == {"pauseCheck", "send"}

\* A row whose appointment may be sent, with p the one who sends.
IsOwed(p, r) ==
    \/ row[r].status \in {"PENDING", "FAILED"} /\ ~(proc[p].pc = "commit" /\ proc[p].row = r)
    \/ proc[p].pc \in Sending /\ proc[p].row = r

Owed(p, a) == {r \in Rows : row[r].appt = a /\ IsOwed(p, r)}

\* The requests that may make a row of an appointment one to be sent.
Asking(a) == {q \in Requests : req[q].appt = a /\ req[q].pc \in InHand}

Explained == 1 + count.errors + count.crashes + count.edits

\* The copies there are and those there may come to be.
Balanced(p, a) ==
    /\ IsFiniteSet(CopiesOf(a)) /\ IsFiniteSet(Owed(p, a)) /\ IsFiniteSet(Asking(a))
    /\ Cardinality(CopiesOf(a)) + Cardinality(Owed(p, a)) + Cardinality(Asking(a)) <= Explained

\* A row is of the appointment that names it.
Names(r, a) == r # 0 => row[r].status # "none" /\ row[r].appt = a

WorksOn(p) ==
    /\ proc[p].pc = "requeue" => \A r \in proc[p].batch : row[r].status \in {"FAILED", "PENDING", "deleted"}
    /\ proc[p].pc \in HasRow => row[proc[p].row].status \in {"PENDING", "deleted"}

NamesOK ==
    /\ \A a \in Appointments : Names(link[a], a)
    /\ \A q \in Requests : Names(req[q].outboxId, req[q].appt)

AccountIInv(p) == NamesOK /\ WorksOn(p) /\ \A a \in Appointments : Balanced(p, a)

\* What a step changes of the account of an appointment.
Changes(p, a, dc, do, dt, db) ==
    /\ Differs(CopiesOf(a), CopiesOf(a)', dc)
    /\ Differs(Owed(p, a), Owed(p, a)', do)
    /\ Differs(Asking(a), Asking(a)', dt)
    /\ Explained' = Explained + db
    /\ dc + do + dt <= db

LEMMA ExplainedType == ASSUME count \in Counters PROVE Explained \in Nat
  BY DEF Counters, Explained

LEMMA BalanceKept ==
    ASSUME NEW p, NEW a, Balanced(p, a), count \in Counters, NEW db \in Nat,
           NEW dc, NEW do, NEW dt, Changes(p, a, dc, do, dt, db)
    PROVE  Balanced(p, a)'
<1>1. /\ IsFiniteSet(CopiesOf(a)') /\ Cardinality(CopiesOf(a)) \in Nat /\ Cardinality(CopiesOf(a)') \in Nat
      /\ dc \in Int /\ Cardinality(CopiesOf(a)') <= Cardinality(CopiesOf(a)) + dc
  BY DiffersBy DEF Changes, Balanced
<1>2. /\ IsFiniteSet(Owed(p, a)') /\ Cardinality(Owed(p, a)) \in Nat /\ Cardinality(Owed(p, a)') \in Nat
      /\ do \in Int /\ Cardinality(Owed(p, a)') <= Cardinality(Owed(p, a)) + do
  BY DiffersBy DEF Changes, Balanced
<1>3. /\ IsFiniteSet(Asking(a)') /\ Cardinality(Asking(a)) \in Nat /\ Cardinality(Asking(a)') \in Nat
      /\ dt \in Int /\ Cardinality(Asking(a)') <= Cardinality(Asking(a)) + dt
  BY DiffersBy DEF Changes, Balanced
<1>4. /\ Explained \in Nat /\ Explained' = Explained + db /\ dc + do + dt <= db
      /\ Cardinality(CopiesOf(a)) + Cardinality(Owed(p, a)) + Cardinality(Asking(a)) <= Explained
  BY ExplainedType DEF Changes, Balanced
<1>5. Cardinality(CopiesOf(a)') + Cardinality(Owed(p, a)') + Cardinality(Asking(a)') <= Explained'
  BY <1>1, <1>2, <1>3, <1>4
<1> QED
  BY <1>1, <1>2, <1>3, <1>5 DEF Balanced

-----------------------------------------------------------------------------
(* Steps of requests.                                                         *)

LEMMA Stores ==
    ASSUME OutboxIInv
    PROVE  /\ row \in [Rows -> OutboxRow] /\ copy \in [Copies -> Copy] /\ count \in Counters
           /\ req \in [Requests -> Request] /\ proc \in [Processors -> Processor]
           /\ link \in [Appointments -> {0} \cup Rows]
           /\ life \in [Appointments -> {"new", "present", "deleted"}]
  BY TypesSplit DEF OutboxIInv, StoreTypes

\* What is counted.
LEMMA CountsBy ==
    ASSUME count \in Counters
    PROVE  /\ UNCHANGED count => Explained' = Explained + 0
           /\ Count("pauses") => Explained' = Explained + 0
           /\ \A what \in {"edits", "errors", "crashes"} : Count(what) => Explained' = Explained + 1
<1>1. UNCHANGED count => Explained' = Explained + 0
  BY DEF Explained, Counters
<1>2. Count("pauses") => Explained' = Explained + 0
  BY DEF Explained, Counters, Count
<1>3. Count("edits") => Explained' = Explained + 1
  BY DEF Explained, Counters, Count
<1>4. Count("errors") => Explained' = Explained + 1
  BY DEF Explained, Counters, Count
<1>5. Count("crashes") => Explained' = Explained + 1
  BY DEF Explained, Counters, Count
<1> QED
  BY <1>1, <1>2, <1>3, <1>4, <1>5

\* How the requests that ask for an appointment change.
LEMMA AskingBy ==
    ASSUME req \in [Requests -> Request], NEW q \in Requests, NEW x, req' = [req EXCEPT ![q] = x],
           NEW a
    PROVE  /\ Differs(Asking(a), Asking(a)', 1)
           /\ \/ x.pc \notin InHand
              \/ req[q].pc \in InHand /\ x.appt = req[q].appt
              \/ x.appt # a
              => Differs(Asking(a), Asking(a)', 0)
           /\ x.pc \notin InHand /\ req[q].pc \in InHand /\ req[q].appt = a
              => Differs(Asking(a), Asking(a)', -1)
<1>1. \A r \in Requests : req'[r] = IF r = q THEN x ELSE req[r]
  OBVIOUS
<1>2. Asking(a)' \subseteq Asking(a) \cup {q}
  BY <1>1 DEF Asking
<1>3. \/ x.pc \notin InHand
      \/ req[q].pc \in InHand /\ x.appt = req[q].appt
      \/ x.appt # a
      => Asking(a)' \subseteq Asking(a)
  BY <1>1 DEF Asking
<1>4. x.pc \notin InHand /\ req[q].pc \in InHand /\ req[q].appt = a
      => q \in Asking(a) /\ Asking(a)' \subseteq Asking(a) \ {q}
  BY <1>1 DEF Asking
<1> QED
  BY <1>2, <1>3, <1>4 DEF Differs

LEMMA SameSets == ASSUME NEW S, NEW T, S = T PROVE Differs(S, T, 0)
  BY DEF Differs

\* An appointment whose row is not there yet has neither rows to be sent nor copies.
LEMMA NothingOfNew ==
    ASSUME OutboxIInv, NEW p \in Processors, NEW a \in Appointments, life[a] = "new"
    PROVE  CopiesOf(a) = {} /\ Owed(p, a) = {}
<1>1. \A r \in Rows : row[r].status # "none" => row[r].appt # a
  BY DEF OutboxIInv, RowOK
<1>2. ASSUME NEW c \in CopiesOf(a) PROVE FALSE
  <2>1. c \in Copies /\ copy[c].row # 0 /\ row[copy[c].row].appt = a
    BY <1>2 DEF CopiesOf
  <2>2. copy[c].row \in Rows /\ row[copy[c].row].status # "none"
    BY <2>1, Stores DEF Copy, OutboxIInv, CopyOK
  <2> QED
    BY <1>1, <2>1, <2>2
<1>3. ASSUME NEW r \in Owed(p, a) PROVE FALSE
  <2>1. r \in Rows /\ row[r].appt = a /\ IsOwed(p, r)
    BY <1>3 DEF Owed
  <2>2. row[r].status # "none"
    BY <2>1 DEF IsOwed, Sending, HasRow, OutboxIInv, ProcessorOK
  <2> QED
    BY <1>1, <2>1, <2>2
<1> QED
  BY <1>2, <1>3

\* A request moves and leaves the outbox as it is.
LEMMA RequestMovesAccount ==
    ASSUME OutboxIInv, NEW p \in Processors, AccountIInv(p), UNCHANGED <<row, copy, proc>>,
           NEW db \in {0, 1}, Explained' = Explained + db,
           NEW q \in Requests, NEW x, req' = [req EXCEPT ![q] = x], Names(x.outboxId, x.appt),
           \A a \in Appointments : link'[a] = link[a] \/ Names(link'[a], a),
           \/ x.pc \notin InHand
           \/ req[q].pc \in InHand /\ x.appt = req[q].appt
           \/ db = 1
           \/ life[x.appt] = "new" /\ \A other \in Requests : req[other].appt # x.appt
    PROVE  AccountIInv(p)'
<1>1. \A r \in Requests : req'[r] = IF r = q THEN x ELSE req[r]
  BY Stores
<1>2. NamesOK'
  BY <1>1 DEF AccountIInv, NamesOK, Names
<1>3. WorksOn(p)'
  BY DEF AccountIInv, WorksOn
<1>4. ASSUME NEW a \in Appointments PROVE Balanced(p, a)'
  <2>1. Balanced(p, a) /\ count \in Counters /\ CopiesOf(a)' = CopiesOf(a) /\ Owed(p, a)' = Owed(p, a)
    BY Stores DEF AccountIInv, CopiesOf, Owed, IsOwed
  <2>2. Differs(CopiesOf(a), CopiesOf(a)', 0) /\ Differs(Owed(p, a), Owed(p, a)', 0)
    BY <2>1, SameSets
  <2>3. CASE Differs(Asking(a), Asking(a)', 0)
    <3>1. Changes(p, a, 0, 0, 0, db)
      BY <2>2, <2>3 DEF Changes
    <3> QED
      BY <2>1, <3>1, BalanceKept
  <2>4. CASE db = 1
    <3>a. Differs(Asking(a), Asking(a)', 1)
      BY AskingBy, Stores
    <3>1. Changes(p, a, 0, 0, 1, db)
      BY <2>2, <2>4, <3>a DEF Changes
    <3> QED
      BY <2>1, <3>1, BalanceKept
  <2>5. CASE x.appt = a /\ life[a] = "new" /\ \A other \in Requests : req[other].appt # a
    <3>1. CopiesOf(a) = {} /\ Owed(p, a) = {} /\ Asking(a) = {}
      BY <2>5, NothingOfNew DEF Asking
    <3>2. Asking(a)' \subseteq {q}
      BY <1>1, <2>5 DEF Asking
    <3>3. IsFiniteSet(Asking(a)') /\ Cardinality(Asking(a)') <= 1 /\ Cardinality(Asking(a)') \in Nat
      <4>1. IsFiniteSet({q}) /\ Cardinality({q}) = 1
        BY FS_Singleton
      <4>2. IsFiniteSet(Asking(a)') /\ Cardinality(Asking(a)') <= Cardinality({q})
        BY <3>2, <4>1, FS_Subset
      <4> QED
        BY <4>1, <4>2, FS_CardinalityType
    <3>4. Explained' \in Nat /\ Explained' >= 1
      BY <2>1 DEF Counters, Explained
    <3> QED
      BY <2>1, <3>1, <3>3, <3>4, FS_EmptySet DEF Balanced
  <2> QED
    BY <2>3, <2>4, <2>5, AskingBy, Stores
<1> QED
  BY <1>2, <1>3, <1>4 DEF AccountIInv

\* A request writes a row of the outbox: a new one or one that is there.
LEMMA RequestWritesRow ==
    ASSUME OutboxIInv, NEW p \in Processors, AccountIInv(p), UNCHANGED <<copy, proc, count>>,
           NEW r \in Rows, NEW y, row' = [row EXCEPT ![r] = y], y.status \in {"PENDING", "deleted"},
           row[r].status # "none" => y.appt = row[r].appt,
           NEW q \in Requests, NEW x, req' = [req EXCEPT ![q] = x], x.pc \notin InHand,
           Names(x.outboxId, x.appt)',
           y.status = "deleted" \/ (req[q].pc \in InHand /\ req[q].appt = y.appt),
           \A a \in Appointments : link'[a] = link[a] \/ link'[a] = 0
    PROVE  AccountIInv(p)'
<1>1. /\ \A s \in Requests : req'[s] = IF s = q THEN x ELSE req[s]
      /\ \A s \in Rows : row'[s] = IF s = r THEN y ELSE row[s]
      /\ count \in Counters /\ Explained' = Explained + 0
  BY Stores, CountsBy
<1>2. \A s \in Rows : row[s].status # "none" => row'[s].status # "none" /\ row'[s].appt = row[s].appt
  BY <1>1
<1>3. ASSUME NEW s \in {0} \cup Rows, NEW a, Names(s, a) PROVE Names(s, a)'
  BY <1>2, <1>3 DEF Names
<1>4. NamesOK'
  <2>1. ASSUME NEW a \in Appointments PROVE Names(link[a], a)'
    <3>1. link[a] \in {0} \cup Rows /\ Names(link[a], a)
      BY Stores DEF AccountIInv, NamesOK
    <3>2. PICK s \in {0} \cup Rows : s = link[a]
      BY <3>1
    <3>3. Names(s, a)'
      BY <1>3, <3>1, <3>2
    <3> QED
      BY <3>2, <3>3 DEF Names
  <2>2. ASSUME NEW s \in Requests PROVE Names(req[s].outboxId, req[s].appt)'
    <3>1. CASE s = q
      BY <1>1, <3>1 DEF Names
    <3>2. CASE s # q
      <4>1. req[s].outboxId \in {0} \cup Rows /\ Names(req[s].outboxId, req[s].appt)
        BY Stores DEF AccountIInv, NamesOK, Request
      <4>2. PICK id \in {0} \cup Rows : id = req[s].outboxId
        BY <4>1
      <4>3. PICK a : a = req[s].appt
        OBVIOUS
      <4>4. Names(id, a)'
        BY <1>3, <4>1, <4>2, <4>3
      <4> QED
        BY <1>1, <3>2, <4>2, <4>3, <4>4 DEF Names
    <3> QED
      BY <3>1, <3>2
  <2> QED
    BY <2>1, <2>2 DEF NamesOK
<1>5. WorksOn(p)'
  <2>1. ASSUME proc[p].pc = "requeue", NEW s \in proc[p].batch
        PROVE  row'[s].status \in {"FAILED", "PENDING", "deleted"}
    <3>1. s \in Rows
      BY <2>1, Stores DEF Processor
    <3> QED
      BY <1>1, <2>1, <3>1 DEF AccountIInv, WorksOn
  <2>2. ASSUME proc[p].pc \in HasRow PROVE row'[proc[p].row].status \in {"PENDING", "deleted"}
    <3>1. proc[p].row \in Rows
      BY <2>2 DEF OutboxIInv, ProcessorOK
    <3> QED
      BY <1>1, <2>2, <3>1 DEF AccountIInv, WorksOn
  <2> QED
    BY <2>1, <2>2 DEF WorksOn
<1>6. ASSUME NEW a \in Appointments PROVE Balanced(p, a)'
  <2>1. Balanced(p, a)
    BY DEF AccountIInv
  <2>2. CopiesOf(a)' = CopiesOf(a)
    <3>1. \A c \in Copies : copy[c].row # 0 => row'[copy[c].row].appt = row[copy[c].row].appt
      BY <1>2, Stores DEF Copy, OutboxIInv, CopyOK
    <3> QED
      BY <3>1 DEF CopiesOf
  <2>3. \A s \in Rows \ {r} : s \in Owed(p, a)' <=> s \in Owed(p, a)
    BY <1>1 DEF Owed, IsOwed
  <2>4. CASE y.status = "deleted"
    <3>1. r \in Owed(p, a)' => r \in Owed(p, a)
      BY <1>1, <2>4 DEF Owed, IsOwed, Sending, HasRow, OutboxIInv, ProcessorOK
    <3>2. Owed(p, a)' \subseteq Owed(p, a)
      BY <2>3, <3>1 DEF Owed
    <3>3. Differs(CopiesOf(a), CopiesOf(a)', 0) /\ Differs(Owed(p, a), Owed(p, a)', 0)
      BY <2>2, <3>2 DEF Differs
    <3>4. Differs(Asking(a), Asking(a)', 0)
      BY AskingBy, Stores
    <3>5. Changes(p, a, 0, 0, 0, 0)
      BY <1>1, <3>3, <3>4 DEF Changes
    <3> QED
      BY <1>1, <2>1, <3>5, BalanceKept
  <2>5. CASE y.status # "deleted" /\ y.appt = a
    <3>1. Owed(p, a)' \subseteq Owed(p, a) \cup {r}
      BY <2>3 DEF Owed
    <3>2. Differs(CopiesOf(a), CopiesOf(a)', 0) /\ Differs(Owed(p, a), Owed(p, a)', 1)
      BY <2>2, <3>1 DEF Differs
    <3>3. Differs(Asking(a), Asking(a)', -1)
      BY <2>5, AskingBy, Stores
    <3>4. Changes(p, a, 0, 1, -1, 0)
      BY <1>1, <3>2, <3>3 DEF Changes
    <3> QED
      BY <1>1, <2>1, <3>4, BalanceKept
  <2>6. CASE y.appt # a
    <3>1. Owed(p, a)' \subseteq Owed(p, a)
      BY <1>1, <2>3, <2>6 DEF Owed
    <3>2. Differs(CopiesOf(a), CopiesOf(a)', 0) /\ Differs(Owed(p, a), Owed(p, a)', 0)
      BY <2>2, <3>1 DEF Differs
    <3>3. Differs(Asking(a), Asking(a)', 0)
      BY AskingBy, Stores
    <3>4. Changes(p, a, 0, 0, 0, 0)
      BY <1>1, <3>2, <3>3 DEF Changes
    <3> QED
      BY <1>1, <2>1, <3>4, BalanceKept
  <2> QED
    BY <2>4, <2>5, <2>6
<1> QED
  BY <1>4, <1>5, <1>6 DEF AccountIInv

-----------------------------------------------------------------------------
(* Steps of the batch.                                                        *)

\* The batch moves and leaves the rows and the copies as they are.
LEMMA BatchMovesAccount ==
    ASSUME OutboxIInv, NEW p \in Processors, AccountIInv(p), UNCHANGED <<row, copy, req, link>>,
           NEW db \in {0, 1}, Explained' = Explained + db, count \in Counters,
           NEW x, proc'[p] = x,
           x.pc = "requeue" => \A r \in x.batch : row[r].status \in {"FAILED", "PENDING", "deleted"},
           x.pc \in HasRow => row[x.row].status \in {"PENDING", "deleted"},
           x.pc \in Sending => \/ row[x.row].status = "PENDING"
                               \/ proc[p].pc \in Sending /\ x.row = proc[p].row,
           proc[p].pc = "commit" => db = 1 \/ row[proc[p].row].status = "deleted"
    PROVE  AccountIInv(p)'
<1>1. NamesOK'
  BY DEF AccountIInv, NamesOK, Names
<1>2. WorksOn(p)'
  BY DEF WorksOn
<1>3. ASSUME NEW a \in Appointments PROVE Balanced(p, a)'
  <2>1. Balanced(p, a) /\ CopiesOf(a)' = CopiesOf(a) /\ Asking(a)' = Asking(a)
    BY DEF AccountIInv, CopiesOf, Asking
  <2>2. Differs(CopiesOf(a), CopiesOf(a)', 0) /\ Differs(Asking(a), Asking(a)', 0)
    BY <2>1, SameSets
  <2>3. Owed(p, a)' \subseteq Owed(p, a) \cup {proc[p].row}
    BY DEF Owed, IsOwed
  <2>4. CASE db = 1
    <3>1. Differs(Owed(p, a), Owed(p, a)', 1)
      BY <2>3 DEF Differs
    <3>2. Changes(p, a, 0, 1, 0, db)
      BY <2>2, <2>4, <3>1 DEF Changes
    <3> QED
      BY <2>1, <3>2, BalanceKept
  <2>5. CASE db = 0
    <3>1. ~(proc[p].pc = "commit" /\ row[proc[p].row].status \in {"PENDING", "FAILED"})
      BY <2>5
    <3>2. Owed(p, a)' \subseteq Owed(p, a)
      BY <3>1 DEF Owed, IsOwed
    <3>3. Differs(Owed(p, a), Owed(p, a)', 0)
      BY <3>2 DEF Differs
    <3>4. Changes(p, a, 0, 0, 0, db)
      BY <2>2, <2>5, <3>3 DEF Changes
    <3> QED
      BY <2>1, <3>4, BalanceKept
  <2> QED
    BY <2>4, <2>5
<1> QED
  BY <1>1, <1>2, <1>3 DEF AccountIInv

\* The batch makes a copy: the row is no longer one to be sent, or the call or
\* its attempt failed.
LEMMA CopyKeepsAccount ==
    ASSUME OutboxIInv, NEW p \in Processors, AccountIInv(p), UNCHANGED <<row, req, link>>,
           proc[p].pc = "send", NEW c \in Copies, MakeCopy(p, c), count \in Counters,
           NEW x, proc'[p] = x, x.row = proc[p].row,
           \/ x.pc = "commit" /\ Explained' = Explained + 0
           \/ x.pc \in {"send", "markFailed"} /\ Explained' = Explained + 1
    PROVE  AccountIInv(p)'
<1> DEFINE r == proc[p].row
<1>1. /\ copy'[c].row = r /\ r \in Rows /\ row[r].status # "none"
      /\ \A d \in Copies \ {c} : copy'[d] = copy[d]
  BY MadeCopy
<1>2. NamesOK'
  BY DEF AccountIInv, NamesOK, Names
<1>3. WorksOn(p)'
  BY DEF AccountIInv, WorksOn, HasRow
<1>4. ASSUME NEW a \in Appointments PROVE Balanced(p, a)'
  <2>1. Balanced(p, a) /\ Asking(a)' = Asking(a)
    BY DEF AccountIInv, Asking
  <2>2. Differs(Asking(a), Asking(a)', 0)
    BY <2>1, SameSets
  <2>3. CopiesOf(a)' \subseteq CopiesOf(a) \cup {c}
    BY <1>1 DEF CopiesOf
  <2>4. Differs(CopiesOf(a), CopiesOf(a)', 1)
    BY <2>3 DEF Differs
  <2>5. Owed(p, a)' \subseteq Owed(p, a)
    BY DEF Owed, IsOwed, Sending
  <2>6. Differs(Owed(p, a), Owed(p, a)', 0)
    BY <2>5 DEF Differs
  <2>7. CASE row[r].appt # a
    <3>1. CopiesOf(a)' \subseteq CopiesOf(a)
      BY <1>1, <2>7 DEF CopiesOf
    <3>2. Differs(CopiesOf(a), CopiesOf(a)', 0)
      BY <3>1 DEF Differs
    <3>3. PICK db \in {0, 1} : Explained' = Explained + db
      OBVIOUS
    <3>4. Changes(p, a, 0, 0, 0, db)
      BY <2>2, <2>6, <3>2, <3>3 DEF Changes
    <3> QED
      BY <2>1, <3>4, BalanceKept
  <2>8. CASE x.pc # "commit"
    <3>1. Explained' = Explained + 1
      BY <2>8
    <3>2. Changes(p, a, 1, 0, 0, 1)
      BY <2>2, <2>4, <2>6, <3>1 DEF Changes
    <3> QED
      BY <2>1, <3>2, BalanceKept
  <2>9. CASE x.pc = "commit" /\ row[r].appt = a
    <3>1. r \in Owed(p, a)
      BY <1>1, <2>9 DEF Owed, IsOwed, Sending
    <3>2. r \notin Owed(p, a)'
      BY <2>9 DEF Owed, IsOwed, Sending
    <3>3. Differs(Owed(p, a), Owed(p, a)', -1)
      BY <2>5, <3>1, <3>2 DEF Differs
    <3>4. Changes(p, a, 1, -1, 0, 0)
      BY <2>2, <2>4, <2>9, <3>3 DEF Changes
    <3> QED
      BY <2>1, <3>4, BalanceKept
  <2> QED
    BY <2>7, <2>8, <2>9
<1> QED
  BY <1>2, <1>3, <1>4 DEF AccountIInv

\* The batch writes rows, and none becomes one to be sent.
LEMMA BatchWritesRows ==
    ASSUME OutboxIInv, NEW p \in Processors, AccountIInv(p), UNCHANGED <<copy, req, link, count>>,
           proc'[p].pc \notin HasRow \cup {"requeue"},
           \A r \in Rows : row[r].status # "none" =>
               row'[r].status # "none" /\ row'[r].appt = row[r].appt,
           \A r \in Rows : row'[r].status \in {"PENDING", "FAILED"} =>
               /\ row[r].status \in {"PENDING", "FAILED"}
               /\ ~(proc[p].pc = "commit" /\ proc[p].row = r)
    PROVE  AccountIInv(p)'
<1>1. ASSUME NEW s \in {0} \cup Rows, NEW a, Names(s, a) PROVE Names(s, a)'
  BY <1>1 DEF Names
<1>2. NamesOK'
  <2>1. ASSUME NEW a \in Appointments PROVE Names(link[a], a)'
    <3>1. link[a] \in {0} \cup Rows /\ Names(link[a], a)
      BY Stores DEF AccountIInv, NamesOK
    <3>2. PICK s \in {0} \cup Rows : s = link[a]
      BY <3>1
    <3>3. Names(s, a)'
      BY <1>1, <3>1, <3>2
    <3> QED
      BY <3>2, <3>3 DEF Names
  <2>2. ASSUME NEW s \in Requests PROVE Names(req[s].outboxId, req[s].appt)'
    <3>1. req[s].outboxId \in {0} \cup Rows /\ Names(req[s].outboxId, req[s].appt)
      BY Stores DEF AccountIInv, NamesOK, Request
    <3>2. PICK id \in {0} \cup Rows : id = req[s].outboxId
      BY <3>1
    <3>3. PICK a : a = req[s].appt
      OBVIOUS
    <3>4. Names(id, a)'
      BY <1>1, <3>1, <3>2, <3>3
    <3> QED
      BY <3>2, <3>3, <3>4 DEF Names
  <2> QED
    BY <2>1, <2>2 DEF NamesOK
<1>3. WorksOn(p)'
  BY DEF WorksOn
<1>4. ASSUME NEW a \in Appointments PROVE Balanced(p, a)'
  <2>1. Balanced(p, a) /\ Asking(a)' = Asking(a) /\ count \in Counters
    BY Stores DEF AccountIInv, Asking
  <2>2. CopiesOf(a)' = CopiesOf(a)
    <3>1. \A c \in Copies : copy[c].row # 0 => row'[copy[c].row].appt = row[copy[c].row].appt
      BY Stores DEF Copy, OutboxIInv, CopyOK
    <3> QED
      BY <3>1 DEF CopiesOf
  <2>3. Owed(p, a)' \subseteq Owed(p, a)
    BY DEF Owed, IsOwed, Sending, HasRow
  <2>4. /\ Differs(CopiesOf(a), CopiesOf(a)', 0) /\ Differs(Owed(p, a), Owed(p, a)', 0)
        /\ Differs(Asking(a), Asking(a)', 0)
    BY <2>1, <2>2, <2>3 DEF Differs
  <2>5. Explained' = Explained + 0
    BY <2>1, CountsBy
  <2>6. Changes(p, a, 0, 0, 0, 0)
    BY <2>4, <2>5 DEF Changes
  <2> QED
    BY <2>1, <2>6, BalanceKept
<1> QED
  BY <1>2, <1>3, <1>4 DEF AccountIInv

\* A batch between two rows works on none, and one that dies either.
LEMMA Unladen ==
    ASSUME NEW p, NEW r
    PROVE  /\ Without(p, r).pc \in {"idle", "next"}
           /\ IdleProcessor.pc = "idle"
           /\ \A label, batch : [IdleProcessor EXCEPT !.pc = label, !.batch = batch].pc = label
  BY DEF Without, IdleProcessor

\* Every step of the one batch keeps the account.
LEMMA WorkKeepsAccount ==
    ASSUME OutboxIInv, NEW p \in Processors, AccountIInv(p),
           Work(p) \/ BeginRetry(p) \/ SendAgain(p) \/ SendFails(p) \/ CommitFails(p)
    PROVE  AccountIInv(p)'
<1>1. /\ row \in [Rows -> OutboxRow] /\ count \in Counters /\ proc \in [Processors -> Processor]
      /\ proc[p] \in Processor
  BY Stores
<1>2. /\ UNCHANGED count => Explained' = Explained + 0
      /\ Count("errors") => Explained' = Explained + 1
  BY <1>1, CountsBy
<1>3. ASSUME NEW x, Become(p, x) PROVE proc'[p] = x
  BY <1>1, <1>3 DEF Become
<1>4. ASSUME UNCHANGED <<portal, row, copy, req, count>>, NEW x, Become(p, x),
             x.pc \in {"idle", "next", "start"}, proc[p].pc # "commit"
      PROVE  AccountIInv(p)'
  BY <1>1, <1>2, <1>3, <1>4, BatchMovesAccount DEF portal, HasRow, Sending
<1>5. CASE BeginRetry(p)
  <2> DEFINE batch == WithStatus("FAILED")
             x == [IdleProcessor EXCEPT !.pc = "requeue", !.batch = batch]
  <2>1. Become(p, x) /\ UNCHANGED <<portal, row, copy, req, count>> /\ proc[p].pc = "idle"
    BY <1>5 DEF BeginRetry
  <2>2. x.pc = "requeue" /\ x.batch = batch
    BY DEF IdleProcessor
  <2>3. \A r \in batch : row[r].status = "FAILED"
    BY DEF WithStatus
  <2> HIDE DEF x, batch
  <2> QED
    BY <1>1, <1>2, <1>3, <2>1, <2>2, <2>3, BatchMovesAccount DEF portal, HasRow, Sending
<1>6. CASE Requeue(p)
  <2> DEFINE x == [IdleProcessor EXCEPT !.pc = "start"]
  <2>1. Become(p, x) /\ UNCHANGED <<copy, req, count, link>> /\ proc[p].pc = "requeue"
    BY <1>6 DEF Requeue, portal
  <2>2. x.pc = "start"
    BY DEF IdleProcessor
  <2> HIDE DEF x
  <2>3. ASSUME NEW r \in Rows
        PROVE  /\ row'[r].appt = row[r].appt
               /\ row[r].status # "none" => row'[r].status # "none"
               /\ row'[r].status \in {"PENDING", "FAILED"} => row[r].status \in {"PENDING", "FAILED"}
    <3>1. row[r] \in OutboxRow
      BY <1>1
    <3>2. CASE r \in proc[p].batch /\ Exists(r)
      <4>1. row'[r] = [row[r] EXCEPT !.status = "PENDING"]
        BY <1>6, <3>2 DEF Requeue
      <4>2. row[r].status \in {"PENDING", "FAILED"}
        BY <2>1, <3>2 DEF AccountIInv, WorksOn, Exists
      <4> QED
        BY <3>1, <4>1, <4>2 DEF OutboxRow
    <3>3. CASE ~(r \in proc[p].batch /\ Exists(r))
      BY <1>6, <3>3 DEF Requeue
    <3> QED
      BY <3>2, <3>3
  <2>4. proc'[p].pc \notin HasRow \cup {"requeue"}
    BY <1>3, <2>1, <2>2 DEF HasRow
  <2> QED
    BY <2>1, <2>3, <2>4, BatchWritesRows
<1>7. CASE StartBatch(p)
  <2> DEFINE batch == Oldest(BatchLimit, WithStatus("PENDING"))
             x == IF batch = {} THEN IdleProcessor
                  ELSE [IdleProcessor EXCEPT !.pc = "next", !.batch = batch]
  <2>1. Become(p, x) /\ UNCHANGED <<portal, row, copy, req, count>> /\ proc[p].pc # "commit"
    BY <1>7 DEF StartBatch
  <2>2. x.pc \in {"idle", "next"}
    <3> HIDE DEF batch
    <3> QED
      BY DEF IdleProcessor
  <2> HIDE DEF x
  <2> QED
    BY <1>4, <2>1, <2>2
<1>8. CASE TakeNext(p)
  <2>1. PICK r \in proc[p].batch :
            Become(p, IF row[r].status = "PENDING" THEN Taken(p, r) ELSE Without(p, r))
    BY <1>8 DEF TakeNext, Oldest
  <2>2. UNCHANGED <<portal, row, copy, req, count>> /\ proc[p].pc = "next"
    BY <1>8 DEF TakeNext
  <2>3. CASE row[r].status = "PENDING"
    <3> DEFINE x == Taken(p, r)
    <3>1. Become(p, x)
      BY <2>1, <2>3
    <3>2. x.pc = "pauseCheck" /\ x.row = r
      BY <1>1 DEF Taken, Processor
    <3> HIDE DEF x
    <3> QED
      BY <1>1, <1>2, <1>3, <2>2, <2>3, <3>1, <3>2, BatchMovesAccount DEF portal
  <2>4. CASE row[r].status # "PENDING"
    BY <1>4, <2>1, <2>2, <2>4, Unladen
  <2> QED
    BY <2>3, <2>4
<1>9. CASE CheckPaused(p)
  <2>1. /\ UNCHANGED <<portal, row, copy, req, count>> /\ proc[p].pc = "pauseCheck"
        /\ row[proc[p].row].status \in {"PENDING", "deleted"}
    BY <1>9 DEF CheckPaused, AccountIInv, WorksOn, HasRow
  <2>2. CASE IsPaused(proc[p].row)
    BY <1>4, <1>9, <2>1, <2>2, Unladen DEF CheckPaused, AfterPaused
  <2>3. CASE ~ IsPaused(proc[p].row)
    <3> DEFINE x == [proc[p] EXCEPT !.pc = "send"]
    <3>1. Become(p, x)
      BY <1>9, <2>3 DEF CheckPaused
    <3>2. x.pc = "send" /\ x.row = proc[p].row
      BY <1>1 DEF Processor
    <3> HIDE DEF x
    <3> QED
      BY <1>1, <1>2, <1>3, <2>1, <3>1, <3>2, BatchMovesAccount DEF portal, Sending
  <2> QED
    BY <2>2, <2>3
<1>10. CASE Send(p)
  <2>1. PICK c \in Copies :
            MakeCopy(p, c) /\ Become(p, [proc[p] EXCEPT !.pc = "commit", !.external = c])
    BY <1>10 DEF Send
  <2> DEFINE x == [proc[p] EXCEPT !.pc = "commit", !.external = c]
  <2>2. UNCHANGED <<row, req, link, count>> /\ proc[p].pc = "send"
    BY <1>10 DEF Send, portal
  <2>3. x.pc = "commit" /\ x.row = proc[p].row /\ Become(p, x)
    BY <1>1, <2>1 DEF Processor
  <2> HIDE DEF x
  <2> QED
    BY <1>1, <1>2, <1>3, <2>1, <2>2, <2>3, CopyKeepsAccount
<1>11. CASE SendAgain(p)
  <2>1. PICK c \in Copies : MakeCopy(p, c)
    BY <1>11 DEF SendAgain
  <2>2. UNCHANGED <<row, req, link>> /\ proc'[p] = proc[p] /\ proc[p].pc = "send" /\ Count("errors")
    BY <1>11 DEF SendAgain, portal
  <2> QED
    BY <1>1, <1>2, <2>1, <2>2, CopyKeepsAccount
<1>12. CASE SendFails(p) \/ CommitFails(p) \/ (Commit(p) /\ ~ Exists(proc[p].row))
  <2> DEFINE x == [proc[p] EXCEPT !.pc = "markFailed"]
  <2>1. /\ UNCHANGED <<row, req, link>> /\ proc[p].pc \in {"send", "commit"} /\ Become(p, x)
        /\ row[proc[p].row].status \in {"PENDING", "deleted"}
    BY <1>12 DEF SendFails, CommitFails, Commit, AfterFailedCall, portal, AccountIInv, WorksOn, HasRow
  <2>2. x.pc = "markFailed" /\ x.row = proc[p].row
    BY <1>1 DEF Processor
  <2> HIDE DEF x
  <2>3. proc'[p] = x
    BY <1>3, <2>1
  <2>4. CASE UNCHANGED copy /\ Count("errors")
    BY <1>1, <1>2, <2>1, <2>2, <2>3, <2>4, BatchMovesAccount DEF Sending
  <2>5. CASE SendFails(p) /\ ~ UNCHANGED copy
    <3>1. PICK c \in Copies : MakeCopy(p, c)
      BY <2>5 DEF SendFails
    <3>2. proc[p].pc = "send" /\ Count("errors")
      BY <2>5 DEF SendFails
    <3> QED
      BY <1>1, <1>2, <2>1, <2>2, <2>3, <3>1, <3>2, CopyKeepsAccount
  <2>6. CASE Commit(p) /\ ~ Exists(proc[p].row)
    <3>1. proc[p].row \in Rows
      BY <2>6 DEF Commit, OutboxIInv, ProcessorOK, HasRow
    <3>2. row[proc[p].row].status = "deleted" /\ UNCHANGED <<copy, count>>
      BY <2>1, <2>6, <3>1 DEF Commit, Exists
    <3> QED
      BY <1>1, <1>2, <2>1, <2>2, <2>3, <3>2, BatchMovesAccount DEF Sending
  <2> QED
    BY <1>12, <2>4, <2>5, <2>6 DEF SendFails, CommitFails
<1>13. ASSUME Exists(proc[p].row), NEW y, row' = [row EXCEPT ![proc[p].row] = y],
              y.appt = row[proc[p].row].appt, Become(p, Without(p, proc[p].row)),
              UNCHANGED <<copy, req, link, count>>, proc[p].pc \in {"commit", "markFailed"},
              \/ y.status = "SYNCED"
              \/ y.status = "FAILED" /\ proc[p].pc = "markFailed"
       PROVE  AccountIInv(p)'
  <2> DEFINE r == proc[p].row
  <2>1. r \in Rows /\ row[r].status = "PENDING"
    BY <1>13 DEF Exists, AccountIInv, WorksOn, HasRow
  <2>2. \A s \in Rows : row'[s] = IF s = r THEN y ELSE row[s]
    BY <1>1, <1>13
  <2>3. proc'[p].pc \notin HasRow \cup {"requeue"}
    BY <1>3, <1>13, Unladen DEF HasRow
  <2>4. \A s \in Rows : row[s].status # "none" =>
            row'[s].status # "none" /\ row'[s].appt = row[s].appt
    BY <1>13, <2>2
  <2>5. \A s \in Rows : row'[s].status \in {"PENDING", "FAILED"} =>
            /\ row[s].status \in {"PENDING", "FAILED"}
            /\ ~(proc[p].pc = "commit" /\ r = s)
    BY <1>13, <2>1, <2>2
  <2> QED
    BY <1>13, <2>3, <2>4, <2>5, BatchWritesRows
<1>14. CASE Commit(p) /\ Exists(proc[p].row)
  <2> DEFINE y == Committed(proc[p].row, proc[p].external)
  <2>1. /\ row' = [row EXCEPT ![proc[p].row] = y] /\ Become(p, Without(p, proc[p].row))
        /\ UNCHANGED <<copy, req, link, count>> /\ proc[p].pc = "commit"
    BY <1>14 DEF Commit
  <2>2. y.status = "SYNCED" /\ y.appt = row[proc[p].row].appt
    BY <1>1, <1>14 DEF Committed, Exists, OutboxRow
  <2> HIDE DEF y
  <2> QED
    BY <1>13, <1>14, <2>1, <2>2
<1>15. CASE MarkFailed(p)
  <2>1. UNCHANGED <<portal, copy, req, count>> /\ UNCHANGED link /\ proc[p].pc = "markFailed"
    BY <1>15 DEF MarkFailed, portal
  <2>2. CASE Exists(proc[p].row)
    <3> DEFINE y == [row[proc[p].row] EXCEPT !.status = "FAILED"]
    <3>1. row' = [row EXCEPT ![proc[p].row] = y] /\ Become(p, Without(p, proc[p].row))
      BY <1>15, <2>2 DEF MarkFailed
    <3>2. y.status = "FAILED" /\ y.appt = row[proc[p].row].appt
      BY <1>1, <2>2 DEF Exists, OutboxRow
    <3> HIDE DEF y
    <3> QED
      BY <1>13, <2>1, <2>2, <3>1, <3>2
  <2>3. CASE ~ Exists(proc[p].row)
    <3>1. Become(p, IdleProcessor) /\ UNCHANGED row
      BY <1>15, <2>3 DEF MarkFailed
    <3> QED
      BY <1>4, <2>1, <3>1, Unladen
  <2> QED
    BY <2>2, <2>3
<1> QED
  BY <1>5, <1>6, <1>7, <1>8, <1>9, <1>10, <1>11, <1>12, <1>14, <1>15 DEF Work

-----------------------------------------------------------------------------
(* Every step keeps the account.                                              *)

LEMMA BeginKeepsAccount ==
    ASSUME OutboxIInv, NEW p \in Processors, AccountIInv(p),
           NEW q \in Requests, NEW a \in Appointments, Begin(q, a)
    PROVE  AccountIInv(p)'
<1>1. /\ req \in [Requests -> Request] /\ count \in Counters
      /\ Names(0, a) /\ Names(link[a], a)
  BY Stores DEF AccountIInv, NamesOK, Names
<1>2. UNCHANGED <<row, copy, proc, link>>
  BY DEF Begin, BeginCreate, BeginUpdate, BeginDelete, BeginPause, BeginResume, portal
<1>3. /\ UNCHANGED count => Explained' = Explained + 0
      /\ Count("pauses") => Explained' = Explained + 0
      /\ Count("edits") => Explained' = Explained + 1
  BY <1>1, CountsBy
<1>4. ASSUME NEW dto \in Dtos, BeginCreate(q, a, dto) PROVE AccountIInv(p)'
  <2> DEFINE x == [IdleRequest EXCEPT !.pc = "createOverlap", !.appt = a, !.dto = dto]
  <2>1. x.appt = a /\ x.outboxId = 0
    BY DEF IdleRequest
  <2>2. /\ req' = [req EXCEPT ![q] = x] /\ life[a] = "new" /\ UNCHANGED count
        /\ \A other \in Requests : req[other].appt # a
    BY <1>4 DEF BeginCreate
  <2> HIDE DEF x
  <2> QED
    BY <1>1, <1>2, <1>3, <2>1, <2>2, RequestMovesAccount
<1>5. ASSUME NEW dto \in Dtos, BeginUpdate(q, a, dto) PROVE AccountIInv(p)'
  <2> DEFINE x == [pc |-> "updateOverlap", appt |-> a, dto |-> dto,
                   outboxId |-> link[a], sync |-> sync[a]]
  <2>1. x.appt = a /\ x.outboxId = link[a]
    OBVIOUS
  <2>2. req' = [req EXCEPT ![q] = x] /\ Count("edits")
    BY <1>5 DEF BeginUpdate
  <2> HIDE DEF x
  <2> QED
    BY <1>1, <1>2, <1>3, <2>1, <2>2, RequestMovesAccount
<1>6. ASSUME UNCHANGED count \/ Count("pauses"), NEW x, req' = [req EXCEPT ![q] = x],
             x.pc \in {"checkOutbox", "remove", "pause", "resume"},
             x.appt = a, x.outboxId \in {0, link[a]}
      PROVE  AccountIInv(p)'
  <2>1. x.pc \notin InHand
    BY <1>6 DEF InHand
  <2>2. Names(x.outboxId, x.appt) /\ Explained' = Explained + 0
    BY <1>1, <1>3, <1>6
  <2> QED
    BY <1>2, <1>6, <2>1, <2>2, RequestMovesAccount
<1>7. CASE BeginDelete(q, a)
  <2>1. PICK label \in {"checkOutbox", "remove"} :
            req' = [req EXCEPT ![q] = [IdleRequest EXCEPT !.pc = label, !.appt = a, !.outboxId = link[a]]]
    BY <1>7 DEF BeginDelete
  <2> DEFINE x == [IdleRequest EXCEPT !.pc = label, !.appt = a, !.outboxId = link[a]]
  <2>2. x.pc = label /\ x.appt = a /\ x.outboxId = link[a]
    BY DEF IdleRequest
  <2>3. UNCHANGED count
    BY <1>7 DEF BeginDelete
  <2>4. req' = [req EXCEPT ![q] = x]
    BY <2>1
  <2> HIDE DEF x
  <2> QED
    BY <1>6, <2>2, <2>3, <2>4
<1>8. CASE BeginPause(q, a) \/ BeginResume(q, a)
  <2>1. PICK label \in {"pause", "resume"} :
            req' = [req EXCEPT ![q] = [IdleRequest EXCEPT !.pc = label, !.appt = a]]
    BY <1>8 DEF BeginPause, BeginResume
  <2> DEFINE x == [IdleRequest EXCEPT !.pc = label, !.appt = a]
  <2>2. x.pc = label /\ x.appt = a /\ x.outboxId = 0
    BY DEF IdleRequest
  <2>3. UNCHANGED count \/ Count("pauses")
    BY <1>8 DEF BeginPause, BeginResume
  <2>4. req' = [req EXCEPT ![q] = x]
    BY <2>1
  <2> HIDE DEF x
  <2> QED
    BY <1>6, <2>2, <2>3, <2>4
<1> QED
  BY <1>4, <1>5, <1>7, <1>8 DEF Begin

\* A request ends, or goes on to where it has no more to do with the outbox than before.
LEMMA RequestGoesOnAccount ==
    ASSUME OutboxIInv, NEW p \in Processors, AccountIInv(p), NEW q \in Requests,
           UNCHANGED <<row, copy, proc>>,
           NEW db \in {0, 1}, Explained' = Explained + db,
           \A a \in Appointments : link'[a] = link[a] \/ Names(link'[a], a),
           \/ Finish(q)
           \/ \E label : Goto(q, label) /\ (label \in InHand => req[q].pc \in InHand)
    PROVE  AccountIInv(p)'
<1>1. req \in [Requests -> Request] /\ Names(req[q].outboxId, req[q].appt)
  BY Stores DEF AccountIInv, NamesOK
<1>2. CASE Finish(q)
  <2>1. /\ IdleRequest.pc \notin InHand
        /\ Names(IdleRequest.outboxId, IdleRequest.appt)
        /\ req' = [req EXCEPT ![q] = IdleRequest]
    BY <1>2 DEF IdleRequest, Names, Finish, InHand
  <2> QED
    BY <2>1, RequestMovesAccount
<1>3. CASE \E label : Goto(q, label) /\ (label \in InHand => req[q].pc \in InHand)
  <2>1. PICK label : Goto(q, label) /\ (label \in InHand => req[q].pc \in InHand)
    BY <1>3
  <2> DEFINE x == [req[q] EXCEPT !.pc = label]
  <2>2. /\ req' = [req EXCEPT ![q] = x]
        /\ x.pc = label /\ x.appt = req[q].appt /\ x.outboxId = req[q].outboxId
    BY <1>1, <2>1 DEF Goto, Request
  <2> HIDE DEF x
  <2> QED
    BY <1>1, <2>1, <2>2, RequestMovesAccount
<1> QED
  BY <1>2, <1>3

\* A request records a new row for its appointment.
LEMMA RecordKeepsAccount ==
    ASSUME OutboxIInv, NEW p \in Processors, AccountIInv(p), NEW q \in Requests,
           req[q].pc \in InHand, NEW r \in Rows, RecordOutbox(r, req[q].appt, req[q].dto),
           NEW x, req' = [req EXCEPT ![q] = x],
           x.pc \in {"link", "write"}, x.appt = req[q].appt, x.outboxId = r,
           UNCHANGED <<link, copy, proc, count>>
    PROVE  AccountIInv(p)'
<1>1. req \in [Requests -> Request] /\ row \in [Rows -> OutboxRow]
  BY Stores
<1>2. PICK y : /\ row' = [row EXCEPT ![r] = y] /\ row[r].status = "none"
               /\ y.status = "PENDING" /\ y.appt = req[q].appt
  <2> DEFINE y == [status |-> "PENDING", appt |-> req[q].appt, time |-> req[q].dto, external |-> 0]
  <2>1. /\ row' = [row EXCEPT ![r] = y] /\ row[r].status = "none"
        /\ y.status = "PENDING" /\ y.appt = req[q].appt
    BY DEF RecordOutbox
  <2> QED
    BY <2>1
<1>3. Names(x.outboxId, x.appt)'
  BY <1>1, <1>2 DEF Names
<1>4. x.pc \notin InHand
  BY DEF InHand
<1>5. /\ UNCHANGED <<copy, proc, count>>
      /\ req[q].pc \in InHand /\ req[q].appt = y.appt
      /\ y.status \in {"PENDING", "deleted"}
      /\ row[r].status # "none" => y.appt = row[r].appt
      /\ \A a \in Appointments : link'[a] = link[a] \/ link'[a] = 0
  BY <1>2
<1> QED
  BY <1>2, <1>3, <1>4, <1>5, RequestWritesRow

LEMMA ContinueKeepsAccount ==
    ASSUME OutboxIInv, NEW p \in Processors, AccountIInv(p), NEW q \in Requests, Continue(q)
    PROVE  AccountIInv(p)'
<1>1. /\ req \in [Requests -> Request] /\ row \in [Rows -> OutboxRow] /\ count \in Counters
      /\ link \in [Appointments -> {0} \cup Rows] /\ Names(req[q].outboxId, req[q].appt)
  BY Stores DEF AccountIInv, NamesOK
<1>2. req[q].appt \in Appointments
  BY InFlight DEF Continue, CheckOverlap, Insert, Record, Link, Reset, Write, CheckOutbox,
                  DropOutbox, Remove, SetPaused
<1>3. UNCHANGED count => Explained' = Explained + 0
  BY <1>1, CountsBy
<1>4. CASE CheckOverlap(q)
  <2>1. /\ UNCHANGED <<row, copy, proc, count, link>>
        /\ req[q].pc \in InHand
        /\ Finish(q) \/ \E label : Goto(q, label)
    BY <1>4 DEF CheckOverlap, portal, InHand
  <2> QED
    BY <1>3, <2>1, RequestGoesOnAccount
<1>5. CASE Insert(q)
  <2>1. /\ UNCHANGED <<row, copy, proc, count, link>>
        /\ req[q].pc \in InHand
        /\ Finish(q) \/ \E label : Goto(q, label)
    BY <1>5 DEF Insert, InHand
  <2> QED
    BY <1>3, <2>1, RequestGoesOnAccount
<1>6. CASE CheckOutbox(q)
  <2>1. /\ UNCHANGED <<row, copy, proc, count, link>>
        /\ \E label : Goto(q, label) /\ label \notin InHand
    BY <1>6 DEF CheckOutbox, portal, InHand
  <2> QED
    BY <1>3, <2>1, RequestGoesOnAccount
<1>7. CASE Remove(q) \/ SetPaused(q) \/ Link(q) \/ Write(q)
  <2>1. /\ UNCHANGED <<row, copy, proc, count>> /\ Finish(q)
        /\ link' \in {link, [link EXCEPT ![req[q].appt] = req[q].outboxId]}
    BY <1>7 DEF Remove, SetPaused, Link, Write
  <2>2. \A a \in Appointments : link'[a] = link[a] \/ Names(link'[a], a)
    BY <1>1, <2>1
  <2> QED
    BY <1>3, <2>1, <2>2, RequestGoesOnAccount
<1>8. CASE DropOutbox(q)
  <2> DEFINE r == req[q].outboxId
  <2>1. UNCHANGED <<copy, proc, count>> /\ Goto(q, "remove") /\ "remove" \notin InHand
    BY <1>8 DEF DropOutbox, InHand
  <2>2. CASE ~ Exists(r)
    <3>1. UNCHANGED <<row, link>>
      BY <1>8, <2>2 DEF DropOutbox
    <3> QED
      BY <1>3, <2>1, <3>1, RequestGoesOnAccount
  <2>3. CASE Exists(r)
    <3>1. PICK x : /\ req' = [req EXCEPT ![q] = x]
                   /\ x.pc = "remove" /\ x.appt = req[q].appt /\ x.outboxId = r
      <4> DEFINE x == [req[q] EXCEPT !.pc = "remove"]
      <4>1. /\ req' = [req EXCEPT ![q] = x]
            /\ x.pc = "remove" /\ x.appt = req[q].appt /\ x.outboxId = r
        BY <1>1, <2>1 DEF Goto, Request
      <4> QED
        BY <4>1
    <3>2. PICK s \in Rows : s = r /\ row[s].status # "none" /\ s # 0 /\ row[s].appt = req[q].appt
      BY <1>1, <2>3 DEF Exists, Rows, Names
    <3>3. PICK y : row' = [row EXCEPT ![s] = y] /\ y.status = "deleted" /\ y.appt = row[s].appt
      <4> DEFINE y == [row[s] EXCEPT !.status = "deleted"]
      <4>1. row' = [row EXCEPT ![s] = y] /\ y.status = "deleted" /\ y.appt = row[s].appt
        BY <1>1, <1>8, <2>3, <3>2 DEF DropOutbox, OutboxRow
      <4> QED
        BY <4>1
    <3>4. \A a \in Appointments : link'[a] = link[a] \/ link'[a] = 0
      BY <1>8, <2>3 DEF DropOutbox
    <3>5. Names(x.outboxId, x.appt)'
      BY <1>1, <3>1, <3>2, <3>3 DEF Names
    <3>6. x.pc \notin InHand
      BY <2>1, <3>1
    <3> QED
      BY <2>1, <3>1, <3>2, <3>3, <3>4, <3>5, <3>6, RequestWritesRow
  <2> QED
    BY <2>2, <2>3
<1>9. CASE Record(q)
  <2>1. PICK r \in Rows : /\ RecordOutbox(r, req[q].appt, req[q].dto)
                          /\ req' = [req EXCEPT ![q].pc = "link", ![q].outboxId = r]
    BY <1>9 DEF Record
  <2>2. UNCHANGED <<link, copy, proc, count>> /\ req[q].pc \in InHand
    BY <1>9 DEF Record, portal, InHand
  <2>3. PICK x : /\ req' = [req EXCEPT ![q] = x]
                 /\ x.pc = "link" /\ x.appt = req[q].appt /\ x.outboxId = r
    <3> DEFINE x == [req[q] EXCEPT !.pc = "link", !.outboxId = r]
    <3>1. req' = [req EXCEPT ![q] = x]
      BY <1>1, <2>1
    <3>2. x.pc = "link" /\ x.appt = req[q].appt /\ x.outboxId = r
      BY <1>1 DEF Request
    <3> QED
      BY <3>1, <3>2
  <2>4. RecordOutbox(r, req[q].appt, req[q].dto)
    BY <2>1
  <2> QED
    BY <2>2, <2>3, <2>4, RecordKeepsAccount
<1>10. CASE Reset(q)
  <2> DEFINE r == req[q].outboxId
  <2>1. UNCHANGED <<link, copy, proc, count>> /\ req[q].pc = "reset" /\ req[q].pc \in InHand
    BY <1>10 DEF Reset, portal, InHand
  <2>2. CASE r = 0
    <3>1. PICK new \in Rows : /\ RecordOutbox(new, req[q].appt, req[q].dto)
                              /\ req' = [req EXCEPT ![q].pc = "write", ![q].outboxId = new]
      BY <1>10, <2>2 DEF Reset
    <3>2. PICK x : /\ req' = [req EXCEPT ![q] = x]
                   /\ x.pc = "write" /\ x.appt = req[q].appt /\ x.outboxId = new
      <4> DEFINE x == [req[q] EXCEPT !.pc = "write", !.outboxId = new]
      <4>1. req' = [req EXCEPT ![q] = x]
        BY <1>1, <3>1
      <4>2. x.pc = "write" /\ x.appt = req[q].appt /\ x.outboxId = new
        BY <1>1 DEF Request
      <4> QED
        BY <4>1, <4>2
    <3>3. RecordOutbox(new, req[q].appt, req[q].dto)
      BY <3>1
    <3> QED
      BY <2>1, <3>2, <3>3, RecordKeepsAccount
  <2>3. CASE r # 0 /\ ~ Exists(r)
    <3>1. UNCHANGED row /\ Finish(q)
      BY <1>10, <2>3 DEF Reset
    <3> QED
      BY <1>3, <2>1, <3>1, RequestGoesOnAccount
  <2>4. CASE r # 0 /\ Exists(r)
    <3>1. PICK x : /\ req' = [req EXCEPT ![q] = x]
                   /\ x.pc = "write" /\ x.appt = req[q].appt /\ x.outboxId = r
      <4> DEFINE x == [req[q] EXCEPT !.pc = "write"]
      <4>1. /\ req' = [req EXCEPT ![q] = x]
            /\ x.pc = "write" /\ x.appt = req[q].appt /\ x.outboxId = r
        BY <1>1, <1>10, <2>4 DEF Reset, Goto, Request
      <4> QED
        BY <4>1
    <3>2. PICK s \in Rows : s = r /\ row[s].status # "none" /\ row[s].appt = req[q].appt
      BY <1>1, <2>4 DEF Exists, Names
    <3>3. PICK y : row' = [row EXCEPT ![s] = y] /\ y.status = "PENDING" /\ y.appt = row[s].appt
      <4> DEFINE y == [row[s] EXCEPT !.status = "PENDING", !.time = req[q].dto]
      <4>1. row' = [row EXCEPT ![s].status = "PENDING", ![s].time = req[q].dto]
        BY <1>10, <2>4, <3>2 DEF Reset
      <4>2. row' = [row EXCEPT ![s] = y]
        BY <1>1, <4>1
      <4>3. y.status = "PENDING" /\ y.appt = row[s].appt
        BY <1>1 DEF OutboxRow
      <4> QED
        BY <4>2, <4>3
    <3>4. Names(x.outboxId, x.appt)'
      BY <1>1, <3>1, <3>2, <3>3 DEF Names
    <3>5. x.pc \notin InHand
      BY <3>1 DEF InHand
    <3> QED
      BY <2>1, <3>1, <3>2, <3>3, <3>4, <3>5, RequestWritesRow
  <2> QED
    BY <2>2, <2>3, <2>4
<1> QED
  BY <1>4, <1>5, <1>6, <1>7, <1>8, <1>9, <1>10 DEF Continue

LEMMA CrashKeepsAccount ==
    ASSUME OutboxIInv, NEW p \in Processors, Processors = {p}, AccountIInv(p), Crash
    PROVE  AccountIInv(p)'
<1>1. /\ count \in Counters /\ UNCHANGED <<row, copy, link>> /\ Explained' = Explained + 1
      /\ proc \in [Processors -> Processor]
  <2>1. count \in Counters /\ Count("crashes") /\ proc \in [Processors -> Processor]
    BY Stores DEF Crash
  <2>2. Explained' = Explained + 1
    BY <2>1, CountsBy
  <2> QED
    BY <2>1, <2>2 DEF Crash, portal
<1>2. ASSUME NEW q \in Requests, Finish(q), UNCHANGED proc PROVE AccountIInv(p)'
  BY <1>1, <1>2, RequestGoesOnAccount
<1>3. ASSUME Become(p, IdleProcessor), UNCHANGED req PROVE AccountIInv(p)'
  <2>1. proc'[p] = IdleProcessor /\ IdleProcessor.pc = "idle"
    BY <1>1, <1>3, Unladen DEF Become
  <2> QED
    BY <1>1, <1>3, <2>1, BatchMovesAccount DEF HasRow, Sending
<1> QED
  BY <1>2, <1>3 DEF Crash

LEMMA AccountInit == ASSUME NEW p \in Processors, Init PROVE AccountIInv(p)
<1>1. OutboxIInv
  BY OutboxInvInit
<1>2. NamesOK
  BY DEF Init, NamesOK, Names, IdleRequest
<1>3. WorksOn(p)
  BY DEF Init, WorksOn, IdleProcessor, HasRow
<1>4. ASSUME NEW a \in Appointments PROVE Balanced(p, a)
  <2>1. CopiesOf(a) = {} /\ Owed(p, a) = {}
    BY <1>1, NothingOfNew DEF Init
  <2>2. Asking(a) = {}
    BY DEF Init, Asking, IdleRequest, InHand
  <2>3. Explained = 1
    BY DEF Init, Explained
  <2>4. IsFiniteSet({}) /\ Cardinality({}) = 0
    BY FS_EmptySet
  <2> QED
    BY <2>1, <2>2, <2>3, <2>4 DEF Balanced
<1> QED
  BY <1>2, <1>3, <1>4 DEF AccountIInv

LEMMA AccountNext ==
    ASSUME OutboxIInv, NEW p \in Processors, Processors = {p}, AccountIInv(p), [Next]_vars
    PROVE  AccountIInv(p)'
<1>1. CASE UNCHANGED vars
  BY <1>1 DEF vars, AccountIInv, NamesOK, Names, WorksOn, Balanced, CopiesOf, Owed, IsOwed,
              Asking, Explained
<1>2. ASSUME NEW q \in Requests, NEW a \in Appointments, Begin(q, a) PROVE AccountIInv(p)'
  BY <1>2, BeginKeepsAccount
<1>3. ASSUME NEW q \in Requests, Continue(q) PROVE AccountIInv(p)'
  BY <1>3, ContinueKeepsAccount
<1>4. ASSUME Work(p) \/ BeginRetry(p) \/ SendAgain(p) \/ SendFails(p) \/ CommitFails(p)
      PROVE  AccountIInv(p)'
  BY <1>4, WorkKeepsAccount
<1>5. CASE Crash
  BY <1>5, CrashKeepsAccount
<1> QED
  BY <1>1, <1>2, <1>3, <1>4, <1>5 DEF Next

\* When batches come one at a time, an appointment is sent again only after a call
\* or an attempt that failed, a crash or an edit, whatever users and batches do
\* between each other's queries: no pause, retry or deletion sends one twice
\* (processOne, retryFailed, resetPortalAppointmentOutbox).
THEOREM CopiesAreExplained ==
    ASSUME NEW p \in Processors, Processors = {p}
    PROVE  Spec => []DuplicatesAreExplained
<1>1. Init => AccountIInv(p)
  BY AccountInit
<1>2. OutboxIInv /\ AccountIInv(p) /\ [Next]_vars => AccountIInv(p)'
  BY AccountNext
<1>3. OutboxIInv /\ AccountIInv(p) => DuplicatesAreExplained
  <2> SUFFICES ASSUME OutboxIInv, AccountIInv(p), NEW a \in Appointments
               PROVE  Cardinality(CopiesOf(a)) <= Explained
    BY DEF DuplicatesAreExplained, Explained
  <2>1. Balanced(p, a) /\ Explained \in Nat
    BY Stores, ExplainedType DEF AccountIInv
  <2>2. /\ Cardinality(CopiesOf(a)) \in Nat /\ Cardinality(Owed(p, a)) \in Nat
        /\ Cardinality(Asking(a)) \in Nat
    BY <2>1, FS_CardinalityType DEF Balanced
  <2>3. Cardinality(CopiesOf(a)) + Cardinality(Owed(p, a)) + Cardinality(Asking(a)) <= Explained
    BY <2>1 DEF Balanced
  <2> QED
    BY <2>1, <2>2, <2>3
<1> QED
  BY <1>1, <1>2, <1>3, OutboxInvariant, PTL DEF Spec
=============================================================================
