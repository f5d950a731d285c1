----------------------------- MODULE Appointments -----------------------------
(***************************************************************************)
(* The appointments one user registers on one ticket, and the outbox that  *)
(* sends them to TiFlux, translated from tickets-appointments.service.ts   *)
(* (create, update, delete, pause, resume), tickets-outbox.service.ts and  *)
(* the callers of processPendingBatch: the cron of the API, the one of the *)
(* outbox worker, the administrator and the reconciliation.                *)
(*                                                                         *)
(* Requests and batches are split at their queries: what they read may be  *)
(* stale when they write.  The outbox has no lock on its rows.  A call to  *)
(* TiFlux that fails may have made its copy of the appointment.            *)
(***************************************************************************)
EXTENDS AppointmentTimes, FiniteSets

CONSTANTS
    Appointments,   \* the appointments that may be created
    Dtos,           \* the times requests may ask for
    Requests,       \* slots for requests of users in flight
    Processors,     \* who calls processPendingBatch
    AdminRuns,      \* those of them that may call retryFailed first
    BatchLimit,     \* rows a batch takes (15 for the cron, 50 for the others)
    MaxRows,        \* bound: outbox rows
    MaxCopies,      \* bound: appointments made in TiFlux
    MaxEdits,       \* bound: updates
    MaxPauses,      \* bound: pauses
    MaxErrors,      \* bound: calls or transactions that fail
    MaxCrashes,     \* bound: requests or batches that die half way
    Nothing         \* no appointment, no time

ASSUME AdminRunsAssumption == AdminRuns \subseteq Processors
ASSUME DtosAssumption == Dtos \subseteq DtoType
ASSUME NothingAssumption == Nothing \notin Appointments /\ Nothing \notin Dtos
ASSUME BoundsAssumption ==
    /\ BatchLimit \in Nat /\ MaxRows \in Nat /\ MaxCopies \in Nat
    /\ MaxEdits \in Nat /\ MaxPauses \in Nat /\ MaxErrors \in Nat /\ MaxCrashes \in Nat

VARIABLES
    life,       \* whether the row of an appointment is there
    time,       \* its date, initTime and endTime
    sync,       \* its syncStatus
    paused,     \* whether its syncPausedAt is set
    link,       \* its outboxId, 0 when null
    external,   \* its tifluxAppointmentExternalId, 0 when null
    row,        \* the rows of portal_tiflux_outbox
    copy,       \* the appointments made in TiFlux, by external id
    req,        \* the requests in flight
    proc,       \* the batches in flight
    count       \* what the bounds count

portal == <<life, time, sync, paused, link, external>>
vars == <<life, time, sync, paused, link, external, row, copy, req, proc, count>>

-----------------------------------------------------------------------------
\* Types

Rows == 1..MaxRows
Copies == 1..MaxCopies

RowStates == {"none", "PENDING", "SYNCED", "FAILED", "deleted"}
SyncStates == {"PORTAL_ONLY", "PENDING_TIFLUX", "SYNCED"}

OutboxRow == [status: RowStates, appt: Appointments \cup {Nothing},
              time: Dtos \cup {Nothing}, external: {0} \cup Copies]

Copy == [row: {0} \cup Rows, time: Dtos \cup {Nothing}]

RequestPCs == {"idle", "createOverlap", "insert", "record", "link",
               "updateOverlap", "reset", "write", "checkOutbox", "dropOutbox",
               "remove", "pause", "resume"}

Request == [pc: RequestPCs, appt: Appointments \cup {Nothing},
            dto: Dtos \cup {Nothing}, outboxId: {0} \cup Rows, sync: SyncStates]

ProcessorPCs == {"idle", "requeue", "start", "next", "pauseCheck", "send",
                 "commit", "markFailed"}

Processor == [pc: ProcessorPCs, batch: SUBSET Rows, row: {0} \cup Rows,
              time: Dtos \cup {Nothing}, external: {0} \cup Copies]

Counters == [edits: Nat, pauses: Nat, errors: Nat, crashes: Nat]

TypeOK ==
    /\ life \in [Appointments -> {"new", "present", "deleted"}]
    /\ time \in [Appointments -> Dtos \cup {Nothing}]
    /\ sync \in [Appointments -> SyncStates]
    /\ paused \in [Appointments -> BOOLEAN]
    /\ link \in [Appointments -> {0} \cup Rows]
    /\ external \in [Appointments -> {0} \cup Copies]
    /\ row \in [Rows -> OutboxRow]
    /\ copy \in [Copies -> Copy]
    /\ req \in [Requests -> Request]
    /\ proc \in [Processors -> Processor]
    /\ count \in Counters
    /\ \A a \in Appointments : life[a] = "present" => time[a] \in Dtos
    /\ \A q \in Requests :
          /\ req[q].pc # "idle" => req[q].appt \in Appointments
          /\ req[q].pc \in {"createOverlap", "insert", "record", "updateOverlap",
                            "reset", "write"} => req[q].dto \in Dtos
    /\ \A p \in Processors :
          proc[p].pc \in {"pauseCheck", "send", "commit", "markFailed"}
          => proc[p].row \in Rows

-----------------------------------------------------------------------------
IdleRequest == [pc |-> "idle", appt |-> Nothing, dto |-> Nothing, outboxId |-> 0,
                sync |-> "PORTAL_ONLY"]

IdleProcessor == [pc |-> "idle", batch |-> {}, row |-> 0, time |-> Nothing,
                  external |-> 0]

Init ==
    /\ life = [a \in Appointments |-> "new"]
    /\ time = [a \in Appointments |-> Nothing]
    /\ sync = [a \in Appointments |-> "PORTAL_ONLY"]
    /\ paused = [a \in Appointments |-> FALSE]
    /\ link = [a \in Appointments |-> 0]
    /\ external = [a \in Appointments |-> 0]
    /\ row = [r \in Rows |-> [status |-> "none", appt |-> Nothing,
                              time |-> Nothing, external |-> 0]]
    /\ copy = [c \in Copies |-> [row |-> 0, time |-> Nothing]]
    /\ req = [q \in Requests |-> IdleRequest]
    /\ proc = [p \in Processors |-> IdleProcessor]
    /\ count = [edits |-> 0, pauses |-> 0, errors |-> 0, crashes |-> 0]

Present(a) == life[a] = "present"

\* A row of the outbox that has not been deleted.
Exists(r) == r \in Rows /\ row[r].status \in {"PENDING", "SYNCED", "FAILED"}

Finish(q) == req' = [req EXCEPT ![q] = IdleRequest]

Goto(q, label) == req' = [req EXCEPT ![q].pc = label]

Count(what) == count' = [count EXCEPT ![what] = @ + 1]

\* A new row of the outbox, PENDING, for an appointment.
RecordOutbox(r, a, dto) ==
    /\ r \in Rows /\ row[r].status = "none"
    /\ \A other \in Rows : other < r => row[other].status # "none"
    /\ row' = [row EXCEPT ![r] = [status |-> "PENDING", appt |-> a, time |-> dto,
                                  external |-> 0]]

-----------------------------------------------------------------------------
\* createAppointment

BeginCreate(q, a, dto) ==
    /\ req[q].pc = "idle"
    /\ life[a] = "new"
    /\ \A other \in Requests : req[other].appt # a
    /\ Accepted(dto)
    /\ req' = [req EXCEPT ![q] = [IdleRequest EXCEPT !.pc = "createOverlap",
                                                     !.appt = a, !.dto = dto]]
    /\ UNCHANGED <<portal, row, copy, proc, count>>

\* assertNoOverlappingAppointmentForUser, of a creation or of an update.
CheckOverlap(q) ==
    LET a == req[q].appt
        conflicting == {b \in Appointments :
                          Present(b) /\ b # a /\ Conflict(req[q].dto, time[b])}
        syncs == req[q].sync = "PENDING_TIFLUX"
    IN  /\ req[q].pc \in {"createOverlap", "updateOverlap"}
        /\ \/ /\ conflicting # {}
              /\ Finish(q)
           \/ /\ conflicting = {}
              /\ req[q].pc = "createOverlap"
              /\ Goto(q, "insert")
           \/ /\ conflicting = {}
              /\ req[q].pc = "updateOverlap"
              /\ Goto(q, IF syncs THEN "reset" ELSE "write")
        /\ UNCHANGED <<portal, row, copy, proc, count>>

\* The row of the appointment; a ticket of another desk is not synchronised.
Insert(q) ==
    LET a == req[q].appt
    IN  /\ req[q].pc = "insert"
        /\ life' = [life EXCEPT ![a] = "present"]
        /\ time' = [time EXCEPT ![a] = req[q].dto]
        /\ \/ /\ sync' = [sync EXCEPT ![a] = "PENDING_TIFLUX"]
              /\ Goto(q, "record")
           \/ /\ Finish(q)
              /\ UNCHANGED sync
        /\ UNCHANGED <<paused, link, external, row, copy, proc, count>>

Record(q) ==
    /\ req[q].pc = "record"
    /\ \E r \in Rows :
          /\ RecordOutbox(r, req[q].appt, req[q].dto)
          /\ req' = [req EXCEPT ![q].pc = "link", ![q].outboxId = r]
    /\ UNCHANGED <<portal, copy, proc, count>>

\* The foreign key of outboxId: the row must be there.
Link(q) ==
    LET a == req[q].appt
    IN  /\ req[q].pc = "link"
        /\ link' = IF Present(a) /\ Exists(req[q].outboxId)
                   THEN [link EXCEPT ![a] = req[q].outboxId]
                   ELSE link
        /\ Finish(q)
        /\ UNCHANGED <<life, time, sync, paused, external, row, copy, proc, count>>

-----------------------------------------------------------------------------
\* updatePortalAppointment

BeginUpdate(q, a, dto) ==
    /\ req[q].pc = "idle"
    /\ count.edits < MaxEdits
    /\ Present(a)
    /\ Accepted(dto)
    /\ req' = [req EXCEPT ![q] = [pc |-> "updateOverlap", appt |-> a, dto |-> dto,
                                  outboxId |-> link[a], sync |-> sync[a]]]
    /\ Count("edits")
    /\ UNCHANGED <<portal, row, copy, proc>>

\* resetPortalAppointmentOutbox: the row read is PENDING again with the new
\* payload, whatever its status; a deleted one is an error.
Reset(q) ==
    LET r == req[q].outboxId
    IN  /\ req[q].pc = "reset"
        /\ \/ /\ r # 0 /\ Exists(r)
              /\ row' = [row EXCEPT ![r].status = "PENDING", ![r].time = req[q].dto]
              /\ Goto(q, "write")
           \/ /\ r # 0 /\ ~ Exists(r)
              /\ Finish(q)
              /\ UNCHANGED row
           \/ /\ r = 0
              /\ \E new \in Rows :
                    /\ RecordOutbox(new, req[q].appt, req[q].dto)
                    /\ req' = [req EXCEPT ![q].pc = "write", ![q].outboxId = new]
        /\ UNCHANGED <<portal, copy, proc, count>>

\* The row of the appointment, with the outboxId of the beginning.
Write(q) ==
    LET a == req[q].appt
        r == req[q].outboxId
    IN  /\ req[q].pc = "write"
        /\ IF Present(a) /\ (r = 0 \/ Exists(r))
           THEN /\ time' = [time EXCEPT ![a] = req[q].dto]
                /\ paused' = [paused EXCEPT ![a] = FALSE]
                /\ link' = [link EXCEPT ![a] = r]
           ELSE UNCHANGED <<time, paused, link>>
        /\ Finish(q)
        /\ UNCHANGED <<life, sync, external, row, copy, proc, count>>

-----------------------------------------------------------------------------
\* deletePortalAppointment, pausePortalAppointmentSync, resume

BeginDelete(q, a) ==
    /\ req[q].pc = "idle"
    /\ Present(a)
    /\ req' = [req EXCEPT ![q] = [IdleRequest EXCEPT
                  !.pc = IF link[a] # 0 THEN "checkOutbox" ELSE "remove",
                  !.appt = a, !.outboxId = link[a]]]
    /\ UNCHANGED <<portal, row, copy, proc, count>>

CheckOutbox(q) ==
    LET r == req[q].outboxId
        sent == Exists(r) /\ row[r].status = "SYNCED"
    IN  /\ req[q].pc = "checkOutbox"
        /\ Goto(q, IF sent THEN "remove" ELSE "dropOutbox")
        /\ UNCHANGED <<portal, row, copy, proc, count>>

\* The row of the outbox goes, and with it the outboxId that names it.
DropOutbox(q) ==
    LET r == req[q].outboxId
    IN  /\ req[q].pc = "dropOutbox"
        /\ IF Exists(r)
           THEN /\ row' = [row EXCEPT ![r].status = "deleted"]
                /\ link' = [a \in Appointments |-> IF link[a] = r THEN 0 ELSE link[a]]
           ELSE UNCHANGED <<row, link>>
        /\ Goto(q, "remove")
        /\ UNCHANGED <<life, time, sync, paused, external, copy, proc, count>>

Remove(q) ==
    LET a == req[q].appt
    IN  /\ req[q].pc = "remove"
        /\ life' = IF Present(a) THEN [life EXCEPT ![a] = "deleted"] ELSE life
        /\ Finish(q)
        /\ UNCHANGED <<time, sync, paused, link, external, row, copy, proc, count>>

BeginPause(q, a) ==
    /\ req[q].pc = "idle"
    /\ count.pauses < MaxPauses
    /\ Present(a)
    /\ sync[a] = "PENDING_TIFLUX"
    /\ req' = [req EXCEPT ![q] = [IdleRequest EXCEPT !.pc = "pause", !.appt = a]]
    /\ Count("pauses")
    /\ UNCHANGED <<portal, row, copy, proc>>

BeginResume(q, a) ==
    /\ req[q].pc = "idle"
    /\ Present(a)
    /\ paused[a]
    /\ req' = [req EXCEPT ![q] = [IdleRequest EXCEPT !.pc = "resume", !.appt = a]]
    /\ UNCHANGED <<portal, row, copy, proc, count>>

SetPaused(q) ==
    LET a == req[q].appt
    IN  /\ req[q].pc \in {"pause", "resume"}
        /\ paused' = IF Present(a) THEN [paused EXCEPT ![a] = (req[q].pc = "pause")]
                     ELSE paused
        /\ Finish(q)
        /\ UNCHANGED <<life, time, sync, link, external, row, copy, proc, count>>

-----------------------------------------------------------------------------
\* retryFailed

WithStatus(s) == {r \in Rows : row[r].status = s}

\* The n rows of a set created first.
Oldest(n, S) == {r \in S : Cardinality({other \in S : other < r}) < n}

Become(p, next) == proc' = [proc EXCEPT ![p] = next]

BeginRetry(p) ==
    /\ p \in AdminRuns
    /\ proc[p].pc = "idle"
    /\ WithStatus("FAILED") # {}
    /\ Become(p, [IdleProcessor EXCEPT !.pc = "requeue", !.batch = WithStatus("FAILED")])
    /\ UNCHANGED <<portal, row, copy, req, count>>

\* The write names the rows by id.
Requeue(p) ==
    /\ proc[p].pc = "requeue"
    /\ row' = [r \in Rows |-> IF r \in proc[p].batch /\ Exists(r)
                              THEN [row[r] EXCEPT !.status = "PENDING"] ELSE row[r]]
    /\ Become(p, [IdleProcessor EXCEPT !.pc = "start"])
    /\ UNCHANGED <<portal, copy, req, count>>

-----------------------------------------------------------------------------
\* processPendingBatch, processOne

StartBatch(p) ==
    LET batch == Oldest(BatchLimit, WithStatus("PENDING"))
    IN  /\ \/ proc[p].pc = "start"
           \/ proc[p].pc = "idle" /\ batch # {}
        /\ Become(p, IF batch = {} THEN IdleProcessor
                     ELSE [IdleProcessor EXCEPT !.pc = "next", !.batch = batch])
        /\ UNCHANGED <<portal, row, copy, req, count>>

\* Mutant: the batch does not remember the row.
Taken_NoRow(p, r) == [proc[p] EXCEPT !.pc = "pauseCheck", !.time = row[r].time]

Taken(p, r) == [proc[p] EXCEPT !.pc = "pauseCheck", !.row = r, !.time = row[r].time]

\* The batch goes on without a row.
Without(p, r) ==
    LET rest == proc[p].batch \ {r}
    IN  IF rest = {} THEN IdleProcessor
        ELSE [IdleProcessor EXCEPT !.pc = "next", !.batch = rest]

\* The row is read again; one that is no longer PENDING is passed over.
TakeNext(p) ==
    /\ proc[p].pc = "next"
    /\ \E r \in Oldest(1, proc[p].batch) :
          Become(p, IF row[r].status = "PENDING" THEN Taken(p, r) ELSE Without(p, r))
    /\ UNCHANGED <<portal, row, copy, req, count>>

IsPaused(r) == row[r].appt # Nothing /\ Present(row[r].appt) /\ paused[row[r].appt]

\* Mutant: a paused row ends the batch.
AfterPaused_Stops(p) == IdleProcessor

\* A paused row stays PENDING and the batch goes on.
AfterPaused(p) == Without(p, proc[p].row)

CheckPaused(p) ==
    /\ proc[p].pc = "pauseCheck"
    /\ Become(p, IF IsPaused(proc[p].row) THEN AfterPaused(p)
                 ELSE [proc[p] EXCEPT !.pc = "send"])
    /\ UNCHANGED <<portal, row, copy, req, count>>

\* TiFlux makes a copy with the payload read before.
MakeCopy(p, c) ==
    /\ c \in Copies /\ copy[c].row = 0
    /\ \A other \in Copies : other < c => copy[other].row # 0
    /\ copy' = [copy EXCEPT ![c] = [row |-> proc[p].row, time |-> proc[p].time]]

Send(p) ==
    /\ proc[p].pc = "send"
    /\ \E c \in Copies :
          /\ MakeCopy(p, c)
          /\ Become(p, [proc[p] EXCEPT !.pc = "commit", !.external = c])
    /\ UNCHANGED <<portal, row, req, count>>

\* An attempt of the call makes its copy and ends in a timeout or a 5xx: the
\* client tries again by itself (TifluxClient).
SendAgain(p) ==
    /\ proc[p].pc = "send"
    /\ count.errors < MaxErrors
    /\ Count("errors")
    /\ \E c \in Copies : MakeCopy(p, c)
    /\ UNCHANGED <<portal, row, req, proc>>

\* Mutant: an answer without an id is taken for a success.
AfterFailedCall_Ignored(p) == [proc[p] EXCEPT !.pc = "commit"]

AfterFailedCall(p) == [proc[p] EXCEPT !.pc = "markFailed"]

\* The call fails; the copy may have been made all the same.
SendFails(p) ==
    /\ proc[p].pc = "send"
    /\ count.errors < MaxErrors
    /\ Count("errors")
    /\ UNCHANGED copy \/ \E c \in Copies : MakeCopy(p, c)
    /\ Become(p, AfterFailedCall(p))
    /\ UNCHANGED <<portal, row, req>>

\* Mutant: the transaction forgets the status of the row.
Committed_StillPending(r, c) == [row[r] EXCEPT !.external = c]

\* The row as the transaction leaves it, and the appointments it updates.
Committed(r, c) == [row[r] EXCEPT !.status = "SYNCED", !.external = c]

CommittedAppointments(r) == {a \in Appointments : a = row[r].appt /\ Present(a)}

\* The transaction: the row and the appointment together.  A deleted row is
\* an error and nothing is written.
Commit(p) ==
    LET r == proc[p].row
        c == proc[p].external
        written == CommittedAppointments(r)
    IN  /\ proc[p].pc = "commit"
        /\ \/ /\ Exists(r)
              /\ row' = [row EXCEPT ![r] = Committed(r, c)]
              /\ sync' = [a \in Appointments |->
                             IF a \in written THEN "SYNCED" ELSE sync[a]]
              /\ external' = [a \in Appointments |->
                                 IF a \in written THEN c ELSE external[a]]
              /\ Become(p, Without(p, r))
           \/ /\ ~ Exists(r)
              /\ Become(p, [proc[p] EXCEPT !.pc = "markFailed"])
              /\ UNCHANGED <<row, sync, external>>
        /\ UNCHANGED <<life, time, paused, link, copy, req, count>>

CommitFails(p) ==
    /\ proc[p].pc = "commit"
    /\ count.errors < MaxErrors
    /\ Count("errors")
    /\ Become(p, [proc[p] EXCEPT !.pc = "markFailed"])
    /\ UNCHANGED <<portal, row, copy, req>>

\* markFailed names the row by id; a deleted row is an error that ends the
\* batch.
MarkFailed(p) ==
    LET r == proc[p].row
    IN  /\ proc[p].pc = "markFailed"
        /\ \/ /\ Exists(r)
              /\ row' = [row EXCEPT ![r].status = "FAILED"]
              /\ Become(p, Without(p, r))
           \/ /\ ~ Exists(r)
              /\ Become(p, IdleProcessor)
              /\ UNCHANGED row
        /\ UNCHANGED <<portal, copy, req, count>>

-----------------------------------------------------------------------------
\* A request or a batch dies half way: the process stops, or a query throws.
Crash ==
    /\ count.crashes < MaxCrashes
    /\ Count("crashes")
    /\ \/ \E q \in Requests : req[q].pc # "idle" /\ Finish(q) /\ UNCHANGED proc
       \/ \E p \in Processors : /\ proc[p].pc # "idle"
                                /\ Become(p, IdleProcessor)
                                /\ UNCHANGED req
    /\ UNCHANGED <<portal, row, copy>>

Begin(q, a) ==
    \/ \E dto \in Dtos : BeginCreate(q, a, dto) \/ BeginUpdate(q, a, dto)
    \/ BeginDelete(q, a)
    \/ BeginPause(q, a)
    \/ BeginResume(q, a)

Continue(q) ==
    \/ CheckOverlap(q)
    \/ Insert(q)
    \/ Record(q)
    \/ Link(q)
    \/ Reset(q)
    \/ Write(q)
    \/ CheckOutbox(q)
    \/ DropOutbox(q)
    \/ Remove(q)
    \/ SetPaused(q)

Work(p) ==
    \/ Requeue(p)
    \/ StartBatch(p)
    \/ TakeNext(p)
    \/ CheckPaused(p)
    \/ Send(p)
    \/ Commit(p)
    \/ MarkFailed(p)

Next ==
    \/ \E q \in Requests, a \in Appointments : Begin(q, a)
    \/ \E q \in Requests : Continue(q)
    \/ \E p \in Processors :
          Work(p) \/ BeginRetry(p) \/ SendAgain(p) \/ SendFails(p) \/ CommitFails(p)
    \/ Crash

Spec == Init /\ [][Next]_vars

\* The cron runs every minute and every query of a batch or of a request
\* returns.  Nobody has to delete, retry or resume.
FairSpec ==
    /\ Spec
    /\ \A q \in Requests : WF_vars(Continue(q))
    /\ \A p \in Processors : WF_vars(Work(p))

-----------------------------------------------------------------------------
\* Properties

CopiesOf(a) == {c \in Copies : copy[c].row # 0 /\ row[copy[c].row].appt = a}

\* What is marked as sent was sent: a SYNCED row, and a SYNCED appointment,
\* carry the external id of a copy made in TiFlux for them, whatever was
\* edited, retried, deleted or crashed, and so no two appointments the same;
\* and the two are marked together, unless the appointment was deleted
\* meanwhile (processOne and its transaction).
SyncedWasSent ==
    /\ \A r \in Rows : row[r].status = "SYNCED" =>
          /\ row[r].external # 0 /\ copy[row[r].external].row = r
          /\ Present(row[r].appt) => sync[row[r].appt] = "SYNCED"
    /\ \A a \in Appointments : sync[a] = "SYNCED" =>
          external[a] # 0 /\ external[a] \in CopiesOf(a)

\* Without concurrent batches, copies beyond the first come from a call or an
\* attempt that failed, a crash or an edit: nothing else sends an appointment
\* again.
DuplicatesAreExplained ==
    \A a \in Appointments :
        Cardinality(CopiesOf(a)) <= 1 + count.errors + count.crashes + count.edits

\* Two appointments of a user on a ticket never overlap, apart from those
\* of a full day (assertNoOverlappingAppointmentForUser).
NoOverlapShortOfADay ==
    \A a, b \in Appointments :
        a # b /\ Present(a) /\ Present(b) /\ ~ FullDay(time[a]) /\ ~ FullDay(time[b])
        => TrueMinutes(time[a]) \cap TrueMinutes(time[b]) = {}

\* A row of the queue is sent, fails, is deleted or is paused
\* (tickets-outbox.job.ts:19, every minute).
QueuedIsServed ==
    \A r \in Rows :
        row[r].status = "PENDING" ~> (row[r].status # "PENDING" \/ IsPaused(r))

=============================================================================
