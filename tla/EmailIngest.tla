----------------------------- MODULE EmailIngest -----------------------------
(***************************************************************************)
(* How an e-mail of the shared mailbox becomes a pre-ticket, or a reply in *)
(* the description of an open ticket, translated from                      *)
(* email-inbound-ingest.service.ts and its callers: the cron               *)
(* (email-inbound-poll.job.ts), the administrator and the workers of the   *)
(* queue (email-inbound-worker.service.ts, queue.service.ts).              *)
(*                                                                         *)
(* A poll lists the newest messages and looks at them newest first.  With  *)
(* Redis it only queues them, and workers ingest them; without Redis it    *)
(* ingests them itself.  An exception ends the poll, or the attempt of the *)
(* job.  pre_tickets.message_id is unique; the description of a ticket is  *)
(* read, extended and written back in the name of an active administrator  *)
(* or of the sender; with neither, it is not written and only a warning    *)
(* says so.  All replies are to one ticket.                                *)
(***************************************************************************)
EXTENDS Naturals, FiniteSets

CONSTANTS
    Cron,           \* the poll of EmailInboundPollJob
    Admins,         \* polls asked for by administrators
    Workers,        \* slots of the BullMQ worker (concurrency 2)
    Attempts,       \* attempts of a job (3)
    Window,         \* messages a poll lists (40)
    MaxMessages,    \* bound: messages that arrive
    Mailboxes,      \* what the messages may turn out to be (see kind)
    MaxFailures,    \* bound: exceptions and processes that die
    MaxChanges,     \* bound: changes of the ticket and of the administrators
    NoText          \* no description was read

Pollers == {Cron} \cup Admins
Processes == Pollers \cup Workers
Messages == 1..MaxMessages

\* A new subject, a reply to the ticket by a user of the portal or by somebody
\* else, a message of a blocked sender, one that has no sender.
Kinds == {"new", "reply", "outsideReply", "blocked", "noSender"}

Replies == {"reply", "outsideReply"}

ASSUME ProcessesAssumption == Cron \notin Admins /\ Pollers \cap Workers = {}
ASSUME BoundsAssumption ==
    /\ Attempts \in Nat \ {0} /\ Window \in Nat /\ MaxMessages \in Nat
    /\ MaxFailures \in Nat /\ MaxChanges \in Nat
ASSUME MailboxesAssumption == Mailboxes \subseteq [Messages -> Kinds]
ASSUME NoTextAssumption == NoText \notin [Messages -> Nat]

VARIABLES
    redis,      \* whether Redis is configured
    staffed,    \* whether an ADMIN is active
    kind,       \* what each message will turn out to be
    received,   \* messages 1..received are in the mailbox
    row,        \* pre_tickets by message_id: its status, or "none"
    closed,     \* isClosed of the ticket replies are to
    text,       \* its description: how often each reply is in it
    unapplied,  \* replies the log warns of: nobody to write them as
    job,        \* the job of each message
    attempt,    \* exceptions of each job
    proc,       \* polls and jobs in flight
    count       \* what the bounds count

vars == <<redis, staffed, kind, received, row, closed, text, unapplied, job, attempt,
          proc, count>>
outside == <<redis, staffed, kind, received>>
ticket == <<closed, text, unapplied>>
queue == <<job, attempt>>

-----------------------------------------------------------------------------
\* Types

RowStates == {"none", "PENDING", "OPENED", "IGNORED"}

JobStates == {"none", "waiting", "active", "completed", "failed"}

Texts == [Messages -> Nat]

PCs == {"idle", "look", "enqueue", "check", "ignore", "resolve", "create", "attach",
        "readText", "writeText"}

\* A poll: what it lists and has not looked at; and, for a poll or a job, the
\* message at hand, whether it applies to the ticket, whether there is somebody
\* to write it as (systemUploader), the description it read.
Process == [pc: PCs, todo: SUBSET Messages, msg: {0} \cup Messages,
            applies: BOOLEAN, uploader: BOOLEAN, read: Texts \cup {NoText}]

Counters == [failures: Nat, closings: Nat, turnovers: Nat]

TypeOK ==
    /\ redis \in BOOLEAN
    /\ staffed \in BOOLEAN
    /\ kind \in [Messages -> Kinds]
    /\ received \in {0} \cup Messages
    /\ row \in [Messages -> RowStates]
    /\ closed \in BOOLEAN
    /\ text \in Texts
    /\ unapplied \subseteq Messages
    /\ job \in [Messages -> JobStates]
    /\ attempt \in [Messages -> Nat]
    /\ proc \in [Processes -> Process]
    /\ count \in Counters
    /\ \A p \in Processes :
          /\ proc[p].pc \notin {"idle", "look"} => proc[p].msg \in Messages
          /\ proc[p].pc = "writeText" => proc[p].read \in Texts

-----------------------------------------------------------------------------
Idle == [pc |-> "idle", todo |-> {}, msg |-> 0, applies |-> FALSE, uploader |-> FALSE,
         read |-> NoText]

Init ==
    /\ redis \in BOOLEAN
    /\ staffed = TRUE
    /\ kind \in Mailboxes
    /\ received = 0
    /\ row = [m \in Messages |-> "none"]
    /\ closed = FALSE
    /\ text = [m \in Messages |-> 0]
    /\ unapplied = {}
    /\ job = [m \in Messages |-> "none"]
    /\ attempt = [m \in Messages |-> 0]
    /\ proc = [p \in Processes |-> Idle]
    /\ count = [failures |-> 0, closings |-> 0, turnovers |-> 0]

\* The messages listRecentMessages gives.
Listed == {m \in Messages : m <= received /\ m + Window > received}

At(p, label) == proc[p].pc = label

Become(p, next) == proc' = [proc EXCEPT ![p] = next]

Goto(p, label) == Become(p, [proc[p] EXCEPT !.pc = label])

Count(what) == count' = [count EXCEPT ![what] = @ + 1]

Arrive ==
    /\ received < MaxMessages
    /\ received' = received + 1
    /\ UNCHANGED <<redis, staffed, kind, row, ticket, queue, proc, count>>

\* The ticket is closed or reopened by an operator.
CloseOrReopen ==
    /\ count.closings + count.turnovers < MaxChanges
    /\ Count("closings")
    /\ closed' = ~ closed
    /\ UNCHANGED <<outside, row, text, unapplied, queue, proc>>

\* The last active administrator is deactivated, which nothing forbids, or one is
\* active again.
AdministratorsChange ==
    /\ count.closings + count.turnovers < MaxChanges
    /\ Count("turnovers")
    /\ staffed' = ~ staffed
    /\ UNCHANGED <<redis, kind, received, row, ticket, queue, proc>>

-----------------------------------------------------------------------------
\* pollMailbox.  The cron does not start a poll while its last one runs;
\* the poll of an administrator is not subject to that.

\* Mutant: a poll ends with the first message it looked at.
Onwards_Stops(todo) == Idle

\* The poll goes on with the messages it has not looked at.
Onwards(todo) ==
    IF todo = {} THEN Idle ELSE [Idle EXCEPT !.pc = "look", !.todo = todo]

BeginPoll(p) ==
    /\ p \in Pollers
    /\ At(p, "idle")
    /\ Listed # {}
    /\ Become(p, [Idle EXCEPT !.pc = "look", !.todo = Listed])
    /\ UNCHANGED <<outside, row, ticket, queue, count>>

\* The newest message left: one with a row is skipped, one of a blocked sender
\* is ignored, any other is queued or, without Redis, ingested.
Look(p) ==
    /\ At(p, "look")
    /\ \E m \in proc[p].todo :
          /\ \A other \in proc[p].todo : other <= m
          /\ LET rest == [proc[p] EXCEPT !.todo = @ \ {m}, !.msg = m]
             IN  Become(p, IF row[m] = "none"
                           THEN [rest EXCEPT !.pc = IF kind[m] = "blocked" THEN "ignore"
                                                    ELSE IF redis THEN "enqueue"
                                                    ELSE "resolve"]
                           ELSE Onwards(rest.todo))
    /\ UNCHANGED <<outside, row, ticket, queue, count>>

\* enqueueEmailInbound: the message names the job, and a queue takes no second
\* job of a name it knows, whatever became of the first.
Enqueue(p) ==
    LET m == proc[p].msg
    IN  /\ At(p, "enqueue")
        /\ job' = [job EXCEPT ![m] = IF @ = "none" THEN "waiting" ELSE @]
        /\ Become(p, Onwards(proc[p].todo))
        /\ UNCHANGED <<outside, row, ticket, attempt, count>>

-----------------------------------------------------------------------------
\* createPreTicketFromMessage, by a poll or by a job

\* What a process does after the message at hand.
IsDone(p) ==
    /\ Become(p, IF p \in Pollers THEN Onwards(proc[p].todo) ELSE Idle)
    /\ job' = IF p \in Workers THEN [job EXCEPT ![proc[p].msg] = "completed"] ELSE job

\* A worker takes a job: ingestGraphMessage.
TakeJob(p) ==
    /\ p \in Workers
    /\ At(p, "idle")
    /\ \E m \in Messages :
          /\ job[m] = "waiting"
          /\ job' = [job EXCEPT ![m] = "active"]
          /\ Become(p, [Idle EXCEPT !.pc = "check", !.msg = m])
    /\ UNCHANGED <<outside, row, ticket, attempt, count>>

\* preTicket.findUnique, then graph.getMessage.
Check(p) ==
    /\ At(p, "check")
    /\ IF row[proc[p].msg] = "none"
       THEN Goto(p, "resolve") /\ UNCHANGED job
       ELSE IsDone(p)
    /\ UNCHANGED <<outside, row, ticket, attempt, count>>

\* recordIgnoredMessage: a row that is already there is no error.
Ignore(p) ==
    LET m == proc[p].msg
    IN  /\ At(p, "ignore")
        /\ row' = [row EXCEPT ![m] = IF @ = "none" THEN "IGNORED" ELSE @]
        /\ IsDone(p)
        /\ UNCHANGED <<outside, ticket, attempt, count>>

\* A message without a sender is left alone, one of a blocked sender ignored.
\* The reads before the insertion: the first active administrator, or else the
\* sender if a user; and the ticket: a reply to an open one applies to it.
Resolve(p) ==
    LET what == kind[proc[p].msg]
    IN  /\ At(p, "resolve")
        /\ \/ /\ what = "noSender"
              /\ IsDone(p)
           \/ /\ what # "noSender"
              /\ Become(p, [proc[p] EXCEPT
                      !.pc = IF what = "blocked" THEN "ignore" ELSE "create",
                      !.uploader = staffed \/ what = "reply",
                      !.applies = what \in Replies /\ ~ closed])
              /\ UNCHANGED job
        /\ UNCHANGED <<outside, row, ticket, attempt, count>>

\* Mutant: an insertion that finds the message already there goes on.
AfterDuplicate_GoesOn(p) == Goto(p, "attach") /\ UNCHANGED job

\* P2002: another poll or job was faster, and does the rest.
AfterDuplicate(p) == IsDone(p)

Create(p) ==
    LET m == proc[p].msg
    IN  /\ At(p, "create")
        /\ \/ /\ row[m] = "none"
              /\ row' = [row EXCEPT ![m] = IF proc[p].applies THEN "OPENED" ELSE "PENDING"]
              /\ Goto(p, "attach")
              /\ UNCHANGED job
           \/ /\ row[m] # "none"
              /\ AfterDuplicate(p)
              /\ UNCHANGED row
        /\ UNCHANGED <<outside, ticket, attempt, count>>

AfterAttachments(p) ==
    IF proc[p].applies THEN Goto(p, "readText") /\ UNCHANGED job ELSE IsDone(p)

\* The attachments, if there is somebody to store them as, and their number;
\* their errors are swallowed.
Attach(p) ==
    /\ At(p, "attach")
    /\ AfterAttachments(p)
    /\ UNCHANGED <<outside, row, ticket, attempt, count>>

\* applyEmailToOpenTicket: the description is read.  With nobody to write it as,
\* that is all: a warning, and the reply counts as handled.
ReadText(p) ==
    /\ At(p, "readText")
    /\ \/ /\ proc[p].uploader
          /\ Become(p, [proc[p] EXCEPT !.pc = "writeText", !.read = text])
          /\ UNCHANGED <<job, unapplied>>
       \/ /\ ~ proc[p].uploader
          /\ unapplied' = unapplied \cup {proc[p].msg}
          /\ IsDone(p)
    /\ UNCHANGED <<outside, row, closed, text, attempt, count>>

\* The description that was read, with the reply added; the writes after it
\* touch the thread, the attachments and the history of the ticket.
WriteText(p) ==
    /\ At(p, "writeText")
    /\ text' = [proc[p].read EXCEPT ![proc[p].msg] = @ + 1]
    /\ IsDone(p)
    /\ UNCHANGED <<outside, row, closed, unapplied, attempt, count>>

-----------------------------------------------------------------------------
\* Exceptions and crashes

\* Mutants: a state the queue does not have; an exception is only logged.
AfterException_Delayed(m) == "delayed"

AfterException_Swallowed(m) == "completed"

\* A job that threw waits for its next attempt, after the last one it failed.
AfterException(m) == IF attempt[m] + 1 < Attempts THEN "waiting" ELSE "failed"

\* An await throws: the poll ends, or the attempt of the job.
Throw(p) ==
    LET m == proc[p].msg
    IN  /\ ~ At(p, "idle")
        /\ count.failures < MaxFailures
        /\ Count("failures")
        /\ Become(p, Idle)
        /\ IF p \in Workers
           THEN /\ job' = [job EXCEPT ![m] = AfterException(m)]
                /\ attempt' = [attempt EXCEPT ![m] = @ + 1]
           ELSE UNCHANGED queue
        /\ UNCHANGED <<outside, row, ticket>>

\* The process dies: a stalled job goes back to the queue.
Crash(p) ==
    /\ ~ At(p, "idle")
    /\ count.failures < MaxFailures
    /\ Count("failures")
    /\ Become(p, Idle)
    /\ job' = IF p \in Workers THEN [job EXCEPT ![proc[p].msg] = "waiting"] ELSE job
    /\ UNCHANGED <<outside, row, ticket, attempt>>

-----------------------------------------------------------------------------
Ingest(p) ==
    \/ Look(p)
    \/ Enqueue(p)
    \/ Check(p)
    \/ Ignore(p)
    \/ Resolve(p)
    \/ Create(p)
    \/ Attach(p)
    \/ ReadText(p)
    \/ WriteText(p)

Next ==
    \/ Arrive
    \/ CloseOrReopen
    \/ AdministratorsChange
    \/ \E p \in Processes :
          Ingest(p) \/ BeginPoll(p) \/ TakeJob(p) \/ Throw(p) \/ Crash(p)

Spec == Init /\ [][Next]_vars

\* The cron polls every minute, workers take waiting jobs, and every await
\* returns.  Nobody has to poll by hand.
FairSpec ==
    /\ Spec
    /\ WF_vars(BeginPoll(Cron))
    /\ \A p \in Workers : WF_vars(TakeJob(p))
    /\ \A p \in Processes : WF_vars(Ingest(p))

-----------------------------------------------------------------------------
\* Properties

\* A reply is applied to the ticket by whoever inserted its pre-ticket and by
\* nobody else, so never twice, however polls, jobs, attempts and crashes
\* overlap (P2002 in createPreTicketFromMessage).
AppliedOnce ==
    \A m \in Messages : text[m] <= 1 /\ (text[m] = 1 => row[m] = "OPENED")

\* The queue forgets no e-mail that has a sender: its job is acknowledged only
\* when the portal has a row of it, whichever poll or job made it
\* (ingestGraphMessage).
CompletedIsRecorded ==
    \A m \in Messages :
        job[m] = "completed" /\ kind[m] # "noSender" => row[m] # "none"

\* A process between the insertion of a reply and its place in the description.
IsApplying(p, m) ==
    proc[p].pc \in {"attach", "readText", "writeText"} /\ proc[p].applies /\ proc[p].msg = m

\* A reply taken out of the operators' queue is in the hands of who inserted it,
\* or its description has been written and holds it or the reply that was written
\* over it, or the log warns of it.  After an exception or a death it may be lost
\* (applyEmailToOpenTicket, whose return at 515 says nothing to its caller).
OpenedIsAccounted ==
    \A m \in Messages :
        row[m] = "OPENED" => \/ \E p \in Processes : IsApplying(p, m)
                             \/ \E other \in Messages : text[other] > 0
                             \/ m \in unapplied
                             \/ count.failures > 0

\* The log warns only of replies by somebody the portal does not know, after the
\* administrators have changed, and of none that is or ever comes into the
\* description (systemUploader in createPreTicketFromMessage).
UnappliedIsExcused ==
    \A m \in unapplied :
        kind[m] = "outsideReply" /\ row[m] = "OPENED" /\ text[m] = 0 /\ count.turnovers > 0

\* However processes, attempts and crashes overlap, an e-mail is neither applied
\* twice nor acknowledged unrecorded, and a reply that left the operators' queue
\* is accounted for.
MailIsNotRepeatedOrLost ==
    AppliedOnce /\ CompletedIsRecorded /\ OpenedIsAccounted /\ UnappliedIsExcused

\* Every e-mail that has a sender leaves a trace in the portal, unless newer
\* ones pushed it out of what a poll lists or its job used up its attempts.
EveryMessageIsRecorded ==
    \A m \in Messages :
        (m <= received /\ kind[m] # "noSender")
        ~> (row[m] # "none" \/ m + Window <= received \/ job[m] = "failed")

\* A reply taken out of the operators' queue gets into the description of the
\* ticket, unless its poll or job threw or died, another reply was written over
\* it (applyEmailToOpenTicket writes back what it read), or there was nobody to
\* write it as: UnappliedIsExcused says when that may be.
AppliedIsWritten ==
    \A m \in Messages :
        row[m] = "OPENED" ~> \/ \E other \in Messages : text[other] > 0
                             \/ m \in unapplied
                             \/ count.failures > 0

\* No e-mail is left behind: it is recorded, and what took it out of the queue of
\* the operators also writes it to the ticket or warns that it cannot.
MailIsHandled == EveryMessageIsRecorded /\ AppliedIsWritten

=============================================================================
