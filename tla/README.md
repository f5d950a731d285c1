# A TLA+ model of Alle One

Alle One is a portal for the customers and the staff of a service provider: a NestJS
API over PostgreSQL (Prisma), a Next.js front end, an optional Redis queue, and three
outside systems, the TiFlux desk, a shared mailbox in Microsoft Graph and Zabbix. This
directory models the parts of the API whose correctness depends on the order in which
things happen (handlers that read, await and write; crons, workers and administrators that
do the same work at once; calls to TiFlux whose answer may be lost; answers kept in caches)
and three of its calculations whose cases no test enumerates: dates of recurring rules,
minutes worked, gaps of a day.

The front end sends whatever requests it likes, in any order; the models allow every order,
so they say nothing of it.

## 1. Inventory

There is one PostgreSQL database and no lock outside it. A handler is a sequence of
queries; between two of them any other handler, cron or worker may run. Most writes name
their row by id; the ones that repeat their check in the `where` are the synchronisation.

Components in bold are modelled, wholly or in part.

| Component | State | Operations | Hard part |
|---|---|---|---|
| **gmud** (change requests) | `gmud.status`, one `gmudApprover` row per approver, evidence files | create, edit, approve, approve on behalf, start, complete, cancel | approvers decide at once; the outcome is computed from a later read; an edit replaces the rows under a decision |
| **pre-tickets** (queue of e-mails) | `pre_tickets`: status, deleted_at, ticket_number, claim | claim, release, discard, open as ticket | opening is long, fails half way, and is protected by a status that stands for a lock |
| **ticket-numbers** | `portal_tickets.ticket_number`, a sequence | allocate, upsert | MAX + 1, `nextval`, two `setval`, a look-up and an insert, each a query of its own |
| **appointments** | `portal_ticket_appointments` | create, update, delete, pause, resume | overlaps across midnight; checks before inserts |
| **tiflux-outbox** | `portal_tiflux_outbox` | batch (cron, worker, administrator), retry of failed rows | concurrent batches, lost answers, paused rows, edits of a row under way |
| **email-ingest** | the mailbox, `pre_tickets.message_id`, BullMQ jobs, the description of a ticket | poll, queue, ingest, apply a reply | four processes ingest one message; attempts are repeated; exceptions end polls |
| **ticket-auto-open** | rules: next date, slot, failures, active | run by cron or by hand, edit, switch, remove | the ticket first, the rule afterwards, both by rows read at the start of the run |
| **tickets** | stage, closing, responsible; history; parent | create, update, move to a stage, group into a parent | a row is read, TiFlux called, and the row written back whole; a walk over the parents, query by query, while another grouping writes |
| **ticket-automation** | rules and their runs | on an event, on an idle ticket | several actions first, the run that prevents a repetition afterwards |
| **projetos** | activities, phases, links to appointments; predecessors, codes; the status, budget and approval of a project | link, unlink, recompute, update, delete; create, import; complete, approve, reopen | sum read, computed and written without a transaction, twice in a chain; predecessors validated, then replaced row by row; a completion decided on what was read before |
| **rendimento** | day events, justifications, overtime balance; the gaps of a day, never stored | synchronise a day, decide, justify, recompute | a decision against a synchronisation that read before it; gaps recomputed over justifications made for others |
| **dashboard** | two caches, each in the memory of every process and in Redis; builds under way | complete, hours, forced refresh | an answer built before a refresh is stored after it; the ages of nested caches add up |
| **tiflux client** | per process: a chain of promises, `lastRequestAt`, `pausedUntil` | request, requestWithMeta | every call waits for all before it; timeouts, 429 and 5xx are tried again inside the turn, POSTs too |
| mailbox, usage-alerts, reports, financial, contracts, inventario | derived or master data | rebuilt or read | none that lasts |
| auth, permissions | sessions, roles | guards | a matter of the security review |
| Graph client, Zabbix, mail, storage, Redis | outside | calls | fail, with or without their effect |

`PROJECT.json` lists every component with its files and what is left out of it.

**How they interact.** email-ingest writes the rows pre-tickets works on, or extends the
description of an open ticket. pre-tickets, the creation of tickets and ticket-auto-open take
numbers from ticket-numbers. A change of a stage and a new ticket set off ticket-automation, whose actions
write the ticket again. appointments write rows of the outbox; the outbox writes back the status and
external id of the appointment. Changing or deleting an appointment makes projetos recompute an activity and
rendimento synchronise a day; the day's gaps and the dashboard's hours are computed from the appointments.
tickets-reconcile calls the outbox as an administrator would. Whatever calls TiFlux (the outbox, the tickets, the lists, the
hours) stands in the one queue of the tiflux client of its process; an attempt that took effect may be repeated there
(`Appointments!SendAgain` is that, seen from the outbox).

**What makes each correct.**
* gmud: nothing is carried out that some round did not approve unanimously; a rejection is not
  hidden; every decision takes effect; a decision in another's name has its evidence.
* pre-tickets: an e-mail becomes one ticket and is never lost; one operator opens it at a time;
  a reservation is honoured.
* ticket-numbers: no ticket overwrites another.
* appointments and outbox: what is marked as sent was sent; two appointments never overlap; what
  is queued is served.
* email-ingest: each e-mail leaves a row; a reply is applied once, and one that cannot be applied is at least warned of.
* ticket-auto-open: a rule's dates are the ones its periodicity promises; each gets a ticket or a
  recorded failure, and one ticket only; no rule starves another.
* tickets and automation: a ticket changes only as somebody asked; the idle rule acts, and acts once; no
  ticket is above itself in its group, and a grouping ends.
* projetos: activities and phase agree with the appointments when nothing is in flight; no activity waits for
  itself; a new activity gets a free code; a project over its budget is completed with an approval only.
* rendimento: a minute counts once; a gap is shown where nothing explains it and nowhere else; a
  decision stands; the balance is the one of its formula.
* dashboard: no answer is older than the caches may make it, nor than a refresh the user asked for.
* tiflux client: one call at a time, at its distance and not in a pause; every call ends; an effect comes twice only after
  an attempt that hid the first.

## 2. Modules

| Module | Models |
|---|---|
| `Gmud` | `gmud.service.ts`: one GMUD, its approver rows and the handlers in flight |
| `PreTickets` | `pre-tickets.service.ts`: claim, release, softDelete, openAsTicket |
| `TicketNumbers` | `allocatePortalTicketNumber` and the upsert of its callers |
| `AppointmentTimes` | validation, overnight rule and overlap check: pure operators |
| `Appointments` | the appointments of a user on a ticket, the outbox and its batches; EXTENDS `AppointmentTimes` |
| `OutboxContract` | abstract: what an at-least-once outbox promises |
| `OutboxRefinement` | the mapping that makes `Appointments` implement it |
| `EmailIngest` | `email-inbound-ingest.service.ts` and the poll, queue and workers that call it |
| `RuleCalendar` | `ticket-auto-open.helper.ts`: the calendar and the dates of one rule |
| `AutoOpen` | `ticket-auto-open.service.ts`: processDueRules for several runners, failures, the administrator's changes |
| `Tickets` | createTicket, updateTicket, updateTicketStage and `ticket-automation.service.ts` on the same rows |
| `WorkedMinutes` | `rendimento-worked-minutes.helper.ts`: the count, against a contract about sets of minutes |
| `DayGaps` | `rendimento-day-insights.ts` and the gap justifications; EXTENDS `WorkedMinutes` for its rows and its merge |
| `DayEvents` | overtime events, voluntary justifications and the balance of a user on a day |
| `TicketGroups` | `groupIntoParent` of `tickets.service.ts`: the walk and the write of several groupings at once |
| `ProjectProgress` | links, activities and phase of `projetos.service.ts` |
| `ProjectPlan` | the predecessors and the codes of the activities of a phase: createActivity, updateActivity, deleteActivity, the import |
| `ProjectClosing` | the life of one project: updateProject, approveProjectCompletion, reopenProject, deleteProject, and what changes its time meanwhile |
| `DashboardCache` | the caches of `dashboard.service.ts` and `dashboard-hours.service.ts` over `ttl-lru-cache.ts` and `redis.service.ts` |
| `TifluxClient` | the queue of one process in `tiflux.service.ts`: runExclusive, waitForThrottle, request, requestWithMeta |
| `GmudProofs`, `PreTicketsProofs`, `PortalTicketsProofs` (numbers, groups and `DashboardCache`), `ProjectProofs` (plan and closing), `MailAndClientProofs` (`EmailIngest`, `TifluxClient`), `AppointmentsProofs`, `RulesProofs` (`AutoOpen`, `Tickets`, `RuleCalendar`), `HoursProofs` (`DayEvents`, `ProjectProgress`, `WorkedMinutes`) | theorems |
| `MC*` | values of the constants for TLC; `MCRules`, `MCHours`, `MCNumbersAndCaches`, `MCGmudAndProjects`, `MCMailAndGroups` and `MCMailAndClient` put independent modules side by side in one run, with a variable `focus` that says which of them a behaviour is of |

**How state and actions correspond to the code.** A table column that matters is a variable (a
function from the rows' names). A handler in flight is a record with a label `pc` or a list of the statements
it has yet to do; each stands for a query (or a group of queries nothing else reads) and there is one action per
query, its guard the code's condition, its effect the write. What a handler read and uses later
is in its record, stale or not. A slot that is `idle` has no handler; slots are reused, so their
number bounds the handlers in flight at once and not their total. An exception or a dead process
is an action (`Fail`, `Throw`, `Crash`, `...Dies`, `...Breaks`) that ends the handler and leaves what it wrote. `map` in
`PROJECT.json` names the lines each definition stands for.

* `Gmud`: `approve` is BeginDecision (getById), FindApprover, Decide (updateMany where PENDING),
  Tally (findMany), ApplyApprovalOutcome (two conditional updateMany). `approveOnBehalf` adds
  StoreEvidence and its write does not repeat the check. `update` is BeginEdit and EditWrite; a
  new round of rows gets a new `round`, because its ids are new.
* `PreTickets`: `openAsTicket` is BeginOpen, Lock, Create, Upsert, Describe, Record, History;
  a Throw of any of them leads to Revert, the write of the catch. Time is one action,
  ClaimExpires.
* `TicketNumbers`: one action per query of the allocation; a failure of the sequence is
  SequenceFails; rows written with a TiFlux number are Mirror.
* `Appointments`: creation is BeginCreate, CheckOverlap, Insert, Record, Link; an update is
  BeginUpdate, CheckOverlap, Reset, Write; a deletion BeginDelete, CheckOutbox, DropOutbox,
  Remove. A batch is StartBatch, TakeNext, CheckPaused, Send, Commit, MarkFailed; SendFails may
  or may not have made the copy, and SendAgain is an attempt that made it and is repeated by the tiflux client. All appointments are by one user on one ticket, which is the
  scope of the overlap check and of the links.
* `EmailIngest`: a poll is BeginPoll, Look (one message), Enqueue or, without Redis, the
  ingestion; a job is TakeJob, Check, Resolve, Create, Attach, ReadText, WriteText. AfterException
  is the retry policy of the queue. `redis` and the kinds of the messages are chosen initially: a reply is by a user of the portal
  or by somebody else (`outsideReply`). Resolve also reads whom to write as, `uploader`: an active administrator (`staffed`, which
  AdministratorsChange takes away and gives back) or else the sender, if a user; with neither, ReadText ends in a warning
  (`unapplied`) instead of WriteText, as the early return at 511-516 does. The reads of Resolve are one step.
* `AutoOpen`: a run is StartRun (the findMany), then per rule OpenTicket or OpenIsRefused or OpenFails,
  AdvanceRule or, after an exception, RegisterRuleFailure; RunDies at any point. A run works on the
  snapshot of a rule (`SnapshotOf`) and writes by id. `createTicket` is one step. Days have slots
  (morning, afternoon) and `EveryDays` stands for the calendar, which `RuleCalendar` models for real dates.
* `Tickets`: a call reads the row (CallStage, CallUpdate), writes it (WriteStage, or WriteUpdate with all
  the columns it read), records the event and runs the rules of the event (RecordEvent, Automate). The idle job is
  StartJob, CheckCandidate, its actions one by one, RecordRun. Actions that move or give away
  the ticket are calls of the same kind by the caller `Job`.
* `WorkedMinutes`: state is a list of appointment rows; CategorizedMinutes follows the sort, merges and subtractions of
  the code with folds; MinutesIn is the contract.
* `DayGaps`: state is the day's appointments and justifications; `SummaryGaps` is a page, composed of the seven
  passes of the code (RawGaps to CreditedGaps), each an operator. Justifications are created, edited, decided and
  deleted while appointments are added and removed. A page is what `buildDaySummary` returns (for the months as for
  a day); what `getTimesheet` takes away from it afterwards (2967: the gaps of today, 1695, and the gaps and voluntary
  justifications of a PJ, 3017) is not modelled, so `PageIsSound` speaks of the days before it.
* `DayEvents`: a call is a list of statements (`todo`): find, reconcile, write or insert of each event, the sums and
  the save of the balance; a justification is inserted, its event written, and the insert taken back if that fails.
  There is one day, hence one payroll cycle: a `getTimesheet` of another cycle, which would save a balance of that cycle's hours
  over this one's, is outside `BalanceIsCurrent`.
* `ProjectProgress`: a request is a list of statements too: the link or the row of the appointment, ReadActivity and
  WriteActivity, ReadPhase and WritePhase, CheckPredecessors, MarkDeleted.
* `TicketGroups`: a grouping is BeginGrouping (both rows), WalkUp once per ticket (`cursor`, `seen` as in the code), and
  RefuseGrouping or WriteParent. `path` and `raced` are history: what the walk has read, and whether it was still so at the write.
* `ProjectPlan`: `task` and `edges` are the rows. A creation is CheckLive, ComputeCode, InsertTask, InsertEdge for each
  predecessor; an update CheckLive, SearchCircle, ClearEdges, InsertEdge. An import is one step, the transaction of the code, of
  `MaxSheet` rows. The search (`Loops`) is its result, a way that never ends, not its stack.
* `ProjectClosing`: a request reads the row (Ask), then does the statements in `todo`: LoadActivities decides a completion
  (`Verdict`), which leads to AskForApproval, or DismissApproval, or WriteProject. The time consumed is one number; WorkOutside
  is what changes it without a look at the status. `moved` is history.
* `DashboardCache`: a request is Begin, Look (memory, then Redis is asked), Take (what Redis had, the build under way, or a new build),
  ReadTickets, ReadHours, Store; a forced refresh is Clear first. There is no clock: every part of a value has an age, every
  entry some time left, and TimePasses changes all of them.
* `TifluxClient`: runExclusive is Request and Enter (the call before has released it); waitForThrottle is StartAttempt, EndPause,
  KeepDistance, EndSpace; the fetch is Fetch, Answer, ReadBody, or Abort (the timer) or NetworkFails; the sleep between two attempts
  ends with EndBackoff. Time is discrete and a timer may fire late. What TiFlux promised or did is history: `told`, `quiet`,
  `answered`, `hasty`, and of a call `sent`, `made`, `lost`.

## 3. Runs

| Run | Instance | Shows |
|---|---|---|
| `gmud_and_projects` | GMUD: 2 users, 2 requests at once, every endpoint, 2 edits, 1 dead request; plan: 3 activities, 2 requests at once, 3 in all, imports of a row; project: 3 of its statuses, budget or none, 2 requests at once, 4 in all | no execution without unanimity, no hidden rejection, decisions are final and take effect; no circle of predecessors and no refused code the requests could have foreseen; completion over the budget needs the approval, and approvals and closings are kept |
| `gmud_overwrite` (violation) | decisions only | a decision in another's name is written over a rejection the approver made meanwhile |
| `queue_and_groups` | queue: 1 e-mail, 2 operators (1 ADMIN), 3 requests, 2 errors, 1 crash; groups: 4 tickets in every forest, 2 groupings at once, 3 in all | exclusive opening, reservation, the queue holds what it should after errors; an opening ends; no group gets a circle but by a parent changed behind a walk; a grouping ends |
| `pretickets_twice` (violation) | 1 error | a failure after the ticket exists makes a second ticket |
| `numbers_and_caches` | numbers: 3 openings, empty, short and legacy tables, 4 states of the sequence, 1 failure, 1 TiFlux ticket; caches: 2 processes, 2 requests at once, with and without Redis, 4 requests, failures and evictions together | no opening takes the number of an older ticket; no answer of the dashboard is older than its caches allow or than the refresh that asked for it |
| `numbers_moved_back` (violation) | 3 openings, aligned sequence | the last `setval` moves the sequence back below numbers already drawn |
| `appointments_outbox` | 1 appointment, 2 requests, worker and administrator, 1 edit, 1 error, 1 crash | what is marked sent was sent; refinement of `OutboxContract` |
| `appointments_served` | 2 appointments over midnight, 1 request at a time, batches of 2 | no overlap, duplicates only with a cause, the queue is served |
| `appointments_starved` (violation) | batches of 1, one appointment paused | as many paused rows as a batch takes block the queue |
| `mail_and_client` | mail: 2 messages of three mixes of kinds, with and without Redis, cron, administrator and 2 workers, 2 exceptions or crashes, 1 change of the ticket or of the administrators; client: 2 calls, 2 retries each, interval 2, timeout 3, pauses of 1 and 4 | a reply is applied once, no acknowledged job loses its e-mail, a reply taken out of the queue is accounted for, every e-mail is recorded; calls take turns, keep their distance and end, and effects are explained |
| `rules_and_tickets` | calendar: first dates around the ends of months, leap day and year, 14 dates each, every periodicity; rules: a daily and a ONCE rule, cron and administrator, 1 fault, 1 change; ticket: 3 stages, 1 user, an idle rule of two actions, 2 requests and faults together | the dates are the promised ones; no date is passed over, none opened twice without a cause, every due rule is served; a ticket changes only as asked; the idle rule acts, and again only with a cause |
| `hours_and_progress` | minutes: 3 rows out of all of a short day; gaps: 4 appointments and justifications of a day in hours; events: 1 appointment, 1 justification, 4 rows, 2 callers, 3 calls, 1 move, 1 death; progress: 2 appointments, a task and a milestone after it, 2 clients, 2 requests, 1 breaking off, from every consistent state | a minute counts once; gaps are sound and justifications shown; a decision stands and the balance is current; activities and phase agree with the appointments |

**Bounds, and why they are enough.** The properties relate one object (a GMUD, an e-mail, an
appointment, a rule, an event) to the handlers that work on it; a bad interleaving needs two handlers, three when
one of them prepares the state (`PreTickets`, `TicketNumbers`). Two approvers are the minimum the
DTO allows and tell "one" from "all". Two edits let a decision outlive its round and a second
round begin. Three opening attempts let one fail, one succeed and one come too late. A day of four
minutes tells a morning from a night that ends in the next morning. `MaxChecks` 1 reaches the end of the
look-up loop (20 in the code), and the three tries at the sequence are not reduced. Attempts of a job are
2 (3 in the code), so a job may both be retried and run out. `Window`, `Take`, `MaxFailures` and the
batch limit are reduced to the number of messages and rows that make the limit bite.
Fourteen dates take a monthly rule through a year and over the end of it. `Take` 1 with two rules makes the limit of a
run bite. Three rows of a short day meet, contain, touch and repeat each other in every way the three categories can.
The gaps are computed in hours (a day of 24, an alert above 1, a workday of 5, a lunch of 2): the code only compares and
subtracts. Three calls let one prepare a row, one read it and one
overtake it. Four tickets and two groupings let one put a subtree under the other's way and leave a circle that a third meets. Three
activities have circles of two and of three, a hole between two codes and a creation against a deletion. In `DashboardCache` the ttls are 1 and 2, a request takes at most 1, and the four events are one for each of the four
caches that feed each other; the bounds of the ages are reached. Two calls to TiFlux tell who is behind whom; one pause is shorter than
the timeout and one longer, and two retries are the least the code accepts. Where a theorem exists it holds for every value of these constants.

The counters of edits, errors, crashes, changes and pauses only bound the run; properties mention them
where the promise is conditional ("unless something threw"). Symmetry is used where nothing tells people, appointments,
openings, processes or requests apart, and in no run with a liveness property.

Deadlock is not checked: each bounded system stops when its bounds are used up and every request
has been answered, and the real one stops when nobody does anything.

**Fairness.** Weak fairness of the next query of a handler in flight (a query returns or throws, and
both are steps), of the crons (`@Cron` every minute, or every five), of the workers taking jobs and of the passing of time: timers
fire and resolved promises go on, but TiFlux need not answer. Nobody is
obliged to send a request, delete, retry, resume, poll or run the rules by hand, and no failure is
obliged to happen. `appointments_starved` and `gmud_overwrite` refute under these assumptions, so
their behaviours are not ones that merely stop.

## 4. Proofs

Checked by TLAPS for any numbers of users, requests, e-mails, rows, processes and bounds, under the named ASSUMEs of the
modules: sentinels are not members, bounds are naturals, a parameter is of its type. Some ask for more: the rules (`AutoOpenAssumption`),
the tickets (`TicketsAssumption`) and the worked appointments and justifications of a day (`DayAssumption`) are finite sets, as rows of
a database are, and so are the days of a report (`MinutesAssumption`); the dtos of `Appointments` are ones the validation accepts (`DtosAssumption`); an action SET_STAGE of the idle rule names a
stage (`ActionsAssumption`); the first date of a rule is a day of the calendar (`FirstDatesAssumption`), as a DATE column holds.

* `Gmud`: `TypeCorrect`; `UnanimityRequired` with `UnanimityIInv`: not only the status but every handler
  about to write a status (a verdict `allApproved`, a pending start or completion) needs
  a unanimous round, and rows that are unanimous now have been recorded as such. `EvidenceKept` with
  `EvidenceIInv`: a request about to decide in somebody's name has stored its evidence.
  `DecisionsFinal`: an action property, from the invariant that nothing works on a GMUD that does
  not exist. `VotesAreCounted` with `VotesIInv`: while only the approvers decide, what makes the GMUD approved is unanimous still;
  while nobody edits and no request dies, a rejection without its effect, or a vote that is over, is in the hands of a request
  that has its tally or its outcome to do.
* `PreTickets`: `TypeCorrect`; `OpeningIsExclusive` with `LockIInv`: who holds the lock of an e-mail
  finds it OPENED, deleted or recorded, so nobody else passes the lock. Deletion and the blind write of
  the number make the strengthening necessary. `RecordedIsOutOfQueue` and `ErrorsAreRecovered` with `NoLossIInv`,
  together `QueueStaysSound`; `ReservationsHold`.
* `TicketNumbers`: `TypeCorrect`; `OlderTicketsAreSafe`: the number of an opening never falls below its floor, and
  the floor is above every number the opening could see.
* `TicketGroups`: `GroupTypes`; `GroupsStayTrees` with `GroupIInv`, whose part `WalkIsAWay` says that the tickets a walk has met, and their parents as read, lead
  from the new parent to the cursor and do not contain the child. Acyclicity is stated over sets (every set of tickets has a member
  whose parent is outside it or was written in a race), so no induction is needed: a set that a write would close
  contains the whole way, up to a ticket without a parent.
* `DashboardCache`: `CacheTypes` and `AnswersStayFresh` with `CacheIInv`. For the ages (`StoresOK`, `LoadsOK`): the age of what is in an entry
  and the time the entry has left add up to no more than the caches on its way allow, so an entry copied into another memory carries its past
  along. For a refresh: `LinksOK`, that who is waited for is still building that layer in that process, and `FreshFor`, that
  while nobody has crossed a refresh, neither the memory of its process, nor Redis, nor a build it could join
  (with the build of the hours inside a complete one) has anything from before.
* `TifluxClient`: `ClientTypes`; `SessionsStayOrderly` with `ClientIInv`: the calls before one that had its turn are over; the wait of a
  sleeping call covers the pause and the interval; a call none of whose requests left is in its first attempt, and had no wait for an
  earlier pause, so a pause never costs it all its attempts; every effect but one has its lost answer.

* `Appointments`: `AppointmentTypes`; `MarkedWasSent` and `OutboxImplementsContract` with `OutboxIInv`: the request that
  creates an appointment owns it until its outbox row is there; a row is of an appointment that was inserted; a batch works on a row
  that was there and commits only a copy made for it. Every step is then a step of `OutboxContract` or a stutter, under the
  mapping of `OutboxRefinement`. `NoOverlapOneAtATime`: while requests come one at a time, appointments short of a day never overlap; its lemmas
  about `AppointmentTimes` say that the dates the check looks at, and the minutes it compares, are enough for such appointments.
  `CopiesAreExplained`, while batches come one at a time (`Processors = {p}`, as in the run): its `AccountIInv` keeps an account for each
  appointment, in which the copies there are, the rows that may still be sent and the requests that may make a row PENDING are together at most
  one more than the errors, crashes and edits. A send moves its row from the second to the first; what puts a row back, or
  lets a second request ask for one, is counted. Two batches at once may both send a row, so with them the property does not hold.
* `EmailIngest`: `MailTypes`; `MailIsSafe` with `MailIInv`: only the process that inserted a message goes on to write it, and a
  text of a ticket that anybody has read holds settled messages only, so nothing is applied twice or acknowledged unrecorded. On top of it
  `AccountIInv` follows an OPENED reply: it leaves the hands of its process for the description, for the log or by a failure; one read
  without an administrator has an unknown sender; and as a warning is given by who has the reply in its hands, no text that anybody has read
  holds it, so it never gets into the description later. That every e-mail gets a row is liveness, and only checked.
* `AutoOpen`: `RuleTypes`; `DatesAreKept` with `RuleIInv`: the snapshot of a run is one of the rule's dates and misses none before
  it; a rule without an excuse is in one run at most; its tickets are for dates before its next one.
* `RuleCalendar`: `DatesAreAsPromised` with `SeriesIInv`. The lemmas are about the calendar itself: a day or a month further on is the
  next day number, or one month later or, for a day that month does not have, one of the first days of the month after; of any three days one is a
  working day, and the search takes the first. The count of working days grows by one a step, and a rule that has spilled over has a
  day of at most 3, which every month has.
* `Tickets`: `TicketTypes`; `IdleRuleActsOnce` with `TicketIInv`: a call knows the creation of its ticket and moves only one it has read
  open; what the idle rule did to a ticket is recorded since the ticket last entered any stage, unless it is still at work or
  something went wrong. `ChangesHaveACause`: every change of a stage or a closing is one somebody asked for or a rule's action.
* `ProjectPlan`: `PlanTypes`; `PlanStaysSound` with `PlanIInv`: edges join rows; the plan a request has validated, with its own
  predecessors, has no circle through its activity; nobody else works on an activity being created and nothing leads to it. Acyclicity
  is stated over sets here too. That a phase has a smallest free and a greatest number comes from the library's theorem on well-founded orders.
* `ProjectClosing`: `ClosingTypes`; `CompletionCovered` and `ClosingStays` with `ClosingIInv`: a request about to write read the
  project open and, if it completes it, within its budget or approved.
* `DayEvents`: `DayStaysSound` and `DecisionsStay` with `DayIInv`: the event of a justification is decided as the
  justification is; what a synchronisation has still to write follows what was decided when it read; the statements left to a call are
  one of the code's lists. `BalanceStaysCurrent` with `BalanceIInv`: who has changed a sum owes the day a balance or has left a reason
  in `drift`, and a call about to decide or delete owes nothing yet. `SumFunction` stays opaque: what is
  proved is that it is taken again after every change of a row it is taken over.
* `ProjectProgress`: `ProgressStaysCurrent` with `ProgressIInv`: a request that changed a link owes its activity a
  recalculation until it writes it, one that changed an appointment owes its link the minutes unless it finds none, and one that wrote
  an activity owes the phase. The ids of the links tell the link a request found from one made since, which is what makes the deletion
  of an appointment safe. The sums stay opaque here too.

* `WorkedMinutes`: `EveryMinuteCountsOnce`, for any rows in any order. A fold is shown to be a run of states (`LoopHasTable`, `TableIsRun`),
  so what each loop keeps is an ordinary invariant of its rounds, and induction over the rounds is the statement that a set of rounds with
  the first one and the next of each has them all (`EveryRound`, from the library's well-founded order of the naturals). mergeIntervals keeps
  the intervals apart, in order and of the minutes of those it has taken (`MergedTo`); subtractMinutes has counted the minutes its
  cursor has passed that nothing covers, and nothing before the cursor is still to come (`CursorAt`); the sums over the days are taken in
  whatever order (`TotalAdds`, `TotalChanges`). Then the three parts of a day are disjoint and their union is the day's, and row by row the
  union grows by no more than the minutes of the row. The sort is the only step not followed: `SortedByStart` is any order by the start.

The arguments go action by action; each proof module says what strengthening it uses and why.

Only model-checked: everything about liveness (`OpeningEnds`, `QueuedIsServed`, `MailIsHandled`, `RulesAreServed`, `GroupingEnds`,
`CallsEnd`), for which the prover has no ENABLED; what the seven passes over the gaps of a day return (`PageIsSound`),
each of which would need the treatment `WorkedMinutes` got; the ranges of the sums in the types of `DayEvents` and `ProjectProgress`; and the types of the composed runs (`TypeOK`, `TypesOK` of the `MC*` modules), which are the types of the parts,
proved above for each but the two sums and the calculations of a day. No module uses a RECURSIVE operator.

## 5. Divergences met while modelling

Four are runs (section 3, findings in `PROJECT.json`). The others need no run to be seen, or restate a
promise the code does not make. Each is an exception a property names, a case a module leaves to its reader,
or was found while reading code that is not modelled (said so). Numbers are lines of the component's service.

**Gmud.** `update` (480) writes without repeating the check of the status, so an edit may keep an approval
given for the earlier content, although the comment at line 97 asks for a new round; `startExecution` (793) writes
over a cancellation.

**Pre-tickets and numbers.** A crash between the lock (342) and the number leaves the e-mail OPENED and in no queue; `softDelete`
(317) discards an e-mail that is being opened. Two openings that both realign the sequence (81) may draw the same number.

**Appointments and outbox.** The date of the end is not stored (1545), so an appointment of exactly a day counts as
one of no time in later checks; the overlap check and the insert (1530, 1545) are not atomic; a crash between the
insert and the outbox row (1564) leaves an appointment that waits for ever. `retryFailed` (88) puts rows back that were sent
meanwhile; a payload edited during a send is marked SYNCED with the old content (155).

**E-mail.** `applyEmailToOpenTicket` returns with a warning (510-516) when no ADMIN is active and the sender is no user of the portal
(219-230; nothing keeps the last ADMIN from being deactivated, `users.service.ts` 724): the reply stays OPENED with `appliedToTicket` true,
in no operator's queue and in no description, its job is acknowledged, and the next line logs it as applied (417-419). `unapplied` holds these replies:
`MailIsHandled` accepts them as an end, `UnappliedIsExcused` says that there are no others. Two replies to one ticket may overwrite each other (502-526); a reply whose process dies before the
description is written is lost (405); a reply to a ticket closed after it was looked at is applied (253);
a message whose job used up its attempts is not queued again while the queue remembers the job;
more than 40 messages between two polls push old ones out.

**Rules that open tickets.** The comment at 771-776 says a failing rule is advanced so that it does not fail on every run; the
advance of a ONCE rule returns the same date, so it fails every minute and is switched off after five, and if the error comes
after its ticket it has opened up to five. `setActive` and `update` do not reset the failures counted. A run writes over a
date an administrator has edited meanwhile. A monthly rule of a day above 28 moves to the first days of a month
and stays there. A cron and an administrator at once, or a death after the ticket, open two tickets of one date.

**Tickets and automation.** The idle rule looks at the 80 tickets untouched for longest, those it has handled included, so with 80 of these
it reaches no other. The time of a reopened ticket counts from an earlier event of its stage. A history that cannot be
written is ignored. When one action fails, the earlier ones are repeated every tick. `updateTicket` writes back the
whole row it read, over a stage or a closing written meanwhile.

**Day events and balance.** A synchronisation can undo a decision taken after its read, bring back the event of a justification
deleted meanwhile, and write over the status of a justification's event. Editing a justification changes the key of its event
without changing the stored one, so the next synchronisation inserts a second live JUSTIFICATION event. A justification
approved between its insert and the failure of its event is deleted without a new balance; editing one approved
meanwhile changes its debit without a new balance; the list for approval changes approved minutes without one; and nothing removes an
overtime event whose appointment was deleted.

**Gaps of a day.** `entryToInterval` (`rendimento-day-insights.ts` 157) adds the duration of a regular appointment past midnight to its end, so
it has no interval and counts nothing. A lunch past midnight is compared by the clock, and the tail overlaps it. An ALERT justification
of at most an hour inside the lunch leaves two lunch gaps, where the comment at 847-850 says at most one. The new tail of
`applyApprovedVoluntaryCredit` is not cut by a voluntary justification that begins at or before the tail, where the comment at
1119-1123 says it may not invade it; a tail trimmed by that cut is not recognised, so a second tail is added over it (work 8-9,
voluntary 11-12: 11-14 and 12-15); the minutes of a credited tail may exceed its span. Editing a justification applies no limit of
lunch; its minutes come from the client; two made at once may overlap. `splitFirstLongIdleGapIntoLunch` has no caller.

**Projects.** A link made while its appointment is deleted goes with it and its activity is not recomputed; an edit that races a link
leaves old minutes in it; a new duration does not recompute the progress; the recalculation starts an activity without looking at its
predecessors, though `docs/V2-PROJETOS-ESPECIFICACAO.md` 91 makes finished predecessors a condition of the start, and so does a creation with
progress (2585); `updateActivity` writes back the progress it read. Two validations of predecessors at once (2303-2391) can let a circle in,
and the import (604-620) checks none; an error of one of its rows aborts the transaction while the rows before it count as
saved; `updateActivity` (2817-2824) writes predecessors without removing repetitions, so a repeated one fails on the unique index after
the old ones were deleted. A deleted activity keeps its code in the unique index (2301): if it had the last code of its phase, every
creation there fails from then on. The specification (29) makes a closed project read only; the appointments of its ticket (1251) and the import (2981)
still change it. A reopened project keeps its old completion approval; a deleted one keeps its ticket number.

**Groups of tickets.** Two groupings at once can make a circle of parents (`tickets.service.ts` 1363-1377), because the write does not repeat
the walk; one that meets the circle later ends, by the set of tickets it has seen.

**Dashboard.** `docs/PERFORMANCE.md` gives the ttls (60 s, 600 s), but an entry found in Redis starts a new one in memory, and hours inside a
complete answer are cached again with it: hours may be two ttls of hours and two of complete answers old (`OldestHours + OldestTickets`). A
forced refresh clears the memory of its own process only; what an older build, or a value fetched from Redis before, puts back
after it may be what the refresh answers (`excused`). `resolveCompleteCacheTtlMs` caps long periods, so with a default above 120 s they are kept for a shorter
time than short ones.

**TiFlux client.** The timer of an attempt starts before the wait for a pause (429), so a pause of up to 120 s uses up an attempt whose timeout
is 12 s. A request without an answer (abort, network error) does not count as the last one, so the next may follow it at
once, though the comment at 366 asks for a distance. POSTs are repeated after a 5xx or a timeout that may have come after the effect, and a
copy more results; an answer that cannot be parsed throws although it took effect. A Retry-After above 120 s is cut to 120 s. The
distance is kept per process. The total of a cached list is the length of its page (989-991).

## 6. Not modelled, and the plan

Abstracted in the modelled components: permissions and validation beyond times, formatting, HTML,
attachments beyond their being stored, notifications, audit. BullMQ forgets completed jobs after 200 and
failed ones after 500; the model remembers them, so a job is taken to be added once. `PROJECT.json` names what each component
leaves out; the larger parts are the PLANTAO events, the purge of IDLE_ALERT and LUNCH events and bulk decisions of rendimento (the same
statements in a loop), overtime appointments that overlap (`DayEvents`), and in projetos the deletion of a phase, a change of `isMilestone`, hours
entered by hand, documents and history; codes of an import that are not of the phase are left out.

The map covers a small share of the repository's 126,594 lines, and a modest share of the API's: almost half is the front end; much of
the rest builds answers out of rows (reports, lists, charts, exports, spreadsheets), keeps master data with one statement per
request, or wraps an outside system. None of it has a state or an order of steps a model could be
wrong about, and modelling it would be transliteration.

Done: `Gmud`, `PreTickets`, `TicketNumbers`, `Appointments` with `OutboxContract`, `EmailIngest`; `RuleCalendar`, `AutoOpen`, `Tickets`;
`WorkedMinutes`, `DayGaps`, `DayEvents`, `ProjectProgress`; `DashboardCache`; `TicketGroups`, `ProjectPlan`, `ProjectClosing`; `TifluxClient`; and the theorems of section 4.
Every safety invariant and action property of the passing runs is now a theorem, but for the gaps of a day and the composed types that
section 4 names. Left:

1. `PageIsSound` for any number of rows: the passes of a page stated as runs, as section 4 says of `WorkedMinutes`, whose merge they share.
2. What the abstracted parts above would add to the models, where a property is found that reaches them.

To run: `tlc -config <run>.cfg <module>.tla` for a row of section 3 (module in `PROJECT.json`), `tlapm <X>Proofs.tla` for the proofs.
