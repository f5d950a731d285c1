------------------------------- MODULE Tickets -------------------------------
(***************************************************************************)
(* The row of a ticket and the automation rules that act on it, translated *)
(* from tickets.service.ts (createTicket, updateTicket),                   *)
(* tickets-query.service.ts (updateTicketStage), tickets-portal-store      *)
(* .service.ts and ticket-automation.service.ts: one TICKET_IDLE rule, run *)
(* by a cron, and what a STAGE_CHANGE or TICKET_OPENED rule does within a  *)
(* request.                                                                *)
(*                                                                         *)
(* Every call reads the row of the ticket and writes it later.             *)
(* updateTicketStage writes two columns, updateTicket the whole row as it  *)
(* was read.  The history, from which the idle rule takes how long a       *)
(* ticket has been in its stage, is written after the row, or not at all.  *)
(***************************************************************************)
EXTENDS Integers, Sequences, FiniteSets

CONSTANTS
    TicketIds,
    Stages, LastStages, Novo,
    Cancelado,        \* the stage whose event is TICKET_CANCELLED
    Responsibles, Nobody,
    Keep,             \* a field the dto leaves out
    Users,            \* slots for requests in flight
    Job,              \* the cron that runs the idle rule
    IdleStage,        \* conditions.idleStageName, Keep when the rule has none
    IdleTime,         \* conditions.idleMinutes
    IdleActions,      \* what the idle rule does, in order
    EventDto,         \* what the rules of the other triggers set
    Window,           \* tickets a run of the idle rule looks at (80)
    MaxTime,          \* bound: minutes
    MaxSpent          \* bound: requests, actions that fail, lost events and jobs
                      \* that die, together

ASSUME TicketsAssumption ==
    /\ Novo \in Stages /\ LastStages \subseteq Stages
    /\ Job \notin Users /\ Nobody \notin Responsibles /\ Keep \notin Stages \cup Responsibles
    /\ TicketIds # {} /\ IsFiniteSet(TicketIds)
    /\ IdleTime \in Nat /\ Window \in Nat \ {0} /\ MaxTime \in Nat /\ MaxSpent \in Nat

VARIABLES
    now,        \* the time, in minutes
    ticket,     \* the rows of portal_tickets
    entered,    \* the last STAGE_CHANGED event into a stage
    lastRun,    \* the last SUCCESS of the idle rule
    call,       \* the calls in flight of users and of the job
    job,        \* the run of processIdleRules
    acted,      \* tickets the idle rule acted on since they entered their stage
    again,      \* tickets it acted on twice in one stay
    explained,  \* tickets for which that may happen
    spent       \* what the bound counts

ticketVars == <<now, ticket, entered, lastRun, call, job, acted, again, explained, spent>>

-----------------------------------------------------------------------------
Never == -1
Times == 0..MaxTime
Callers == Users \cup {Job}

Row == [exists: BOOLEAN, stage: Stages, closed: BOOLEAN,
        responsible: Responsibles \cup {Nobody}, updated: Times, created: Times]

Dto == [stage: Stages \cup {Keep}, closed: BOOLEAN \cup {Keep},
        responsible: Responsibles \cup {Nobody, Keep}]

\* An action to move a ticket names a stage.
ASSUME ActionsAssumption ==
    /\ IdleActions \in Seq([type: STRING, dto: Dto]) /\ EventDto \in Dto
    /\ \A i \in DOMAIN IdleActions :
          IdleActions[i].type = "SET_STAGE" => IdleActions[i].dto.stage \in Stages

Call == [pc: {"idle", "stage", "update", "event", "automation"}, of: TicketIds,
         dto: Dto, seen: Row, kind: {"stage", "update"}]

Candidate == [of: TicketIds, stage: Stages]

JobRun == [pc: {"idle", "check", "act"}, todo: Seq(Candidate),
           action: 1..(Len(IdleActions) + 1)]

TicketTypeOK ==
    /\ now \in Times
    /\ ticket \in [TicketIds -> Row]
    /\ entered \in [TicketIds -> [Stages -> Times \cup {Never}]]
    /\ lastRun \in [TicketIds -> Times \cup {Never}]
    /\ call \in [Callers -> Call]
    /\ job \in JobRun
    /\ call[Job].pc # "idle" => job.pc = "act"
    /\ job.pc # "idle" => job.todo # << >>
    /\ acted \subseteq TicketIds /\ again \subseteq TicketIds /\ explained \subseteq TicketIds
    /\ spent \in 0..MaxSpent

NoDto == [stage |-> Keep, closed |-> Keep, responsible |-> Keep]

NoTicket == [exists |-> FALSE, stage |-> Novo, closed |-> FALSE, responsible |-> Nobody,
             updated |-> 0, created |-> 0]

NoCall == [pc |-> "idle", of |-> CHOOSE t \in TicketIds : TRUE, dto |-> NoDto,
           seen |-> NoTicket, kind |-> "update"]

NoJob == [pc |-> "idle", todo |-> << >>, action |-> 1]

TicketInit ==
    /\ now = 0
    /\ ticket = [t \in TicketIds |-> NoTicket]
    /\ entered = [t \in TicketIds |-> [s \in Stages |-> Never]]
    /\ lastRun = [t \in TicketIds |-> Never]
    /\ call = [p \in Callers |-> NoCall]
    /\ job = NoJob
    /\ acted = {} /\ again = {} /\ explained = {}
    /\ spent = 0

-----------------------------------------------------------------------------
Given(value, default) == IF value = Keep THEN default ELSE value

Spend == spent < MaxSpent /\ spent' = spent + 1

\* The row of t becomes new; a ticket that changes stage begins another stay.
WriteRow(t, new) ==
    /\ ticket' = [ticket EXCEPT ![t] = new]
    /\ acted' = IF new.stage = ticket[t].stage THEN acted ELSE acted \ {t}

\* What updateTicketStage and updateTicket refuse once they have read the row.
RefusesStage(t) == ticket[t].closed

RefusesUpdate(t, dto) ==
    /\ ticket[t].closed /\ dto.closed # FALSE
    /\ dto.stage # Keep \/ dto.responsible # Keep

Started(pc, t, dto) ==
    [pc |-> pc, of |-> t, dto |-> dto, seen |-> ticket[t], kind |-> pc]

-----------------------------------------------------------------------------
\* The steps of a call, of a user's or of the job.

\* updateTicketStage: patchStage writes stage and isClosed.  The stage the
\* ticket is in already only closes it, if it is a last one.
WriteStage(p) ==
    LET c == call[p]
        closes == c.dto.stage \in LastStages
    IN /\ c.pc = "stage"
       /\ IF c.dto.stage = c.seen.stage /\ ~closes
          THEN /\ call' = [call EXCEPT ![p] = NoCall]
               /\ UNCHANGED <<ticket, acted>>
          ELSE /\ WriteRow(c.of, [ticket[c.of] EXCEPT !.stage = c.dto.stage,
                                     !.closed = closes, !.updated = now])
               /\ call' = [call EXCEPT ![p].pc = "event"]
       /\ UNCHANGED <<now, entered, lastRun, job, again, explained, spent>>

\* updateTicket: upsertByTicketNumber writes the row that was read back, with
\* the fields of the dto over it.
Reopens(c) == c.seen.closed /\ c.dto.closed = FALSE

\* Mutant: without a stage in the dto the ticket goes back to the first one.
NewStage_Novo(c) == Given(c.dto.stage, Novo)

NewStage(c) == Given(c.dto.stage, IF Reopens(c) THEN Novo ELSE c.seen.stage)

WriteUpdate(p) ==
    LET c == call[p]
        new == [c.seen EXCEPT !.stage = NewStage(c), !.closed = Given(c.dto.closed, @),
                              !.responsible = Given(c.dto.responsible, @), !.updated = now]
    IN /\ c.pc = "update"
       /\ WriteRow(c.of, new)
       /\ call' = [call EXCEPT ![p].pc = "event"]
       /\ UNCHANGED <<now, entered, lastRun, job, again, explained, spent>>

\* The event of a call is STAGE_CHANGED unless it closes, reopens or cancels.
IsStageChange(c) ==
    IF c.kind = "stage" THEN c.dto.stage \notin LastStages
    ELSE /\ NewStage(c) # c.seen.stage
         /\ ~Reopens(c) /\ NewStage(c) # Cancelado
         /\ c.seen.closed \/ Given(c.dto.closed, c.seen.closed) = FALSE

EventStage(c) == IF c.kind = "stage" THEN c.dto.stage ELSE NewStage(c)

\* A user's stage change goes on to the rules of its trigger, the job's does not.
AfterEvent(p) ==
    IF p # Job /\ call[p].kind = "stage"
    THEN [call EXCEPT ![p].pc = "automation"] ELSE [call EXCEPT ![p] = NoCall]

RecordEvent(p) ==
    LET c == call[p] IN
    /\ c.pc = "event"
    /\ IF IsStageChange(c)
       THEN /\ entered' = [entered EXCEPT ![c.of][EventStage(c)] = now]
            /\ explained' = IF c.of \in acted THEN explained \cup {c.of} ELSE explained
       ELSE UNCHANGED <<entered, explained>>
    /\ call' = AfterEvent(p)
    /\ UNCHANGED <<now, ticket, lastRun, job, acted, again, spent>>

\* The history never holds a change up: its failure is ignored.
EventIsLost(p) ==
    /\ call[p].pc = "event" /\ IsStageChange(call[p])
    /\ Spend
    /\ call' = AfterEvent(p)
    /\ UNCHANGED <<now, ticket, entered, lastRun, job, acted, again, explained>>

\* dispatchTrigger: the actions of a STAGE_CHANGE or TICKET_OPENED rule, one
\* more updateTicket; when it is refused, the failure is recorded and that is all.
Automate(p) ==
    LET t == call[p].of IN
    /\ call[p].pc = "automation"
    /\ call' = [call EXCEPT ![p] =
          IF RefusesUpdate(t, EventDto) THEN NoCall ELSE Started("update", t, EventDto)]
    /\ UNCHANGED <<now, ticket, entered, lastRun, job, acted, again, explained, spent>>

-----------------------------------------------------------------------------
\* Users.

\* createTicket: once the row is there, an error of what follows it (the GMUD
\* link, the description, the watchers) leaves it there without its automation.
CreateTicket(u, t, responsible, ok) ==
    /\ call[u].pc = "idle" /\ ~ticket[t].exists
    /\ ticket' = [ticket EXCEPT ![t] = [NoTicket EXCEPT !.exists = TRUE,
                     !.responsible = responsible, !.created = now, !.updated = now]]
    /\ IF ok THEN /\ call' = [call EXCEPT ![u] = [NoCall EXCEPT !.pc = "automation", !.of = t]]
                  /\ UNCHANGED spent
             ELSE Spend /\ UNCHANGED call
    /\ UNCHANGED <<now, entered, lastRun, job, acted, again, explained>>

CallStage(u, t, stage) ==
    /\ call[u].pc = "idle" /\ ticket[t].exists /\ ~RefusesStage(t)
    /\ call' = [call EXCEPT ![u] = Started("stage", t, [NoDto EXCEPT !.stage = stage])]
    /\ Spend
    /\ UNCHANGED <<now, ticket, entered, lastRun, job, acted, again, explained>>

CallUpdate(u, t, dto) ==
    /\ call[u].pc = "idle" /\ ticket[t].exists /\ ~RefusesUpdate(t, dto)
    /\ call' = [call EXCEPT ![u] = Started("update", t, dto)]
    /\ Spend
    /\ UNCHANGED <<now, ticket, entered, lastRun, job, acted, again, explained>>

-----------------------------------------------------------------------------
\* processIdleRules.

IsIdleCandidate(t) ==
    /\ ticket[t].exists /\ ~ticket[t].closed
    /\ ticket[t].responsible # Nobody       \* a ticket nobody has is a pre-ticket
    /\ IdleStage # Keep => ticket[t].stage = IdleStage

\* resolveStageEnteredAt
\* Mutant: any change of the ticket begins a stay.
StageEnteredAt_Touched(t, stage) == ticket[t].updated

StageEnteredAt(t, stage) ==
    IF entered[t][stage] = Never THEN ticket[t].created ELSE entered[t][stage]

\* Whether the rule has acted in this stay: priorRun.
\* Mutant: whether it has ever acted.
Handled_Ever(t, stage) == lastRun[t] # Never

Handled(t, stage) == lastRun[t] >= StageEnteredAt(t, stage)

IsIdle(t, stage) ==
    now - StageEnteredAt(t, stage) >= IdleTime /\ ~Handled(t, stage)

\* The candidates, the ones that were not touched for longest first.
OldestFirst(ids) ==
    {q \in [1..Cardinality(ids) -> ids] :
        /\ \A i, j \in DOMAIN q : i # j => q[i] # q[j]
        /\ \A i, j \in DOMAIN q : i < j => ticket[q[i]].updated <= ticket[q[j]].updated}

StartJob ==
    /\ job.pc = "idle"
    /\ \E q \in OldestFirst({t \in TicketIds : IsIdleCandidate(t)}) :
          /\ q # << >>
          /\ job' = [pc |-> "check", action |-> 1,
                     todo |-> [i \in 1..(IF Len(q) < Window THEN Len(q) ELSE Window) |->
                                 [of |-> q[i], stage |-> ticket[q[i]].stage]]]
    /\ UNCHANGED <<now, ticket, entered, lastRun, call, acted, again, explained, spent>>

NextCandidate ==
    job' = IF Len(job.todo) = 1 THEN NoJob
           ELSE [pc |-> "check", action |-> 1, todo |-> Tail(job.todo)]

CheckCandidate ==
    LET c == Head(job.todo) IN
    /\ job.pc = "check"
    /\ IF IsIdle(c.of, c.stage)
       THEN /\ job' = [job EXCEPT !.pc = "act"]
            /\ again' = IF c.of \in acted THEN again \cup {c.of} ELSE again
            /\ acted' = acted \cup {c.of}
       ELSE NextCandidate /\ UNCHANGED <<again, acted>>
    /\ UNCHANGED <<now, ticket, entered, lastRun, call, explained, spent>>

Acting == job.pc = "act" /\ call[Job].pc = "idle"

\* One action of the rule is done, or is handed to the call it makes; after the
\* last one a SUCCESS is recorded.
NextAction ==
    job' = [job EXCEPT !.action = @ + 1]

RecordRun ==
    LET t == Head(job.todo).of IN
    /\ Acting /\ job.action > Len(IdleActions)
    /\ lastRun' = [lastRun EXCEPT ![t] = now]
    /\ NextCandidate
    /\ UNCHANGED <<now, ticket, entered, call, acted, again, explained, spent>>

\* A FAILED run, which keeps no later tick from trying again.
RunFails(t) ==
    /\ NextCandidate
    /\ explained' = explained \cup {t}

ActNext ==
    LET t == Head(job.todo).of
        action == IdleActions[job.action]
        refused == IF action.type = "SET_STAGE" THEN RefusesStage(t)
                   ELSE RefusesUpdate(t, action.dto)
    IN /\ Acting /\ job.action <= Len(IdleActions)
       /\ IF action.type = "NOTIFY" THEN NextAction /\ UNCHANGED <<call, explained>>
          ELSE IF refused THEN RunFails(t) /\ UNCHANGED call
          ELSE /\ NextAction
               /\ call' = [call EXCEPT ![Job] =
                     Started(IF action.type = "SET_STAGE" THEN "stage" ELSE "update",
                             t, action.dto)]
               /\ UNCHANGED explained
       /\ UNCHANGED <<now, ticket, entered, lastRun, acted, again, spent>>

\* An e-mail, a webhook or TiFlux fails.
ActionFails ==
    /\ Acting /\ job.action <= Len(IdleActions)
    /\ Spend
    /\ RunFails(Head(job.todo).of)
    /\ UNCHANGED <<now, ticket, entered, lastRun, call, acted, again>>

JobDies ==
    /\ job.pc = "act"
    /\ Spend
    /\ explained' = explained \cup {Head(job.todo).of}
    /\ job' = NoJob /\ call' = [call EXCEPT ![Job] = NoCall]
    /\ UNCHANGED <<now, ticket, entered, lastRun, acted, again>>

MinutePasses ==
    /\ now < MaxTime /\ now' = now + 1
    /\ UNCHANGED <<ticket, entered, lastRun, call, job, acted, again, explained, spent>>

-----------------------------------------------------------------------------
\* What users ask updateTicket for.
Requests ==
    {[NoDto EXCEPT !.responsible = r] : r \in Responsibles \cup {Nobody}}
        \cup {[NoDto EXCEPT !.closed = b] : b \in BOOLEAN}
        \cup {[NoDto EXCEPT !.stage = s] : s \in Stages}

CallStep(p) == WriteStage(p) \/ WriteUpdate(p) \/ RecordEvent(p) \/ Automate(p)

JobStep == CheckCandidate \/ ActNext \/ RecordRun \/ CallStep(Job)

TicketNext ==
    \/ MinutePasses
    \/ \E p \in Callers : CallStep(p) \/ EventIsLost(p)
    \/ \E u \in Users, t \in TicketIds :
          \/ \E r \in Responsibles \cup {Nobody}, ok \in BOOLEAN : CreateTicket(u, t, r, ok)
          \/ \E s \in Stages : CallStage(u, t, s)
          \/ \E dto \in Requests : CallUpdate(u, t, dto)
    \/ StartJob \/ CheckCandidate \/ ActNext \/ RecordRun \/ ActionFails \/ JobDies

-----------------------------------------------------------------------------
\* What a call asks the row of its ticket to become.
Asks(c, new) ==
    IF c.pc = "stage" THEN new.stage = c.dto.stage /\ new.closed = (c.dto.stage \in LastStages)
    ELSE /\ \/ new.stage \in {c.dto.stage, ticket[c.of].stage}
            \/ Reopens(c) /\ new.stage = Novo
         /\ new.closed \in {c.dto.closed, ticket[c.of].closed}
         /\ new.responsible \in {c.dto.responsible, ticket[c.of].responsible}

\* A ticket gets the stage, the responsible or the state somebody asks for and
\* nothing else: it is not moved or given back by a call about another field,
\* unless that call had read the row before another one wrote it; and a closed
\* ticket is opened only by a call that asks to reopen it or had read it open.
ChangesAreAskedFor ==
    [][\A t \in TicketIds : ticket[t].exists /\ ticket'[t] # ticket[t] =>
          \E p \in Callers :
             /\ call[p].of = t /\ call[p].pc \in {"stage", "update"}
             /\ Asks(call[p], ticket'[t]) \/ call[p].seen # ticket[t]
             /\ ticket[t].closed /\ ~ticket'[t].closed =>
                   ~call[p].seen.closed \/ call[p].dto.closed = FALSE]_ticketVars

\* The idle rule acts once on a ticket in its stay in a stage, unless one of its
\* actions failed or the job died, or the event of the stage was recorded after
\* the rule had acted.
ActedAgainIsExplained == again \subseteq explained

\* A ticket that has been in its stage for the time of the rule, as its history
\* says, and without a success of the rule since.
IsOverdue(t) ==
    /\ IsIdleCandidate(t)
    /\ now - StageEnteredAt(t, ticket[t].stage) >= IdleTime
    /\ lastRun[t] < StageEnteredAt(t, ticket[t].stage)

\* Such a ticket does not stay so for ever, when the window of a run holds all
\* the candidates.
IdleIsServed == \A t \in TicketIds : IsOverdue(t) ~> ~IsOverdue(t)
=============================================================================
