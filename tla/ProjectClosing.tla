---------------------------- MODULE ProjectClosing ----------------------------
(***************************************************************************)
(* The life of a project, translated from projetos.service.ts: its status, *)
(* its budget and the approval that an administrator gives when more time  *)
(* was consumed than the budget has (updateProject,                        *)
(* assertCanCompleteProject, approveProjectCompletion, reopenProject,      *)
(* deleteProject).                                                         *)
(*                                                                         *)
(* A request reads the row of the project, then the activities with their  *)
(* appointments, and writes by id.  The time consumed moves meanwhile: the *)
(* requests of the project look first whether it is closed, those of its   *)
(* ticket and the import do not.  ProjectProgress says how the time of an  *)
(* activity comes from its appointments; here it is one number.            *)
(***************************************************************************)
EXTENDS Naturals, Sequences

CONSTANTS
    ProjectStatuses,  \* ProjectStatus
    Budgets,          \* budgetAmount in one unit; 0 when a project has none
    MaxConsumed,      \* bound: the time consumed
    Same,             \* a field the dto leaves out
    Editors,          \* slots for requests in flight
    MaxAsked          \* bound: requests of people

Locked == {"COMPLETED", "CANCELED"}
Approvals == {"NOT_REQUIRED", "PENDING", "APPROVED"}

ASSUME ClosingAssumption ==
    /\ Locked \cup {"IN_PROGRESS"} \subseteq ProjectStatuses
    /\ Budgets \subseteq Nat /\ MaxConsumed \in Nat /\ MaxAsked \in Nat
    /\ Same \notin ProjectStatuses /\ Same \notin Budgets

VARIABLES
    project,     \* the row of the project
    consumed,    \* the time its activities have consumed
    asked,       \* the requests in flight
    moved,       \* what a completion was decided on has changed since it was read
    asks         \* requests begun

closingVars == <<project, consumed, asked, moved, asks>>

-----------------------------------------------------------------------------
Project == [status: ProjectStatuses, approval: Approvals, budget: Budgets, deleted: BOOLEAN]
ProjectDto == [status: ProjectStatuses \cup {Same}, budget: Budgets \cup {Same}]

Jobs == {"load", "ask", "dismiss", "write", "approve", "reopen", "delete", "work"}

\* row is the project as the request read it, time what it read of the activities.
Asked == [todo: Seq(Jobs), row: Project, time: 0..MaxConsumed, dto: ProjectDto]

Waiting(u) == asked[u].todo = << >>
Doing(u, job) == asked[u].todo # << >> /\ Head(asked[u].todo) = job
Editable == project.status \notin Locked

\* The types of the row of the project and of the requests.
ClosingTypeOK ==
    /\ project \in Project
    /\ consumed \in 0..MaxConsumed
    /\ asked \in [Editors -> Asked]
    /\ moved \in BOOLEAN /\ asks \in 0..MaxAsked

NoDto == [status |-> Same, budget |-> Same]

NotAsked == [todo |-> << >>, row |-> CHOOSE row \in Project : TRUE, time |-> 0, dto |-> NoDto]

\* buildBudgetDto: a project without a budget exceeds nothing.
Exceeded(budget, time) == budget # 0 /\ time > budget

-----------------------------------------------------------------------------
\* resolveProjectInScope: a request reads the row of a project that is not deleted.
Ask(u, todo, dto, time) ==
    /\ Waiting(u) /\ ~project.deleted /\ asks < MaxAsked
    /\ asks' = asks + 1
    /\ asked' = [asked EXCEPT ![u] = [todo |-> todo, row |-> project, time |-> time, dto |-> dto]]
    /\ UNCHANGED <<project, consumed, moved>>

\* Mutant: updateProject without assertProjectEditable.
UpdateProject_Closed(u, dto) == Ask(u, <<"load">>, dto, 0)

\* updateProject.
UpdateProject(u, dto) == Editable /\ Ask(u, <<"load">>, dto, 0)

\* approveProjectCompletion, of an administrator.
ApproveCompletion(u) == project.approval = "PENDING" /\ Ask(u, <<"approve">>, NoDto, 0)

\* reopenProject, of an administrator.
ReopenProject(u) == ~Editable /\ Ask(u, <<"reopen">>, NoDto, 0)

\* deleteProject asks for no status.
DeleteProject(u) == Ask(u, <<"delete">>, NoDto, 0)

\* linkActivityAppointment, unlinkActivityAppointment, createActivity, updateActivity
\* and deleteActivity change the time consumed of an open project.
WorkInProject(u, time) == Editable /\ Ask(u, <<"work">>, NoDto, time)

\* createTicketAppointment with an activity, updateTicketAppointment and
\* deleteTicketAppointment of a linked appointment, importProject: the time
\* changes whatever the status.
WorkOutside(time) ==
    /\ time # consumed /\ asks < MaxAsked
    /\ asks' = asks + 1
    /\ consumed' = time
    /\ moved' = TRUE
    /\ UNCHANGED <<project, asked>>

-----------------------------------------------------------------------------
Proceed(u, todo) ==
    asked' = [asked EXCEPT ![u] = IF todo = << >> THEN NotAsked ELSE [asked[u] EXCEPT !.todo = todo]]

\* Mutant: an approval is dismissed whenever the budget is not exceeded.
Verdict_Dismisses(row, time, dto) ==
    IF dto.status # "COMPLETED" THEN <<"write">>
    ELSE IF Exceeded(row.budget, time)
         THEN IF row.approval = "APPROVED" THEN <<"write">> ELSE <<"ask">>
         ELSE <<"dismiss", "write">>

\* Mutant: a project that waits for its approval already is not refused again.
Verdict_AskedOnce(row, time, dto) ==
    IF dto.status = "COMPLETED" /\ Exceeded(row.budget, time) /\ row.approval = "NOT_REQUIRED"
    THEN <<"ask">> ELSE <<"write">>

\* assertCanCompleteProject: a project over its budget waits for an approval.
Verdict(row, time, dto) ==
    IF dto.status # "COMPLETED" \/ row.budget = 0 THEN <<"write">>
    ELSE IF Exceeded(row.budget, time)
         THEN IF row.approval = "APPROVED" THEN <<"write">> ELSE <<"ask">>
         ELSE IF row.approval = "PENDING" THEN <<"dismiss", "write">> ELSE <<"write">>

\* loadProjectActivities, and the verdict on a completion.
LoadActivities(u) ==
    LET r == asked[u] IN
    /\ Doing(u, "load")
    /\ asked' = [asked EXCEPT ![u].time = consumed, ![u].todo = Verdict(r.row, consumed, r.dto)]
    /\ UNCHANGED <<project, consumed, moved, asks>>

\* The approval becomes pending, and the request is refused.
AskForApproval(u) ==
    /\ Doing(u, "ask")
    /\ project' = [project EXCEPT !.approval = "PENDING"]
    /\ moved' = TRUE
    /\ Proceed(u, << >>)
    /\ UNCHANGED <<consumed, asks>>

\* The approval that was pending is needed no longer.
DismissApproval(u) ==
    /\ Doing(u, "dismiss")
    /\ project' = [project EXCEPT !.approval = "NOT_REQUIRED"]
    /\ moved' = TRUE
    /\ Proceed(u, <<"write">>)
    /\ UNCHANGED <<consumed, asks>>

\* Mutant: a field the dto leaves out is written too.
Field_Blindly(new, old) == new

\* A field the dto leaves out keeps its value.
Field(new, old) == IF new = Same THEN old ELSE new

\* The update: the fields the dto has.
WriteProject(u) ==
    LET r == asked[u]
        asRead == /\ consumed = r.time /\ project.budget = r.row.budget
                  /\ project.approval = r.row.approval \/ r.row.approval = "PENDING"
    IN
    /\ Doing(u, "write")
    /\ project' = [project EXCEPT !.status = Field(r.dto.status, @), !.budget = Field(r.dto.budget, @)]
    /\ moved' = IF r.dto.status = "COMPLETED" THEN ~asRead \/ r.dto.budget # Same
                ELSE (moved \/ r.dto.budget # Same)
    /\ Proceed(u, << >>)
    /\ UNCHANGED <<consumed, asks>>

\* The approval is given, whatever has been written since it was found pending.
WriteApproval(u) ==
    /\ Doing(u, "approve")
    /\ project' = [project EXCEPT !.approval = "APPROVED"]
    /\ Proceed(u, << >>)
    /\ UNCHANGED <<consumed, moved, asks>>

\* The project is open again, and keeps the approval it has.
WriteReopened(u) ==
    /\ Doing(u, "reopen")
    /\ project' = [project EXCEPT !.status = "IN_PROGRESS"]
    /\ Proceed(u, << >>)
    /\ UNCHANGED <<consumed, moved, asks>>

WriteDeleted(u) ==
    /\ Doing(u, "delete")
    /\ project' = [project EXCEPT !.deleted = TRUE]
    /\ Proceed(u, << >>)
    /\ UNCHANGED <<consumed, moved, asks>>

WriteWork(u) ==
    /\ Doing(u, "work")
    /\ consumed' = asked[u].time
    /\ moved' = TRUE
    /\ asked' = [asked EXCEPT ![u] = NotAsked]
    /\ UNCHANGED <<project, asks>>

\* The database or the process fails between two statements.
AskBreaks(u) ==
    /\ ~Waiting(u)
    /\ asked' = [asked EXCEPT ![u] = NotAsked]
    /\ UNCHANGED <<project, consumed, moved, asks>>

-----------------------------------------------------------------------------
\* createProject takes any status.
ClosingInit ==
    /\ project \in [status: ProjectStatuses, approval: {"NOT_REQUIRED"}, budget: Budgets, deleted: {FALSE}]
    /\ consumed \in 0..MaxConsumed
    /\ asked = [u \in Editors |-> NotAsked]
    /\ moved = TRUE /\ asks = 0

ClosingNext ==
    \/ \E time \in 0..MaxConsumed : WorkOutside(time)
    \/ \E u \in Editors :
        \/ \E dto \in ProjectDto : UpdateProject(u, dto)
        \/ ApproveCompletion(u) \/ ReopenProject(u) \/ DeleteProject(u)
        \/ \E time \in 0..MaxConsumed : WorkInProject(u, time)
        \/ LoadActivities(u) \/ AskForApproval(u) \/ DismissApproval(u) \/ WriteProject(u)
        \/ WriteApproval(u) \/ WriteReopened(u) \/ WriteDeleted(u) \/ WriteWork(u)
        \/ AskBreaks(u)

ClosingSpec == ClosingInit /\ [][ClosingNext]_closingVars

-----------------------------------------------------------------------------
\* A completed project has consumed no more than its budget or has an approval,
\* unless the time, the budget or the approval has changed since the request
\* that completed it read them (assertCanCompleteProject).
CompletionIsCovered ==
    (project.status = "COMPLETED" /\ ~moved)
        => (consumed <= project.budget \/ project.budget = 0 \/ project.approval = "APPROVED")

\* An approval, once given, is taken back only by a completion that had read the
\* project before (approveProjectCompletion against assertCanCompleteProject).
ApprovalIsKept ==
    (project.approval = "APPROVED" /\ project'.approval # "APPROVED")
        => \E u \in Editors : /\ Doing(u, "ask") \/ Doing(u, "dismiss")
                            /\ asked'[u] # asked[u]
                            /\ asked[u].row.approval # "APPROVED"

\* A closed project is opened by an administrator, or by an update that had read
\* it while it was open (assertProjectEditable, reopenProject).
OnlyReopeningOpens ==
    (~Editable /\ Editable')
        => \E u \in Editors : /\ asked'[u] # asked[u]
                            /\ \/ Doing(u, "reopen")
                               \/ Doing(u, "write") /\ asked[u].row.status \notin Locked

\* Neither an approval nor a closing is undone but by somebody entitled to it, or
\* by a request that had begun before.
ClosingIsKept == [][ApprovalIsKept /\ OnlyReopeningOpens]_closingVars
=============================================================================
