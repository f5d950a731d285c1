--------------------------- MODULE ProjectProgress ---------------------------
(***************************************************************************)
(* The activities of one phase of a project and the appointments that give *)
(* them their progress, translated from projetos.service.ts and from the   *)
(* three places of tickets-appointments.service.ts that call it.           *)
(*                                                                         *)
(* A link ties an appointment to an activity and copies its minutes.       *)
(* Whoever changes a link reads the activity with its links and writes the *)
(* hours and the progress; then it reads the children of the phase and     *)
(* writes the progress of the phase.  These are separate statements, no    *)
(* transaction holds them together, and a request may end between any two. *)
(***************************************************************************)
EXTENDS Integers, Sequences, FiniteSetsExt

CONSTANTS
    Appointments, Activities,
    Milestones,       \* the activities whose kind is MILESTONE
    Durations,        \* the durationHours a task may be given
    Predecessors,     \* the predecessorIds of every activity
    Lengths,          \* the minutes an appointment may have
    Percents,         \* the progressPercent a person may enter
    Keep,             \* a field the dto leaves out
    Nothing,          \* no link, no activity
    Clients,          \* slots for requests in flight
    MaxRequests,      \* bound: requests
    MaxBroken         \* bound: requests that end half way

VARIABLES
    appointment,   \* portal_ticket_appointments: their minutes
    link,          \* project_activity_appointments, by appointment
    activity,      \* project_activities of kind TASK and MILESTONE
    phase,         \* the project_activities row of the phase
    request,       \* what every request has read and has yet to do
    overtaken,     \* activities written from what no longer held
    skewed,        \* appointments whose link has not their minutes
    phaseOvertaken,
    byHand,        \* activities whose progress or duration a person set last
    made, begun, broken   \* links made, requests begun, requests ended half way

progressVars == <<appointment, link, activity, phase, request,
                  overtaken, skewed, phaseOvertaken, byHand, made, begun, broken>>

-----------------------------------------------------------------------------
\* Math.round of a / b.
Rounded(a, b) == (2 * a + b) \div (2 * b)

Status == {"NOT_STARTED", "IN_PROGRESS", "COMPLETED"}
Hours == 0..(SumSet(Lengths) * Cardinality(Appointments))

Activity == [exists: BOOLEAN, deleted: BOOLEAN, duration: Durations \cup {0},
             hours: Hours, progress: 0..100]
Link == [id: Nat, of: Activities, minutes: Lengths]
Phase == [progress: 0..100, status: Status]

Steps == {"link", "unlink", "findLink", "refresh", "dropLink", "deleteAppointment",
          "readActivity", "writeActivity", "readPhase", "writePhase",
          "predecessors", "update", "markDeleted"}
Dto == [progress: Percents \cup {Keep}, duration: Durations \cup {Keep}]

ASSUME ProgressAssumption ==
    /\ Milestones \subseteq Activities
    /\ Predecessors \in [Activities -> SUBSET Activities]
    /\ Durations \subseteq Nat \ {0} /\ Lengths \subseteq Nat \ {0} /\ Percents \subseteq 0..100
    /\ Nothing \notin Activities \cup Link /\ Keep \notin Percents \cup Durations

Idle == [todo |-> << >>, of |-> Nothing, appt |-> Nothing, minutes |-> 0, linkId |-> 0,
         dto |-> [progress |-> Keep, duration |-> Keep], seen |-> << >>]

Live(a) == activity[a].exists /\ ~activity[a].deleted
LinksOf(a) == {p \in Appointments : link[p] # Nothing /\ link[p].of = a}
MinutesOf(a) ==
    IF LinksOf(a) = {} THEN 0
    ELSE SumFunction([p \in LinksOf(a) |-> link[p].minutes])

\* plannedHours and weight of an activity: the duration of a milestone is 0.
Weight(row) == IF row.duration = 0 THEN 1 ELSE row.duration

\* actualDurationHours: none is 0 here, since it is at least 1 otherwise.
HoursFor(minutes) ==
    IF minutes = 0 THEN 0
    ELSE IF Rounded(minutes, 60) < 1 THEN 1 ELSE Rounded(minutes, 60)

\* Mutant: without Math.min(100, ...).
ProgressFor_Uncapped(row, isMilestone, links, minutes) ==
    IF row.duration > 0 /\ minutes > 0 THEN Rounded(minutes * 100, row.duration * 60)
    ELSE IF minutes > 0 /\ isMilestone THEN 100
    ELSE IF minutes = 0 /\ links = 0 THEN 0
    ELSE row.progress

\* The progress recalculateActivityFromAppointments derives.
ProgressFor(row, isMilestone, links, minutes) ==
    IF row.duration > 0 /\ minutes > 0 THEN
        LET percent == Rounded(minutes * 100, row.duration * 60)
        IN IF percent > 100 THEN 100 ELSE percent
    ELSE IF minutes > 0 /\ isMilestone THEN 100
    ELSE IF minutes = 0 /\ links = 0 THEN 0
    ELSE row.progress

\* What syncPhaseFromChildren derives from the children it has read.
Children == {a \in Activities : Live(a)}
PhaseFor(children, row) ==
    IF children = {} THEN [progress |-> 0, status |-> "NOT_STARTED"]
    ELSE LET total == SumFunction([a \in children |-> Weight(row[a])])
             done == SumFunction([a \in children |-> row[a].progress * Weight(row[a])])
         IN [progress |-> Rounded(done, total),
             status |-> IF \A a \in children : row[a].progress = 100 THEN "COMPLETED"
                        ELSE IF \E a \in children : row[a].progress > 0 THEN "IN_PROGRESS"
                        ELSE "NOT_STARTED"]

\* What recalculateActivityFromAppointments and syncPhaseFromChildren read.
ActivityAsRead(a) == <<activity[a], Cardinality(LinksOf(a)), MinutesOf(a)>>
PhaseAsRead == <<Children, [a \in Children |-> activity[a]]>>

-----------------------------------------------------------------------------
(* The requests, and the steps each has to do.                             *)

SyncPhase == <<"readPhase", "writePhase">>
Recalculate == <<"readActivity", "writeActivity">> \o SyncPhase

Begin(c, r) ==
    /\ request[c] = Idle /\ begun < MaxRequests
    /\ begun' = begun + 1
    /\ request' = [request EXCEPT ![c] = r]

\* A step ends, and the request goes on with what is left of its steps.
GoOn(c, steps) ==
    request' = [request EXCEPT ![c] =
        IF steps = << >> THEN Idle ELSE [request[c] EXCEPT !.todo = steps]]

At(c, step) == request[c].todo # << >> /\ Head(request[c].todo) = step
Rest(c) == Tail(request[c].todo)
HasYetTo(c, step) == \E i \in 1..Len(request[c].todo) : request[c].todo[i] = step

\* linkActivityAppointment: the appointment is read, then linked.
LinkAppointment(c, p, a) ==
    /\ appointment[p] # 0 /\ link[p] = Nothing /\ Live(a)
    /\ Begin(c, [Idle EXCEPT !.todo = <<"link">> \o Recalculate \o SyncPhase,
                             !.of = a, !.appt = p, !.minutes = appointment[p]])
    /\ UNCHANGED <<appointment, link, activity, phase, overtaken, skewed, phaseOvertaken,
                   byHand, made, broken>>

\* createTicketAppointment with a projectActivityId: a new appointment, and its link.
CreateAppointment(c, p, a, minutes) ==
    /\ appointment[p] = 0 /\ Live(a)
    /\ \A d \in Clients : request[d].appt # p
    /\ appointment' = [appointment EXCEPT ![p] = minutes]
    /\ Begin(c, [Idle EXCEPT !.todo = <<"link">> \o Recalculate,
                             !.of = a, !.appt = p, !.minutes = minutes])
    /\ UNCHANGED <<link, activity, phase, overtaken, skewed, phaseOvertaken, byHand, made, broken>>

\* updateTicketAppointment: the row is written, then its link is refreshed.
EditAppointment(c, p, minutes) ==
    /\ appointment[p] # 0
    /\ appointment' = [appointment EXCEPT ![p] = minutes]
    /\ Begin(c, [Idle EXCEPT !.todo = <<"findLink", "refresh">> \o Recalculate,
                             !.appt = p, !.minutes = minutes])
    /\ UNCHANGED <<link, activity, phase, overtaken, skewed, phaseOvertaken, byHand, made, broken>>

\* Mutant: the link is left to the cascade.
RemoveAppointment_RowOnly(c, p) ==
    /\ appointment[p] # 0
    /\ Begin(c, [Idle EXCEPT !.todo = <<"deleteAppointment">>, !.appt = p])
    /\ UNCHANGED <<appointment, link, activity, phase, overtaken, skewed, phaseOvertaken,
                   byHand, made, broken>>

\* deleteTicketAppointment: the link goes first, the row last.
RemoveAppointment(c, p) ==
    /\ appointment[p] # 0
    /\ Begin(c, [Idle EXCEPT !.todo = <<"findLink", "dropLink">> \o Recalculate
                                          \o <<"deleteAppointment">>,
                             !.appt = p])
    /\ UNCHANGED <<appointment, link, activity, phase, overtaken, skewed, phaseOvertaken,
                   byHand, made, broken>>

\* unlinkActivityAppointment.
UnlinkAppointment(c, p) ==
    /\ link[p] # Nothing /\ Live(link[p].of)
    /\ Begin(c, [Idle EXCEPT !.todo = <<"unlink">> \o Recalculate \o SyncPhase,
                             !.of = link[p].of, !.appt = p, !.linkId = link[p].id])
    /\ UNCHANGED <<appointment, link, activity, phase, overtaken, skewed, phaseOvertaken,
                   byHand, made, broken>>

\* createActivity.
CreateActivity(c, a, duration, progress) ==
    /\ ~activity[a].exists
    /\ activity' = [activity EXCEPT ![a] =
          [exists |-> TRUE, deleted |-> FALSE, hours |-> 0, progress |-> progress,
           duration |-> IF a \in Milestones THEN 0 ELSE duration]]
    /\ Begin(c, [Idle EXCEPT !.todo = SyncPhase, !.of = a])
    /\ byHand' = IF progress = 0 THEN byHand ELSE byHand \cup {a}
    /\ UNCHANGED <<appointment, link, phase, overtaken, skewed, phaseOvertaken, made, broken>>

\* updateActivity, and completeActivity with a progress of 100 or 0.  Whoever
\* starts an activity first looks whether its predecessors are completed.
UpdateActivity(c, a, dto) ==
    /\ Live(a)
    /\ LET progress == IF dto.progress = Keep THEN activity[a].progress ELSE dto.progress
           starts == progress > 0 /\ activity[a].progress = 0
       IN Begin(c, [Idle EXCEPT !.todo = (IF starts THEN <<"predecessors">> ELSE << >>)
                                            \o <<"update">> \o SyncPhase,
                                !.of = a, !.dto = dto, !.seen = <<activity[a]>>])
    /\ UNCHANGED <<appointment, link, activity, phase, overtaken, skewed, phaseOvertaken,
                   byHand, made, broken>>

\* deleteActivity of an activity that is no phase.
DeleteActivity(c, a) ==
    /\ Live(a)
    /\ Begin(c, [Idle EXCEPT !.todo = <<"markDeleted">> \o SyncPhase, !.of = a])
    /\ UNCHANGED <<appointment, link, activity, phase, overtaken, skewed, phaseOvertaken,
                   byHand, made, broken>>

-----------------------------------------------------------------------------
(* The steps.                                                              *)

\* The link is inserted, unless the appointment has one by now or is gone.
MakeLink(c) ==
    LET r == request[c] IN
    /\ At(c, "link")
    /\ IF link[r.appt] # Nothing \/ appointment[r.appt] = 0
       THEN /\ GoOn(c, << >>)
            /\ UNCHANGED <<link, made, skewed>>
       ELSE /\ made' = made + 1
            /\ link' = [link EXCEPT ![r.appt] = [id |-> made', of |-> r.of, minutes |-> r.minutes]]
            /\ skewed' = IF r.minutes = appointment[r.appt] THEN skewed \ {r.appt}
                         ELSE skewed \cup {r.appt}
            /\ GoOn(c, Rest(c))
    /\ UNCHANGED <<appointment, activity, phase, overtaken, phaseOvertaken, byHand, begun, broken>>

\* The delete of unlinkActivityAppointment and of handlePortalAppointmentDeleted
\* throws when the row it has read is gone.
DropLink(c) ==
    LET r == request[c]
        there == link[r.appt] # Nothing /\ link[r.appt].id = r.linkId
    IN
    /\ At(c, "unlink") \/ At(c, "dropLink")
    /\ link' = IF there THEN [link EXCEPT ![r.appt] = Nothing] ELSE link
    /\ GoOn(c, IF there THEN Rest(c) ELSE << >>)
    /\ UNCHANGED <<appointment, activity, phase, overtaken, skewed, phaseOvertaken, byHand,
                   made, begun, broken>>

\* The link of an appointment is looked up; without one, nothing is refreshed
\* or recalculated, and a delete goes on with the row of the appointment.
FindLink(c) ==
    LET r == request[c] IN
    /\ At(c, "findLink")
    /\ request' = [request EXCEPT ![c] =
          IF link[r.appt] # Nothing
          THEN [r EXCEPT !.todo = Rest(c), !.of = link[r.appt].of, !.linkId = link[r.appt].id]
          ELSE IF HasYetTo(c, "deleteAppointment")
          THEN [r EXCEPT !.todo = <<"deleteAppointment">>, !.linkId = made]
          ELSE Idle]
    /\ UNCHANGED <<appointment, link, activity, phase, overtaken, skewed, phaseOvertaken, byHand,
                   made, begun, broken>>

\* refreshPortalAppointmentLink writes the minutes it was called with.
RefreshLink(c) ==
    LET r == request[c]
        there == link[r.appt] # Nothing /\ link[r.appt].id = r.linkId
    IN
    /\ At(c, "refresh")
    /\ link' = IF there THEN [link EXCEPT ![r.appt].minutes = r.minutes] ELSE link
    /\ skewed' = IF ~there THEN skewed
                 ELSE IF r.minutes = appointment[r.appt] THEN skewed \ {r.appt}
                 ELSE skewed \cup {r.appt}
    /\ GoOn(c, IF there THEN Rest(c) ELSE << >>)
    /\ UNCHANGED <<appointment, activity, phase, overtaken, phaseOvertaken, byHand, made, begun, broken>>

\* The row of the appointment goes, and a link made since the look goes with it
\* (onDelete: Cascade): nobody recalculates its activity.
DeleteAppointmentRow(c) ==
    LET p == request[c].appt
        newer == link[p] # Nothing /\ link[p].id > request[c].linkId
    IN
    /\ At(c, "deleteAppointment")
    /\ appointment' = [appointment EXCEPT ![p] = 0]
    /\ link' = [link EXCEPT ![p] = Nothing]
    /\ overtaken' = IF newer THEN overtaken \cup {link[p].of} ELSE overtaken
    /\ skewed' = skewed \ {p}
    /\ GoOn(c, Rest(c))
    /\ UNCHANGED <<activity, phase, phaseOvertaken, byHand, made, begun, broken>>

\* recalculateActivityFromAppointments, its read: of a deleted activity, nothing.
ReadActivity(c) ==
    LET a == request[c].of IN
    /\ At(c, "readActivity")
    /\ IF Live(a)
       THEN request' = [request EXCEPT ![c] =
                [request[c] EXCEPT !.todo = Rest(c), !.seen = ActivityAsRead(a)]]
       ELSE GoOn(c, SubSeq(Rest(c), 4, Len(Rest(c))))
    /\ UNCHANGED <<appointment, link, activity, phase, overtaken, skewed, phaseOvertaken, byHand,
                   made, begun, broken>>

\* Its write: the hours and the progress of what it has read.
Recalculated(a, seen) ==
    [activity[a] EXCEPT !.hours = HoursFor(seen[3]),
                        !.progress = ProgressFor(seen[1], a \in Milestones, seen[2], seen[3])]

WriteActivity(c) ==
    LET r == request[c] IN
    /\ At(c, "writeActivity")
    /\ activity' = [activity EXCEPT ![r.of] = Recalculated(r.of, r.seen)]
    /\ overtaken' = IF activity'[r.of] = Recalculated(r.of, ActivityAsRead(r.of))
                    THEN overtaken \ {r.of} ELSE overtaken \cup {r.of}
    /\ byHand' = byHand \ {r.of}
    /\ GoOn(c, Rest(c))
    /\ UNCHANGED <<appointment, link, phase, skewed, phaseOvertaken, made, begun, broken>>

\* syncPhaseFromChildren, its read and its write.
ReadPhase(c) ==
    /\ At(c, "readPhase")
    /\ request' = [request EXCEPT ![c] =
          [request[c] EXCEPT !.todo = Rest(c), !.seen = PhaseAsRead]]
    /\ UNCHANGED <<appointment, link, activity, phase, overtaken, skewed, phaseOvertaken, byHand,
                   made, begun, broken>>

WritePhase(c) ==
    LET seen == request[c].seen IN
    /\ At(c, "writePhase")
    /\ phase' = PhaseFor(seen[1], seen[2])
    /\ phaseOvertaken' = (phase' # PhaseFor(Children, activity))
    /\ GoOn(c, Rest(c))
    /\ UNCHANGED <<appointment, link, activity, overtaken, skewed, byHand, made, begun, broken>>

\* assertPredecessorsCompleted: a deleted predecessor does not count.
CheckPredecessors(c) ==
    LET r == request[c] IN
    /\ At(c, "predecessors")
    /\ GoOn(c, IF \A q \in Predecessors[r.of] : Live(q) => activity[q].progress = 100
               THEN Rest(c) ELSE << >>)
    /\ UNCHANGED <<appointment, link, activity, phase, overtaken, skewed, phaseOvertaken, byHand,
                   made, begun, broken>>

\* updateActivity, its write: a progress the dto leaves out is the one that was
\* read, whatever has been written since, and no duration recalculates it.
WriteUpdate(c) ==
    LET r == request[c]
        row == r.seen[1]
        progress == IF r.dto.progress = Keep THEN row.progress ELSE r.dto.progress
        duration == IF r.of \in Milestones THEN 0
                    ELSE IF r.dto.duration = Keep THEN row.duration ELSE r.dto.duration
    IN
    /\ At(c, "update")
    /\ activity' = [activity EXCEPT ![r.of].progress = progress, ![r.of].duration = duration]
    /\ byHand' = IF r.dto.progress # Keep \/ duration # activity[r.of].duration
                 THEN byHand \cup {r.of} ELSE byHand
    /\ overtaken' = IF r.dto.progress = Keep /\ progress # activity[r.of].progress
                    THEN overtaken \cup {r.of} ELSE overtaken
    /\ GoOn(c, Rest(c))
    /\ UNCHANGED <<appointment, link, phase, skewed, phaseOvertaken, made, begun, broken>>

MarkDeleted(c) ==
    /\ At(c, "markDeleted")
    /\ activity' = [activity EXCEPT ![request[c].of].deleted = TRUE]
    /\ GoOn(c, Rest(c))
    /\ UNCHANGED <<appointment, link, phase, overtaken, skewed, phaseOvertaken, byHand,
                   made, begun, broken>>

RequestStep(c) ==
    \/ MakeLink(c) \/ DropLink(c) \/ FindLink(c) \/ RefreshLink(c) \/ DeleteAppointmentRow(c)
    \/ ReadActivity(c) \/ WriteActivity(c) \/ ReadPhase(c) \/ WritePhase(c)
    \/ CheckPredecessors(c) \/ WriteUpdate(c) \/ MarkDeleted(c)

\* The database or the process fails between two statements.
RequestBreaks(c) ==
    LET r == request[c] IN
    /\ r # Idle /\ broken < MaxBroken
    /\ broken' = broken + 1
    /\ overtaken' = IF HasYetTo(c, "writeActivity") THEN overtaken \cup ({r.of} \ {Nothing})
                    ELSE overtaken
    /\ skewed' = IF HasYetTo(c, "refresh") THEN skewed \cup {r.appt} ELSE skewed
    /\ phaseOvertaken' = (phaseOvertaken \/ HasYetTo(c, "writePhase"))
    /\ GoOn(c, << >>)
    /\ UNCHANGED <<appointment, link, activity, phase, byHand, made, begun>>

-----------------------------------------------------------------------------
\* Some appointments are linked, and all agree with them.
ProgressInit ==
    /\ appointment \in [Appointments -> {0} \cup Lengths]
    /\ \E present \in SUBSET Activities :
       \E of \in [Appointments -> present \cup {Nothing}] :
        /\ \A p \in Appointments : of[p] # Nothing => appointment[p] # 0
        /\ link = [p \in Appointments |->
              IF of[p] = Nothing THEN Nothing
              ELSE [id |-> 0, of |-> of[p], minutes |-> appointment[p]]]
        /\ activity = [a \in Activities |->
              LET row == [exists |-> a \in present, deleted |-> FALSE, hours |-> 0, progress |-> 0,
                          duration |-> IF a \in present \ Milestones
                                       THEN CHOOSE d \in Durations : TRUE ELSE 0]
              IN [row EXCEPT !.hours = HoursFor(MinutesOf(a)),
                             !.progress = ProgressFor(row, a \in Milestones,
                                                      Cardinality(LinksOf(a)), MinutesOf(a))]]
    /\ phase = PhaseFor(Children, activity)
    /\ request = [c \in Clients |-> Idle]
    /\ overtaken = {} /\ skewed = {} /\ phaseOvertaken = FALSE /\ byHand = {}
    /\ made = 0 /\ begun = 0 /\ broken = 0

ProgressNext ==
    \E c \in Clients :
        \/ RequestStep(c)
        \/ RequestBreaks(c)
        \/ \E p \in Appointments : RemoveAppointment(c, p) \/ UnlinkAppointment(c, p)
        \/ \E p \in Appointments, m \in Lengths : EditAppointment(c, p, m)
        \/ \E p \in Appointments, a \in Activities : LinkAppointment(c, p, a)
        \/ \E p \in Appointments, a \in Activities, m \in Lengths : CreateAppointment(c, p, a, m)
        \/ \E a \in Activities : DeleteActivity(c, a)
        \/ \E a \in Activities, dto \in Dto : UpdateActivity(c, a, dto)
        \/ \E a \in Activities, d \in Durations, n \in Percents \cup {0} : CreateActivity(c, a, d, n)

ProgressSpec == ProgressInit /\ [][ProgressNext]_progressVars

-----------------------------------------------------------------------------
\* The types of the rows and of the requests in flight.
ProgressTypeOK ==
    /\ appointment \in [Appointments -> {0} \cup Lengths]
    /\ \A p \in Appointments : link[p] # Nothing => link[p] \in Link
    /\ activity \in [Activities -> Activity]
    /\ phase \in Phase
    /\ \A c \in Clients : /\ request[c].todo \in Seq(Steps)
                          /\ request[c].of \in Activities \cup {Nothing}
    /\ overtaken \subseteq Activities /\ byHand \subseteq Activities
    /\ skewed \subseteq Appointments /\ phaseOvertaken \in BOOLEAN

\* The hours of an activity are those of the appointments linked to it, and so
\* is its progress unless a person set it or the duration after them, ...
TotalsAreCurrent ==
    \A a \in Activities :
        (Live(a) /\ a \notin overtaken
             /\ \A c \in Clients : request[c].of = a => ~HasYetTo(c, "writeActivity"))
        => /\ activity[a].hours = HoursFor(MinutesOf(a))
           /\ a \notin byHand =>
                activity[a].progress =
                    ProgressFor(activity[a], a \in Milestones, Cardinality(LinksOf(a)), MinutesOf(a))

\* ... a link has the minutes of its appointment, ...
LinksAreCurrent ==
    \A p \in Appointments :
        (link[p] # Nothing /\ p \notin skewed
             /\ \A c \in Clients : request[c].appt = p => ~HasYetTo(c, "refresh"))
        => link[p].minutes = appointment[p]

\* ... and the phase has the progress of its children.
PhaseIsCurrent ==
    (~phaseOvertaken /\ \A c \in Clients : ~HasYetTo(c, "writePhase"))
        => phase = PhaseFor(Children, activity)

\* Once nothing is in flight, the links, the activities and the phase agree
\* with the appointments, after any interleaving of the requests that change
\* them, unless one of them broke off or wrote what another had overtaken
\* (recalculateActivityFromAppointments, syncPhaseFromChildren).
ProgressIsCurrent == TotalsAreCurrent /\ LinksAreCurrent /\ PhaseIsCurrent
=============================================================================
