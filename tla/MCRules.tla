------------------------------- MODULE MCRules -------------------------------
(* Small instances, side by side, of the calendar of the rules that open      *)
(* tickets, of the runs of these rules, and of one ticket with the rules that *)
(* act on it.  A behaviour is of one of the three: focus says which.          *)
EXTENDS RuleCalendar, AutoOpen, Tickets

CONSTANTS r1, r2, cron, admin, t1, u1, ana

VARIABLE focus

-----------------------------------------------------------------------------
\* The ends of months before and after a leap day, and of a year.
SomeDates ==
    {[y |-> y, m |-> m, d |-> d] : y \in {2023, 2024}, m \in {1, 2, 8, 12}, d \in {5, 6, 28}}
        \cup {[y |-> y, m |-> m, d |-> d] : y \in {2023, 2024}, m \in {1, 8, 12}, d \in 29..31}
        \cup {[y |-> 2024, m |-> 2, d |-> 29]}
AllPeriodicities == {"ONCE", "DAILY_WEEKDAYS"} \cup DOMAIN DaysOf \cup DOMAIN MonthsOf

\* A daily rule of the second half of the day, and one that runs once.
TwoRules == {r1, r2}
DailyAndOnce == [r \in Rules |-> IF r = r1 THEN 1 ELSE 0]
LateAndEarly == [r \in Rules |-> IF r = r1 THEN 1 ELSE 0]
CronAndAdmin == {cron, admin}
Limits == [w \in Runners |-> IF w = cron THEN 1 ELSE 2]

OneTicket == {t1}
OneUser == {u1}
JustAna == {ana}
StageNames == {"Novo", "Aguardando", "Encerrado"}
JustEncerrado == {"Encerrado"}
NotifyAndMove ==
    <<[type |-> "NOTIFY", dto |-> NoDto],
      [type |-> "SET_STAGE", dto |-> [NoDto EXCEPT !.stage = "Aguardando"]]>>
GiveToAna == [NoDto EXCEPT !.responsible = ana]

-----------------------------------------------------------------------------
allVars == <<focus, seriesVars, ruleVars, ticketVars>>

Init ==
    /\ focus \in {"calendar", "rules", "tickets"}
    /\ IF focus = "calendar" THEN SeriesInit
       ELSE /\ firstDate = [y |-> 2023, m |-> 1, d |-> 5] /\ date = firstDate
            /\ periodicity = "ONCE" /\ advances = 0
    /\ RuleInit /\ (focus # "rules" => broken = {})
    /\ TicketInit

Next ==
    \/ focus = "calendar" /\ SeriesNext /\ UNCHANGED <<focus, ruleVars, ticketVars>>
    \/ focus = "rules" /\ RuleNext /\ UNCHANGED <<focus, seriesVars, ticketVars>>
    \/ focus = "tickets" /\ TicketNext /\ UNCHANGED <<focus, seriesVars, ruleVars>>

\* Time passes, the crons of instance 0 run every minute or every five, and
\* what has begun goes on.  Nobody need make a request or run the rules by hand.
Fairness ==
    /\ WF_allVars(focus = "rules" /\ TimePasses /\ UNCHANGED <<focus, seriesVars, ticketVars>>)
    /\ WF_allVars(focus = "rules" /\ StartRun(cron) /\ UNCHANGED <<focus, seriesVars, ticketVars>>)
    /\ \A w \in Runners :
          WF_allVars(focus = "rules" /\ RunStep(w) /\ UNCHANGED <<focus, seriesVars, ticketVars>>)
    /\ WF_allVars(focus = "tickets" /\ MinutePasses /\ UNCHANGED <<focus, seriesVars, ruleVars>>)
    /\ WF_allVars(focus = "tickets" /\ StartJob /\ UNCHANGED <<focus, seriesVars, ruleVars>>)
    /\ WF_allVars(focus = "tickets" /\ JobStep /\ UNCHANGED <<focus, seriesVars, ruleVars>>)
    /\ \A u \in Users :
          WF_allVars(focus = "tickets" /\ CallStep(u) /\ UNCHANGED <<focus, seriesVars, ruleVars>>)

FairSpec == Init /\ [][Next]_allVars /\ Fairness

\* The types of the rows of the rules, of their runs, of the tickets and of the
\* calls and the job that work on them.
TypeOK == RuleTypeOK /\ TicketTypeOK

\* Neither of the two jobs of rules keeps anything waiting: a due rule gets its
\* ticket or a recorded failure, an idle ticket gets its actions.
RulesAreServed == DueIsServed /\ IdleIsServed
=============================================================================
