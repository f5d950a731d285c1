--------------------------- MODULE MCGmudAndProjects ---------------------------
(* Small instances, side by side, of a GMUD, of the predecessors of a project *)
(* and of the life of a project.  A behaviour is of one of the three: focus   *)
(* says which.                                                                *)
EXTENDS MCGmud, ProjectPlan, ProjectClosing

CONSTANTS t1, t2, t3

VARIABLE focus

-----------------------------------------------------------------------------
OpenAndClosed == {"IN_PROGRESS", "COMPLETED", "CANCELED"}
ThreeTasks == {t1, t2, t3}

\* The activities are in this order at first, which spares a symmetry of them.
Rank == [t \in ThreeTasks |-> IF t = t1 THEN 1 ELSE IF t = t2 THEN 2 ELSE 3]

allVars == <<focus, vars, planVars, closingVars>>

InitOfOne ==
    /\ focus \in {"gmud", "plan", "closing"}
    /\ Init
    /\ PlanInit
    /\ \A t \in Tasks : task[t].code \in {0, Rank[t]}
    /\ focus # "plan" => \A t \in Tasks : ~task[t].there
    /\ ClosingInit /\ (focus # "closing" => /\ consumed = 0 /\ project.budget = 0
                                            /\ project.status = "IN_PROGRESS")

NextOfOne ==
    \/ focus = "gmud" /\ Next /\ UNCHANGED <<focus, planVars, closingVars>>
    \/ focus = "plan" /\ PlanNext /\ UNCHANGED <<focus, vars, closingVars>>
    \/ focus = "closing" /\ ClosingNext /\ UNCHANGED <<focus, vars, planVars>>

SpecOfOne == InitOfOne /\ [][NextOfOne]_allVars

\* The types of the GMUD, of the activities, of the project and of the requests
\* in flight.
TypesOK == TypeOK /\ PlanTypeOK /\ ClosingTypeOK
=============================================================================
