-------------------------- MODULE MCNumbersAndCaches --------------------------
(* Small instances, side by side, of the numbers of the tickets and of the    *)
(* caches of the dashboard.  A behaviour is of one of the two: focus says     *)
(* which.                                                                     *)
EXTENDS MCTicketNumbers, DashboardCache

CONSTANTS i1, i2, q1, q2

VARIABLE focus

TwoProcesses == {i1, i2}
TwoLoads == {q1, q2}

\* Nothing tells two openings, two processes or two requests of the dashboard
\* apart.
Interchangeable ==
    Symmetry \cup Permutations(TwoProcesses) \cup Permutations(TwoLoads)

-----------------------------------------------------------------------------
allVars == <<focus, vars, cacheVars>>

InitBoth ==
    /\ focus \in {"numbers", "cache"}
    /\ Init /\ (focus # "numbers" => Taken = {} /\ seq.called = FALSE /\ seq.last = 1)
    /\ CacheInit /\ (focus # "cache" => ~useRedis)

NextOfOne ==
    \/ focus = "numbers" /\ Next /\ UNCHANGED <<focus, cacheVars>>
    \/ focus = "cache" /\ CacheNext /\ UNCHANGED <<focus, vars>>

SpecBoth == InitBoth /\ [][NextOfOne]_allVars

\* The types of the table, the sequence and the openings, and those of the
\* caches and of the requests of the dashboard.
TypesOK == TypeOK /\ CacheTypeOK
=============================================================================
