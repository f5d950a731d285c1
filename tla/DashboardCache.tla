---------------------------- MODULE DashboardCache ----------------------------
(***************************************************************************)
(* The caches of the dashboard, translated from dashboard.service.ts,      *)
(* dashboard-hours.service.ts, ttl-lru-cache.ts and redis.service.ts.      *)
(*                                                                         *)
(* An answer of /dashboard/complete contains one of /dashboard/hours; each *)
(* is kept in the memory of the process that built it and, if Redis is on, *)
(* in Redis for the other processes, and a build under way is shared by    *)
(* those who ask meanwhile.  A forced refresh clears all of it first.      *)
(*                                                                         *)
(* Time is kept as ages: a value is the age of the data of each part of an *)
(* answer, an entry has some time left.  The keys are those of one company *)
(* and period, with the hours in the answer; the entries of other keys     *)
(* only evict them.  Redis runs the commands of a process in their order,  *)
(* so a command takes effect where it is issued; it may also fail.         *)
(***************************************************************************)
EXTENDS Integers, FiniteSets

CONSTANTS
    Processes,        \* instances of the API
    Requests,         \* slots for requests in flight
    CompleteTtl,      \* dashboardCacheTtlMs
    PeriodTtl,        \* resolveCompleteCacheTtlMs of the period
    HoursTtl,         \* hoursCacheTtlMs
    MaxBuild,         \* bound: how long a request takes
    MaxEvents,        \* bound: requests, failures and evictions together
    Absent

\* The ages of the parts of an answer, or of what is there of it.
ValuesOf(layer) == IF layer = "hours" THEN [{"hours"} -> Nat] ELSE [{"tickets", "hours"} -> Nat]
Values == [{"tickets"} -> Nat] \cup ValuesOf("hours") \cup ValuesOf("complete")

ASSUME CacheAssumption ==
    /\ {CompleteTtl, PeriodTtl, HoursTtl} \subseteq Nat \ {0}
    /\ {MaxBuild, MaxEvents} \subseteq Nat
    /\ Absent \notin Requests \cup Nat \cup Values \cup [value: Values, left: Nat]

VARIABLES
    useRedis,     \* REDIS_URL is set and the two caches are switched on
    memory,       \* responseCache and hoursCache of every process
    redis,
    building,     \* inFlightRequests, inFlightHoursRequests: who builds
    load,         \* the requests in flight
    events        \* requests, failures and evictions so far

cacheVars == <<useRedis, memory, redis, building, load, events>>

-----------------------------------------------------------------------------
Layers == {"complete", "hours"}

\* The time a new entry has: written with the value that was built, or with
\* what was found in Redis, without a ttl of its own.
BuiltTtl(layer) == IF layer = "hours" THEN HoursTtl ELSE PeriodTtl
DefaultTtl(layer) == IF layer = "hours" THEN HoursTtl ELSE CompleteTtl
Entry(value, ttl) == [value |-> value, left |-> ttl]

Idle == [pc |-> "idle"]

\* A request before it looks into the cache of its first layer.
Looks(kind, p) ==
    [pc |-> "look", kind |-> kind, at |-> p, layer |-> IF kind = "hours" THEN "hours" ELSE "complete",
     builds |-> {}, value |-> Absent, got |-> Absent, of |-> Absent, age |-> 0,
     cleared |-> Absent, excused |-> FALSE]

\* A request that has the value of the layer it was loading: the hours become
\* part of the answer that is being built, or the value is the answer.
Loaded(q, value) ==
    IF q.layer = "hours" /\ q.kind # "hours"
    THEN [q EXCEPT !.pc = "store", !.layer = "complete", !.got = Absent, !.of = Absent,
                   !.value = [tickets |-> q.value.tickets, hours |-> value.hours]]
    ELSE [q EXCEPT !.pc = "answered", !.value = value, !.got = Absent, !.of = Absent]

\* Ghost: some part of a value is from before q cleared the caches.
IsOlder(value, q) == \E part \in DOMAIN value : value[part] > q.cleared

\* Ghost: a refresh whose caches a request r has filled with an older value
\* since it cleared them, other than by the build the refresh waits for.
Excused(x, r, value, caches) ==
    LET q == load[x] IN
    IF x # r /\ q.pc \notin {"idle", "clear"} /\ q.cleared # Absent /\ IsOlder(value, q)
       /\ ~(q.pc = "wait" /\ q.of = r) /\ (caches = "all" \/ caches = q.at)
    THEN [q EXCEPT !.excused = TRUE] ELSE q

-----------------------------------------------------------------------------
Counts(n) == events + n <= MaxEvents /\ events' = events + n

CacheInit ==
    /\ useRedis \in BOOLEAN
    /\ memory = [p \in Processes |-> [l \in Layers |-> Absent]]
    /\ redis = [l \in Layers |-> Absent]
    /\ building = [p \in Processes |-> [l \in Layers |-> Absent]]
    /\ load = [r \in Requests |-> Idle]
    /\ events = 0

Begin(r, kind, p) ==
    /\ load[r].pc = "idle" /\ Counts(1)
    /\ load' = [load EXCEPT ![r] = IF kind = "refresh" THEN [Looks(kind, p) EXCEPT !.pc = "clear"]
                                   ELSE Looks(kind, p)]
    /\ UNCHANGED <<useRedis, memory, redis, building>>

\* Builds under way are not joined any more (invalidateCache).
ForgetBuilds_KeepsThem(p) == building
ForgetBuilds(p) == [building EXCEPT ![p] = [l \in Layers |-> Absent]]

\* refreshCompleteDashboard clears both layers; a DEL that fails is ignored.
Clear(r) ==
    LET p == load[r].at IN
    /\ load[r].pc = "clear"
    /\ memory' = [memory EXCEPT ![p] = [l \in Layers |-> Absent]]
    /\ building' = ForgetBuilds(p)
    /\ \E lost \in SUBSET {l \in Layers : redis[l] # Absent} :
          /\ Counts(Cardinality(lost))
          /\ redis' = [l \in Layers |-> IF l \in lost THEN redis[l] ELSE Absent]
          /\ load' = [load EXCEPT ![r].pc = "look", ![r].cleared = 0, ![r].excused = lost # {}]
    /\ UNCHANGED useRedis

\* getCachedResponseAsync: memory, else Redis is asked; a GET may fail.
Look(r) ==
    LET q == load[r]
        entry == memory[q.at][q.layer]
    IN
    /\ q.pc = "look"
    /\ IF entry # Absent
       THEN load' = [load EXCEPT ![r] = Loaded(q, entry.value)] /\ Counts(0)
       ELSE \E found \in {Absent, redis[q.layer]} :
               load' = [load EXCEPT ![r].pc = "take",
                                    ![r].got = IF found = Absent THEN Absent ELSE found.value]
               /\ Counts(IF found = redis[q.layer] THEN 0 ELSE 1)
    /\ UNCHANGED <<useRedis, memory, redis, building>>

\* ... and what Redis had is put into memory; else the request joins the build
\* under way or begins one.
Take(r) ==
    LET q == load[r] IN
    /\ q.pc = "take"
    /\ \/ /\ q.got # Absent
          /\ memory' = [memory EXCEPT ![q.at][q.layer] = Entry(q.got, DefaultTtl(q.layer))]
          /\ load' = [x \in Requests |-> IF x = r THEN Loaded(q, q.got) ELSE Excused(x, r, q.got, q.at)]
          /\ UNCHANGED building
       \/ /\ q.got = Absent /\ building[q.at][q.layer] # Absent
          /\ load' = [load EXCEPT ![r].pc = "wait", ![r].of = building[q.at][q.layer]]
          /\ UNCHANGED <<memory, building>>
       \/ /\ q.got = Absent /\ building[q.at][q.layer] = Absent
          /\ building' = [building EXCEPT ![q.at][q.layer] = r]
          /\ load' = [load EXCEPT ![r].pc = "build", ![r].builds = @ \cup {q.layer}]
          /\ UNCHANGED memory
    /\ UNCHANGED <<useRedis, redis, events>>

\* buildCompleteDashboard reads its own data and asks for the hours.
ReadTickets(r) ==
    /\ load[r].pc = "build" /\ load[r].layer = "complete"
    /\ load' = [load EXCEPT ![r].pc = "look", ![r].layer = "hours", ![r].value = [tickets |-> 0]]
    /\ UNCHANGED <<useRedis, memory, redis, building, events>>

\* buildDashboardHours.
ReadHours(r) ==
    /\ load[r].pc = "build" /\ load[r].layer = "hours"
    /\ load' = [load EXCEPT ![r].pc = "store", ![r].got = [hours |-> 0]]
    /\ UNCHANGED <<useRedis, memory, redis, building, events>>

\* setCachedResponse and the finally: whoever waits has the value too.  A SET
\* may fail, and the entry of the build is removed whosever it is.
Store(r) ==
    LET q == load[r]
        value == IF q.layer = "hours" THEN q.got ELSE q.value
    IN
    /\ q.pc = "store"
    /\ memory' = [memory EXCEPT ![q.at][q.layer] = Entry(value, BuiltTtl(q.layer))]
    /\ \/ useRedis /\ redis' = [redis EXCEPT ![q.layer] = Entry(value, BuiltTtl(q.layer))] /\ Counts(0)
       \/ redis' = redis /\ Counts(IF useRedis THEN 1 ELSE 0)
    /\ building' = [building EXCEPT ![q.at][q.layer] = Absent]
    /\ load' = [x \in Requests |->
          IF x = r THEN Loaded([q EXCEPT !.builds = @ \ {q.layer}], value)
          ELSE IF load[x].pc = "wait" /\ load[x].of = r /\ load[x].layer = q.layer
               THEN Loaded(load[x], value)
               ELSE Excused(x, r, value, IF useRedis THEN "all" ELSE q.at)]
    /\ UNCHANGED useRedis

\* A build throws, and with it every request that waits for it.
Fail(r) ==
    LET q == load[r] IN
    /\ q.pc \in {"build", "rejected"} /\ Counts(IF q.pc = "build" THEN 1 ELSE 0)
    /\ building' = [building EXCEPT ![q.at] =
                       [l \in Layers |-> IF l \in q.builds THEN Absent ELSE building[q.at][l]]]
    /\ load' = [x \in Requests |->
          IF x = r THEN Idle
          ELSE IF load[x].pc = "wait" /\ load[x].of = r THEN [load[x] EXCEPT !.pc = "rejected"]
          ELSE load[x]]
    /\ UNCHANGED <<useRedis, memory, redis>>

Release(r) ==
    /\ load[r].pc = "answered"
    /\ load' = [load EXCEPT ![r] = Idle]
    /\ UNCHANGED <<useRedis, memory, redis, building, events>>

\* TtlLruCache makes room for other companies and periods.
Evict(p, l) ==
    /\ memory[p][l] # Absent /\ Counts(1)
    /\ memory' = [memory EXCEPT ![p][l] = Absent]
    /\ UNCHANGED <<useRedis, redis, building, load>>

-----------------------------------------------------------------------------
Older(value) == IF value = Absent THEN Absent ELSE [part \in DOMAIN value |-> value[part] + 1]

\* An entry is not found any more when its time has come.
OlderEntry(entry) ==
    IF entry = Absent \/ entry.left = 1 THEN Absent
    ELSE Entry(Older(entry.value), entry.left - 1)

OlderLoad(q) ==
    IF q.pc = "idle" THEN q
    ELSE [q EXCEPT !.age = @ + 1, !.value = Older(@), !.got = Older(@),
                   !.cleared = IF @ = Absent THEN @ ELSE @ + 1]

TimePasses ==
    /\ \A r \in Requests : load[r].pc # "idle" => load[r].pc # "answered" /\ load[r].age < MaxBuild
    /\ memory' = [p \in Processes |-> [l \in Layers |-> OlderEntry(memory[p][l])]]
    /\ redis' = [l \in Layers |-> OlderEntry(redis[l])]
    /\ load' = [r \in Requests |-> OlderLoad(load[r])]
    /\ UNCHANGED <<useRedis, building, events>>

CacheNext ==
    \/ TimePasses
    \/ \E r \in Requests :
          \/ \E kind \in {"complete", "hours", "refresh"}, p \in Processes : Begin(r, kind, p)
          \/ Clear(r) \/ Look(r) \/ Take(r) \/ ReadTickets(r) \/ ReadHours(r)
          \/ Store(r) \/ Fail(r) \/ Release(r)
    \/ \E p \in Processes, l \in Layers : Evict(p, l)

CacheSpec == CacheInit /\ [][CacheNext]_cacheVars

-----------------------------------------------------------------------------
Ages == 0..(4 * MaxBuild + PeriodTtl + CompleteTtl + 2 * HoursTtl)

CacheTypeOK ==
    LET values(l) == [IF l = "hours" THEN {"hours"} ELSE {"tickets", "hours"} -> Ages]
        entries(l) == {Absent} \cup [value: values(l), left: 1..(PeriodTtl + CompleteTtl + HoursTtl)]
    IN
    /\ useRedis \in BOOLEAN /\ events \in 0..MaxEvents
    /\ \A l \in Layers : redis[l] \in entries(l) /\ (redis[l] # Absent => useRedis)
    /\ \A p \in Processes, l \in Layers :
          memory[p][l] \in entries(l) /\ building[p][l] \in Requests \cup {Absent}
    /\ \A r \in Requests :
          \/ load[r] = Idle
          \/ /\ load[r].pc \in {"clear", "look", "take", "build", "wait", "store", "answered", "rejected"}
             /\ load[r].kind \in Layers \cup {"refresh"} /\ load[r].age \in 0..MaxBuild
             /\ load[r].layer \in Layers /\ load[r].builds \subseteq Layers
             /\ load[r].pc = "wait" => load[r].of \in Requests \ {r}
             /\ load[r].pc = "answered" => load[r].value \in values(load[r].layer)

IsAnswered(r) == load[r].pc = "answered"

\* The time of a build, the time in Redis, the time from there to the memory of
\* another process, and the time there.
OldestHours == 2 * MaxBuild + (HoursTtl - 1) + (DefaultTtl("hours") - 1)
OldestTickets == 2 * MaxBuild + (PeriodTtl - 1) + (DefaultTtl("complete") - 1)

\* No answer is older than the four caches on its way allow, whoever filled
\* them from which other (setCachedResponse, getCachedHoursResponseAsync).
AgesAreBounded ==
    \A r \in Requests : IsAnswered(r) =>
        LET value == load[r].value IN
        IF load[r].kind = "hours" THEN value.hours <= OldestHours
        ELSE value.tickets <= OldestTickets /\ value.hours <= OldestHours + OldestTickets

\* The answer of a forced refresh is from after the refresh cleared the caches
\* (docs/PERFORMANCE.md:13), whatever builds were under way in its process or
\* another, unless since then somebody put something older into the memory of
\* its process or into Redis, or a DEL was lost (invalidateCache).
RefreshIsFresh ==
    \A r \in Requests : IsAnswered(r) /\ load[r].kind = "refresh" /\ ~load[r].excused =>
        ~IsOlder(load[r].value, load[r])

\* Nobody is shown data of the dashboard that is older than its caches may make
\* it, nor than a refresh he asked for.
AnswersAreFresh == AgesAreBounded /\ RefreshIsFresh
=============================================================================
