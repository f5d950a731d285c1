----------------------------- MODULE TifluxClient -----------------------------
(***************************************************************************)
(* The requests one process sends to TiFlux, translated from               *)
(* tiflux.service.ts (runExclusive, waitForThrottle, request and its twin  *)
(* requestWithMeta).                                                       *)
(*                                                                         *)
(* Each call waits for the release of the one before it; inside, it keeps  *)
(* its distance to the last answer, obeys the pause TiFlux asked for, and  *)
(* tries again after a timeout, a 429 or a 5xx.  The clock of a timeout    *)
(* starts before the wait for the pause.  Time is discrete, and timers may *)
(* be late.                                                                *)
(***************************************************************************)
EXTENDS Naturals

CONSTANTS
    MaxCalls,     \* bound: calls
    MaxRetries,   \* TIFLUX_MAX_RETRIES, at least 2
    Interval,     \* TIFLUX_MIN_REQUEST_INTERVAL_MS
    Timeout,      \* TIFLUX_TIMEOUT_MS
    Pauses,       \* what getRetryDelayMs may return for a 429, never 0
    MaxPause      \* its limit

ASSUME ClientAssumption ==
    /\ MaxCalls \in Nat /\ MaxRetries \in Nat /\ MaxRetries >= 2
    /\ Interval \in Nat /\ Timeout \in Nat /\ MaxPause \in Nat
    /\ Pauses \subseteq 1..MaxPause

VARIABLES
    call,       \* the calls, in the order of the queue
    freed,      \* those that have released the one behind them
    since,      \* time since lastRequestAt
    pause,      \* time until pausedUntil
    told,       \* time until the end of the last pause TiFlux asked for
    quiet,      \* time since a request left
    answered,   \* the last request that left was answered
    hasty       \* a request left too early

clientVars == <<call, freed, since, pause, told, quiet, answered, hasty>>

-----------------------------------------------------------------------------
Calls == 1..MaxCalls

Statuses == {"ok", "429", "4xx", "5xx"}

\* sent, made and lost are history: whether a request of the call left, how often
\* it took effect and how often it was tried again without knowing that.
Call == [pc: {"none", "queued", "pause", "space", "flight", "body", "backoff", "done"},
         attempt: 0..MaxRetries, timer: 0..Timeout, wait: Nat, status: Statuses,
         ok: BOOLEAN, sent: BOOLEAN, made: Nat, lost: Nat]

NoCall == [pc |-> "none", attempt |-> 0, timer |-> 0, wait |-> 0, status |-> "ok",
           ok |-> FALSE, sent |-> FALSE, made |-> 0, lost |-> 0]

\* The calls and the clocks.
ClientTypeOK ==
    /\ call \in [Calls -> Call]
    /\ freed \subseteq 0..MaxCalls
    /\ since \in 0..Interval /\ quiet \in 0..Interval
    /\ pause \in 0..MaxPause /\ told \in 0..MaxPause
    /\ answered \in BOOLEAN /\ hasty \in BOOLEAN

IsIn(n, pc) == call[n].pc = pc
Inside(n) == call[n].pc \notin {"none", "queued", "done"}

Clocks == <<since, pause, told>>
History == <<quiet, answered, hasty>>

-----------------------------------------------------------------------------
\* getRetryDelayMs of a 5xx or a timeout.
Delay(attempt) == attempt + 1

\* Mutant: a call that throws does not release the queue.
Freed_OnSuccess(n, ok) == IF ok THEN freed \cup {n} ELSE freed

\* The finally of runExclusive.
Freed(n, ok) == freed \cup {n}

\* The call returns or throws.
Finish(n, r, ok) ==
    /\ call' = [call EXCEPT ![n] = [NoCall EXCEPT !.pc = "done", !.ok = ok, !.sent = r.sent,
                                                 !.made = r.made, !.lost = r.lost]]
    /\ freed' = Freed(n, ok)

Update(n, r) == call' = [call EXCEPT ![n] = r] /\ UNCHANGED freed

\* The next attempt, after a sleep, or the end of the call.
Retry(n, r, wait) ==
    IF r.attempt < MaxRetries
    THEN Update(n, [r EXCEPT !.pc = "backoff", !.wait = wait, !.timer = 0, !.status = "ok"])
    ELSE Finish(n, r, FALSE)

\* An AbortError, of the fetch or of its body.
AfterAbort(n, r) == Retry(n, r, Delay(r.attempt))

\* fetch: it rejects at once if the timer has fired while the call slept.
Fetch(n, r) ==
    IF r.timer = 0 /\ r.pc \in {"pause", "space"}
    THEN AfterAbort(n, r) /\ UNCHANGED History
    ELSE /\ Update(n, [r EXCEPT !.pc = "flight", !.wait = 0, !.sent = TRUE])
         /\ quiet' = 0 /\ answered' = FALSE
         /\ hasty' = (hasty \/ told > 0 \/ (answered /\ quiet < Interval))

\* The second half of waitForThrottle: the distance to the last answer.
KeepDistance(n, r) ==
    IF since < Interval
    THEN Update(n, [r EXCEPT !.pc = "space", !.wait = Interval - since]) /\ UNCHANGED History
    ELSE Fetch(n, r)

\* An attempt starts its timer, then waits for the pause.
StartAttempt(n, r) ==
    LET s == [r EXCEPT !.timer = Timeout, !.wait = 0] IN
    IF pause > 0
    THEN Update(n, [s EXCEPT !.pc = "pause", !.wait = pause]) /\ UNCHANGED History
    ELSE KeepDistance(n, s)

-----------------------------------------------------------------------------
\* runExclusive puts the call behind the last one.
Request(n) ==
    /\ IsIn(n, "none") /\ \A m \in Calls : m < n => ~IsIn(m, "none")
    /\ Update(n, [NoCall EXCEPT !.pc = "queued"])
    /\ UNCHANGED <<Clocks, History>>

\* Mutant: the call does not wait for the one before.
IsNext_Always(n) == TRUE

IsNext(n) == n - 1 \in freed

Enter(n) ==
    /\ IsIn(n, "queued") /\ IsNext(n)
    /\ StartAttempt(n, call[n])
    /\ UNCHANGED Clocks

EndPause(n) ==
    /\ IsIn(n, "pause") /\ call[n].wait = 0
    /\ KeepDistance(n, call[n])
    /\ UNCHANGED Clocks

EndSpace(n) ==
    /\ IsIn(n, "space") /\ call[n].wait = 0
    /\ Fetch(n, call[n])
    /\ UNCHANGED Clocks

EndBackoff(n) ==
    /\ IsIn(n, "backoff") /\ call[n].wait = 0
    /\ StartAttempt(n, [call[n] EXCEPT !.attempt = @ + 1])
    /\ UNCHANGED Clocks

\* The head of an answer arrives.  A 5xx may come after the effect.
Answer(n, status, made) ==
    /\ IsIn(n, "flight")
    /\ (status = "ok" => made = 1) /\ (status \in {"429", "4xx"} => made = 0)
    /\ Update(n, [call[n] EXCEPT !.pc = "body", !.status = status, !.made = @ + made])
    /\ since' = 0 /\ answered' = TRUE
    /\ UNCHANGED <<pause, told, quiet, hasty>>

\* pausedUntil after a 429.
Paused(p) == p

\* Its body is read, and the status decides.
ReadBody(n, p) ==
    LET r == call[n] IN
    /\ IsIn(n, "body")
    /\ IF r.status = "429" THEN pause' = Paused(p) /\ told' = p ELSE UNCHANGED <<pause, told>>
    /\ CASE r.status = "ok"  -> Finish(n, r, TRUE)
         [] r.status = "4xx" -> Finish(n, r, FALSE)
         [] r.status = "429" -> Retry(n, r, p)
         [] r.status = "5xx" -> Retry(n, [r EXCEPT !.lost = @ + 1], Delay(r.attempt))
    /\ UNCHANGED <<since, History>>

\* The timer fires before the answer, or before its end.
Abort(n, made) ==
    LET r == call[n] IN
    /\ r.timer = 0
    /\ IsIn(n, "flight") \/ (IsIn(n, "body") /\ made = 0)
    /\ AfterAbort(n, [r EXCEPT !.made = @ + made, !.lost = @ + 1])
    /\ UNCHANGED <<Clocks, History>>

AfterNetworkError(n, r) == Finish(n, r, FALSE)

\* The connection breaks, or the body cannot be parsed: the call throws, though
\* the request may have taken effect.
NetworkFails(n, made) ==
    /\ IsIn(n, "flight") \/ (IsIn(n, "body") /\ made = 0)
    /\ AfterNetworkError(n, [call[n] EXCEPT !.made = @ + made])
    /\ UNCHANGED <<Clocks, History>>

Less(t) == IF t = 0 THEN 0 ELSE t - 1
More(t) == IF t = Interval THEN t ELSE t + 1

TimePasses ==
    /\ \/ pause > 0 \/ told > 0 \/ since < Interval \/ quiet < Interval
       \/ \E n \in Calls : call[n].timer > 0 \/ call[n].wait > 0
    /\ call' = [n \in Calls |-> [call[n] EXCEPT !.timer = Less(@), !.wait = Less(@)]]
    /\ since' = More(since) /\ quiet' = More(quiet)
    /\ pause' = Less(pause) /\ told' = Less(told)
    /\ UNCHANGED <<freed, answered, hasty>>

\* What the process does by itself.
GoOn(n) ==
    \/ Enter(n) \/ EndPause(n) \/ EndSpace(n) \/ EndBackoff(n)
    \/ \E made \in {0, 1} : Abort(n, made)

-----------------------------------------------------------------------------
ClientInit ==
    /\ call = [n \in Calls |-> NoCall]
    /\ freed = {0}
    /\ since = Interval /\ pause = 0
    /\ told = 0 /\ quiet = Interval /\ answered = FALSE /\ hasty = FALSE

ClientNext ==
    \/ TimePasses
    \/ \E n \in Calls :
        \/ Request(n) \/ GoOn(n)
        \/ \E p \in Pauses : ReadBody(n, p)
        \/ \E made \in {0, 1} : NetworkFails(n, made) \/ \E s \in Statuses : Answer(n, s, made)

\* Timers fire and promises that are resolved go on; TiFlux need not answer.
ClientFairness ==
    WF_clientVars(TimePasses) /\ \A n \in Calls : WF_clientVars(GoOn(n))

ClientSpec == ClientInit /\ [][ClientNext]_clientVars /\ ClientFairness

-----------------------------------------------------------------------------
\* One call at a time is between its turn and its end, with its retries and its
\* sleeps (runExclusive and the comment at tiflux.service.ts:381).
OneSession == \A n, m \in Calls : Inside(n) /\ Inside(m) => n = m

\* No request leaves during a pause TiFlux asked for, be it of another call, nor
\* nearer than the interval to a request that was answered (waitForThrottle).
RequestsAreSpaced == ~hasty

\* A call fails only after one of its requests has left: the wait for a pause,
\* which its timer counts, costs an attempt and never all (request).
FailedWasSent == \A n \in Calls : IsIn(n, "done") /\ ~call[n].ok => call[n].sent

\* A call takes effect again only after an attempt that ended in a 5xx or was
\* aborted, and a call that returns has taken effect (request).
EffectsAreExplained ==
    \A n \in Calls : /\ call[n].made <= 1 + call[n].lost
                     /\ IsIn(n, "done") /\ call[n].ok => call[n].made >= 1

\* What the callers of the client rely on.
SessionsAreOrderly == OneSession /\ RequestsAreSpaced /\ FailedWasSent /\ EffectsAreExplained

\* Every call returns or throws, whatever became of those before it, and though
\* TiFlux need never answer.
CallsEnd == \A n \in Calls : IsIn(n, "queued") ~> IsIn(n, "done")
=============================================================================
