-------------------------- MODULE MailAndClientProofs --------------------------
(* The sessions with TiFlux are orderly, for any number of calls and retries  *)
(* and any interval, timeout and pauses; and no e-mail is applied twice or    *)
(* acknowledged unrecorded, for any polls, workers, messages and attempts at  *)
(* once.  The two components share nothing; each has its part of this module. *)
EXTENDS TifluxClient, EmailIngest, TLAPS

-----------------------------------------------------------------------------
(* TifluxClient.  An effect but one has its lost answer, a call none of whose *)
(* requests has left is in its first attempt, and the wait of a sleeping call *)
(* covers the pause and the interval.                                         *)

Queued == [NoCall EXCEPT !.pc = "queued"]

Sleeps(r) == r.pc \in {"pause", "space", "backoff"}

\* What is known of a call when the pause lasts p more and the last answer came
\* s ago.  A call none of whose requests has left is in its first attempt.
CallOK(r, p, s) ==
    /\ r.pc = "queued" => r = Queued
    /\ r.pc = "pause" => r.wait >= p
    /\ r.pc = "space" => p = 0 /\ r.wait + s >= Interval
    /\ r.pc = "backoff" => r.attempt < MaxRetries
    /\ r.pc \in {"flight", "body"} => r.sent
    /\ Sleeps(r) /\ ~r.sent => r.attempt = 0
    /\ r.pc = "backoff" /\ ~r.sent => p = 0 /\ s = Interval
    /\ r.pc \notin {"body", "done"} => r.made <= r.lost
    /\ r.made <= r.lost + 1
    /\ r.pc = "body" /\ r.status \in {"429", "4xx"} => r.made <= r.lost
    /\ r.pc = "body" /\ r.status = "ok" => r.made >= 1
    /\ r.pc = "done" => IF r.ok THEN r.made >= 1 ELSE r.sent

Past(r) == r.pc \notin {"none", "queued"}

\* The calls before one that has had its turn are over.
InOrder == \A n, k \in Calls : Past(call[n]) /\ k < n => IsIn(k, "done")

ClientIInv ==
    /\ ClientTypeOK
    /\ freed = {0} \cup {n \in Calls : IsIn(n, "done")}
    /\ InOrder
    /\ told <= pause
    /\ answered => since <= quiet
    /\ ~hasty
    /\ \A n \in Calls : CallOK(call[n], pause, since)

\* A call in its turn becomes another record.
Moved(n) ==
    \E r \in Call :
        /\ Past(r) /\ CallOK(r, pause', since')
        /\ call' = [call EXCEPT ![n] = r]
        /\ freed' = IF r.pc = "done" THEN freed \cup {n} ELSE freed

-----------------------------------------------------------------------------
\* An empty slot, and one that waits for its turn.
LEMMA Zeros == 0 \in 0..MaxRetries /\ 0 \in 0..Timeout /\ 0 \in Nat
  BY ClientAssumption

LEMMA NoCallType == NoCall \in Call /\ Queued \in Call
<1>1. NoCall \in Call
  BY Zeros DEF NoCall, Call, Statuses
<1> QED
  BY <1>1 DEF Queued, Call

LEMMA DelayType == \A n \in Nat : Delay(n) \in Nat
  BY DEF Delay

LEMMA UpdateMoves ==
    ASSUME NEW n \in Calls, NEW r \in Call, Past(r), r.pc # "done",
           CallOK(r, pause', since'), Update(n, r)
    PROVE  Moved(n)
  BY DEF Update, Moved

\* The record of a call that is over.
LEMMA FinishMoves ==
    ASSUME NEW n \in Calls, NEW r \in Call, NEW ok \in BOOLEAN, r.made <= r.lost + 1,
           ok => r.made >= 1, ~ok => r.sent, Finish(n, r, ok)
    PROVE  Moved(n)
<1> DEFINE d == [NoCall EXCEPT !.pc = "done", !.ok = ok, !.sent = r.sent,
                               !.made = r.made, !.lost = r.lost]
<1>1. d \in Call
  BY Zeros DEF NoCall, Call, Statuses
<1>2. /\ d.pc = "done" /\ d.ok = ok /\ d.sent = r.sent
      /\ d.made = r.made /\ d.lost = r.lost
  BY DEF NoCall
<1>3. Past(d) /\ CallOK(d, pause', since')
  BY <1>2 DEF Past, CallOK, Sleeps
<1>4. call' = [call EXCEPT ![n] = d] /\ freed' = freed \cup {n}
  BY DEF Finish, Freed
<1> HIDE DEF d
<1> QED
  BY <1>1, <1>2, <1>3, <1>4 DEF Moved

\* After a failed attempt.
LEMMA RetryMoves ==
    ASSUME NEW n \in Calls, NEW r \in Call, NEW w \in Nat, r.made <= r.lost,
           r.sent \/ (r.attempt = 0 /\ pause' = 0 /\ since' = Interval), Retry(n, r, w)
    PROVE  Moved(n)
<1>1. CASE r.attempt < MaxRetries
  <2> DEFINE b == [r EXCEPT !.pc = "backoff", !.wait = w, !.timer = 0, !.status = "ok"]
  <2>1. b \in Call
    BY Zeros DEF Call, Statuses
  <2>2. /\ b.pc = "backoff" /\ b.attempt = r.attempt /\ b.sent = r.sent
        /\ b.made = r.made /\ b.lost = r.lost
    BY DEF Call
  <2>3. Update(n, b)
    BY <1>1 DEF Retry
  <2> HIDE DEF b
  <2>4. Past(b) /\ b.pc # "done" /\ CallOK(b, pause', since')
    BY <1>1, <2>1, <2>2 DEF Past, CallOK, Sleeps, Call
  <2> QED
    BY <2>1, <2>3, <2>4, UpdateMoves
<1>2. CASE ~(r.attempt < MaxRetries)
  <2>1. r.sent
    BY <1>2, ClientAssumption
  <2>2. r.made <= r.lost + 1
    BY DEF Call
  <2>3. Finish(n, r, FALSE)
    BY <1>2 DEF Retry
  <2> QED
    BY <2>1, <2>2, <2>3, FinishMoves
<1> QED
  BY <1>1, <1>2

\* What a step leaves of the spacing of requests.
Spaced ==
    /\ hasty' = FALSE /\ answered' \in BOOLEAN /\ quiet' \in 0..Interval
    /\ answered' => since' <= quiet'

LEMMA FetchMoves ==
    ASSUME ClientIInv, NEW n \in Calls, NEW r \in Call, r.made <= r.lost,
           pause = 0, since = Interval, UNCHANGED Clocks,
           r.sent \/ r.attempt = 0 \/ r.pc \notin {"pause", "space"}, Fetch(n, r)
    PROVE  Moved(n) /\ Spaced
<1> USE DEF ClientIInv, ClientTypeOK
<1>1. CASE r.timer = 0 /\ r.pc \in {"pause", "space"}
  <2>1. Retry(n, r, Delay(r.attempt)) /\ UNCHANGED History
    BY <1>1 DEF Fetch, AfterAbort
  <2>2. Delay(r.attempt) \in Nat
    BY DelayType DEF Call
  <2>3. r.sent \/ (r.attempt = 0 /\ pause' = 0 /\ since' = Interval)
    BY <1>1 DEF Clocks
  <2>4. Moved(n)
    BY <2>1, <2>2, <2>3, RetryMoves
  <2> QED
    BY <2>1, <2>4 DEF History, Spaced, Clocks
<1>2. CASE ~(r.timer = 0 /\ r.pc \in {"pause", "space"})
  <2> DEFINE f == [r EXCEPT !.pc = "flight", !.wait = 0, !.sent = TRUE]
  <2>1. /\ Update(n, f) /\ quiet' = 0 /\ answered' = FALSE
        /\ hasty' = (hasty \/ told > 0 \/ (answered /\ quiet < Interval))
    BY <1>2 DEF Fetch
  <2>2. told = 0
    BY ClientAssumption
  <2>3. answered => quiet = Interval
    BY ClientAssumption
  <2>4. hasty' = FALSE
    BY <2>1, <2>2, <2>3, ClientAssumption
  <2>5. f \in Call
    BY Zeros DEF Call, Statuses
  <2>6. f.pc = "flight" /\ f.sent /\ f.made = r.made /\ f.lost = r.lost
    BY DEF Call
  <2> HIDE DEF f
  <2>7. Past(f) /\ f.pc # "done" /\ CallOK(f, pause', since')
    BY <2>5, <2>6 DEF Past, CallOK, Sleeps, Call
  <2>8. Moved(n)
    BY <2>1, <2>5, <2>7, UpdateMoves
  <2>9. 0 \in 0..Interval
    BY ClientAssumption
  <2> QED
    BY <2>1, <2>4, <2>8, <2>9 DEF Spaced
<1> QED
  BY <1>1, <1>2

\* The distance to the last answer, when no pause is left.
LEMMA KeepDistanceMoves ==
    ASSUME ClientIInv, NEW n \in Calls, NEW r \in Call, r.made <= r.lost,
           pause = 0, UNCHANGED Clocks, KeepDistance(n, r),
           \/ r.sent \/ r.attempt = 0
           \/ r.pc \notin {"pause", "space"} /\ since = Interval
    PROVE  Moved(n) /\ Spaced
<1> USE DEF ClientIInv, ClientTypeOK
<1>1. CASE since < Interval
  <2> DEFINE d == [r EXCEPT !.pc = "space", !.wait = Interval - since]
  <2>1. Update(n, d) /\ UNCHANGED History
    BY <1>1 DEF KeepDistance
  <2>2. Interval - since \in Nat /\ (Interval - since) + since >= Interval
    BY <1>1, ClientAssumption
  <2>3. d \in Call
    BY <2>2 DEF Call
  <2>4. /\ d.pc = "space" /\ d.wait = Interval - since /\ d.sent = r.sent
        /\ d.attempt = r.attempt /\ d.made = r.made /\ d.lost = r.lost
    BY DEF Call
  <2> HIDE DEF d
  <2>5. r.sent \/ r.attempt = 0
    BY <1>1, ClientAssumption
  <2>6. Past(d) /\ d.pc # "done" /\ CallOK(d, pause', since')
    BY <2>2, <2>3, <2>4, <2>5 DEF Past, CallOK, Sleeps, Call, Clocks
  <2>7. Moved(n)
    BY <2>1, <2>3, <2>6, UpdateMoves
  <2> QED
    BY <2>1, <2>7 DEF History, Spaced, Clocks
<1>2. CASE ~(since < Interval)
  <2>1. since = Interval
    BY <1>2, ClientAssumption
  <2>2. Fetch(n, r)
    BY <1>2 DEF KeepDistance
  <2> QED
    BY <2>1, <2>2, FetchMoves
<1> QED
  BY <1>1, <1>2

\* The start of an attempt, the first or another.
LEMMA StartMoves ==
    ASSUME ClientIInv, NEW n \in Calls, NEW r \in Call, r.made <= r.lost,
           UNCHANGED Clocks, StartAttempt(n, r), r.pc \notin {"pause", "space"},
           r.sent \/ r.attempt = 0 \/ (pause = 0 /\ since = Interval)
    PROVE  Moved(n) /\ Spaced
<1> USE DEF ClientIInv, ClientTypeOK
<1> DEFINE t == [r EXCEPT !.timer = Timeout, !.wait = 0]
<1>1. Timeout \in 0..Timeout
  BY ClientAssumption
<1>2. t \in Call
  BY <1>1, Zeros DEF Call
<1>3. /\ t.pc = r.pc /\ t.sent = r.sent /\ t.attempt = r.attempt
      /\ t.made = r.made /\ t.lost = r.lost
  BY DEF Call
<1>4. CASE pause > 0
  <2> DEFINE w == [t EXCEPT !.pc = "pause", !.wait = pause]
  <2>1. Update(n, w) /\ UNCHANGED History
    BY <1>4 DEF StartAttempt
  <2> HIDE DEF t
  <2>2. pause \in Nat
    BY ClientAssumption
  <2>3. w \in Call
    BY <1>2, <2>2 DEF Call
  <2>4. /\ w.pc = "pause" /\ w.wait = pause /\ w.sent = r.sent
        /\ w.attempt = r.attempt /\ w.made = r.made /\ w.lost = r.lost
    BY <1>2, <1>3 DEF Call
  <2> HIDE DEF w
  <2>5. Past(w) /\ w.pc # "done" /\ CallOK(w, pause', since')
    BY <1>4, <2>2, <2>3, <2>4 DEF Past, CallOK, Sleeps, Call, Clocks
  <2>6. Moved(n)
    BY <2>1, <2>3, <2>5, UpdateMoves
  <2> QED
    BY <2>1, <2>6 DEF History, Spaced, Clocks
<1>5. CASE ~(pause > 0)
  <2>1. pause = 0
    BY <1>5, ClientAssumption
  <2>2. KeepDistance(n, t)
    BY <1>5 DEF StartAttempt
  <2> HIDE DEF t
  <2> QED
    BY <1>2, <1>3, <2>1, <2>2, KeepDistanceMoves
<1> QED
  BY <1>4, <1>5

-----------------------------------------------------------------------------
\* A call that is not in its turn does not look at the clocks.
LEMMA ClocksDoNotMatter ==
    ASSUME NEW r \in Call, NEW p, NEW s, NEW q, NEW t, CallOK(r, p, s),
           r.pc \in {"none", "queued", "done"}
    PROVE  CallOK(r, q, t)
  BY DEF CallOK, Sleeps

\* A call in its turn keeps the invariant of all.
LEMMA MovedKeeps ==
    ASSUME ClientIInv, NEW n \in Calls, Moved(n), call[n].pc # "done",
           \A k \in Calls : k < n => IsIn(k, "done"),
           Spaced, since' \in 0..Interval, told' <= pause',
           pause' \in 0..MaxPause, told' \in 0..MaxPause
    PROVE  ClientIInv'
<1>1. PICK r \in Call : /\ Past(r) /\ CallOK(r, pause', since')
                        /\ call' = [call EXCEPT ![n] = r]
                        /\ freed' = IF r.pc = "done" THEN freed \cup {n} ELSE freed
  BY DEF Moved
<1>2. \A m \in Calls : call'[m] = IF m = n THEN r ELSE call[m]
  BY <1>1 DEF ClientIInv, ClientTypeOK
<1>3. call' \in [Calls -> Call]
  BY <1>1 DEF ClientIInv, ClientTypeOK
<1>4. freed' = {0} \cup {m \in Calls : IsIn(m, "done")'}
  BY <1>1, <1>2 DEF ClientIInv, IsIn
<1>5. freed' \subseteq 0..MaxCalls
  BY <1>4, ClientAssumption DEF Calls
<1>6. ASSUME NEW m \in Calls, m # n PROVE call[m].pc \in {"none", "queued", "done"}
  <2>1. CASE m < n
    BY <2>1 DEF IsIn
  <2>2. CASE n < m
    BY <2>2 DEF ClientIInv, InOrder, IsIn, Past
  <2> QED
    BY <1>6, <2>1, <2>2, ClientAssumption DEF Calls
<1>7. InOrder'
  <2> SUFFICES ASSUME NEW m \in Calls, NEW k \in Calls, Past(call'[m]), k < m
               PROVE  call'[k].pc = "done"
    BY DEF InOrder, IsIn
  <2>1. CASE m = n
    BY <2>1, <1>2, ClientAssumption DEF IsIn, Calls
  <2>2. CASE m # n
    BY <2>2, <1>2 DEF ClientIInv, InOrder, IsIn
  <2> QED
    BY <2>1, <2>2
<1>8. \A m \in Calls : CallOK(call'[m], pause', since')
  <2> SUFFICES ASSUME NEW m \in Calls PROVE CallOK(call'[m], pause', since')
    OBVIOUS
  <2>1. CASE m = n
    BY <2>1, <1>1, <1>2
  <2>2. CASE m # n
    <3>1. call[m] \in Call /\ CallOK(call[m], pause, since)
      BY DEF ClientIInv, ClientTypeOK
    <3>2. call[m].pc \in {"none", "queued", "done"}
      BY <1>6, <2>2
    <3> QED
      BY <1>2, <2>2, <3>1, <3>2, ClocksDoNotMatter
  <2> QED
    BY <2>1, <2>2
<1> QED
  BY <1>3, <1>4, <1>5, <1>7, <1>8 DEF ClientIInv, ClientTypeOK, Spaced

\* A step of the throttle leaves the clocks alone.
LEMMA ThrottleKeeps ==
    ASSUME ClientIInv, NEW n \in Calls, Moved(n), Spaced, UNCHANGED Clocks,
           call[n].pc # "done", \A k \in Calls : k < n => IsIn(k, "done")
    PROVE  ClientIInv'
<1>1. since' \in 0..Interval /\ told' <= pause' /\ pause' \in 0..MaxPause /\ told' \in 0..MaxPause
  BY DEF ClientIInv, ClientTypeOK, Clocks
<1> QED
  BY <1>1, MovedKeeps

LEMMA HistoryIsSpaced ==
    ASSUME ClientIInv, UNCHANGED <<since, History>>
    PROVE  Spaced
  BY DEF ClientIInv, ClientTypeOK, History, Spaced

\* The calls before one that has had its turn.
LEMMA PastIsFirst ==
    ASSUME ClientIInv, NEW n \in Calls, Past(call[n])
    PROVE  \A k \in Calls : k < n => IsIn(k, "done")
  BY DEF ClientIInv, InOrder

-----------------------------------------------------------------------------
LEMMA RequestKeeps ==
    ASSUME ClientIInv, NEW n \in Calls, Request(n)
    PROVE  ClientIInv'
<1>1. /\ call' = [call EXCEPT ![n] = Queued] /\ freed' = freed
      /\ UNCHANGED <<Clocks, History>> /\ call[n].pc = "none"
  BY DEF Request, Update, Queued, IsIn
<1>2. \A m \in Calls : call'[m] = IF m = n THEN Queued ELSE call[m]
  BY <1>1 DEF ClientIInv, ClientTypeOK
<1>3. ClientTypeOK'
  BY <1>1, NoCallType DEF ClientIInv, ClientTypeOK, Clocks, History
<1>4. Queued.pc = "queued" /\ Queued.made = 0 /\ Queued.lost = 0
  BY DEF Queued, NoCall
<1>5. CallOK(Queued, pause, since)
  BY <1>4 DEF CallOK, Sleeps
<1>6. freed' = {0} \cup {m \in Calls : IsIn(m, "done")'}
  BY <1>1, <1>2, <1>4 DEF ClientIInv, IsIn
<1>7. InOrder'
  BY <1>1, <1>2, <1>4 DEF ClientIInv, InOrder, IsIn, Past
<1>8. \A m \in Calls : CallOK(call'[m], pause', since')
  BY <1>1, <1>2, <1>5 DEF ClientIInv, Clocks
<1> QED
  BY <1>1, <1>3, <1>6, <1>7, <1>8 DEF ClientIInv, Clocks, History

LEMMA EnterKeeps ==
    ASSUME ClientIInv, NEW n \in Calls, Enter(n)
    PROVE  ClientIInv'
<1>1. call[n] \in Call /\ call[n].pc = "queued" /\ call[n] = Queued
  BY DEF Enter, IsIn, ClientIInv, ClientTypeOK, CallOK
<1>2. call[n].made = 0 /\ call[n].lost = 0 /\ call[n].attempt = 0
  BY <1>1 DEF Queued, NoCall
<1>3. \A k \in Calls : k < n => IsIn(k, "done")
  <2> SUFFICES ASSUME NEW k \in Calls, k < n PROVE IsIn(k, "done")
    OBVIOUS
  <2>1. n - 1 \in Calls /\ k <= n - 1
    BY ClientAssumption DEF Calls
  <2>2. IsIn(n - 1, "done")
    BY <2>1, ClientAssumption DEF Enter, IsNext, ClientIInv, Calls
  <2>3. CASE k = n - 1
    BY <2>2, <2>3
  <2>4. CASE k # n - 1
    <3>1. k < n - 1
      BY <2>1, <2>4, ClientAssumption DEF Calls
    <3>2. Past(call[n - 1])
      BY <2>2 DEF Past, IsIn
    <3> QED
      BY <2>1, <3>1, <3>2, PastIsFirst
  <2> QED
    BY <2>3, <2>4
<1>4. Moved(n) /\ Spaced
  BY <1>1, <1>2, StartMoves DEF Enter
<1> QED
  BY <1>1, <1>3, <1>4, ThrottleKeeps DEF Enter

LEMMA EndPauseKeeps ==
    ASSUME ClientIInv, NEW n \in Calls, EndPause(n)
    PROVE  ClientIInv'
<1>1. call[n] \in Call /\ CallOK(call[n], pause, since) /\ call[n].pc = "pause"
  BY DEF EndPause, IsIn, ClientIInv, ClientTypeOK
<1>2. pause = 0
  BY <1>1, ClientAssumption DEF EndPause, CallOK, ClientIInv, ClientTypeOK
<1>3. call[n].made <= call[n].lost /\ (call[n].sent \/ call[n].attempt = 0)
  BY <1>1 DEF CallOK, Sleeps
<1>4. Moved(n) /\ Spaced
  BY <1>1, <1>2, <1>3, KeepDistanceMoves DEF EndPause
<1>5. Past(call[n])
  BY <1>1 DEF Past
<1> QED
  BY <1>1, <1>4, <1>5, PastIsFirst, ThrottleKeeps DEF EndPause

LEMMA EndSpaceKeeps ==
    ASSUME ClientIInv, NEW n \in Calls, EndSpace(n)
    PROVE  ClientIInv'
<1>1. call[n] \in Call /\ CallOK(call[n], pause, since) /\ call[n].pc = "space"
  BY DEF EndSpace, IsIn, ClientIInv, ClientTypeOK
<1>2. pause = 0 /\ since = Interval
  BY <1>1, ClientAssumption DEF EndSpace, CallOK, ClientIInv, ClientTypeOK
<1>3. call[n].made <= call[n].lost /\ (call[n].sent \/ call[n].attempt = 0)
  BY <1>1 DEF CallOK, Sleeps
<1>4. Moved(n) /\ Spaced
  BY <1>1, <1>2, <1>3, FetchMoves DEF EndSpace
<1>5. Past(call[n])
  BY <1>1 DEF Past
<1> QED
  BY <1>1, <1>4, <1>5, PastIsFirst, ThrottleKeeps DEF EndSpace

LEMMA EndBackoffKeeps ==
    ASSUME ClientIInv, NEW n \in Calls, EndBackoff(n)
    PROVE  ClientIInv'
<1> DEFINE r == [call[n] EXCEPT !.attempt = @ + 1]
<1>1. call[n] \in Call /\ CallOK(call[n], pause, since) /\ call[n].pc = "backoff"
  BY DEF EndBackoff, IsIn, ClientIInv, ClientTypeOK
<1>2. call[n].attempt + 1 \in 0..MaxRetries
  BY <1>1, ClientAssumption DEF CallOK, Call
<1>3. r \in Call
  BY <1>1, <1>2 DEF Call
<1>4. /\ r.pc = "backoff" /\ r.made = call[n].made /\ r.lost = call[n].lost
      /\ r.sent = call[n].sent
  BY <1>1 DEF Call
<1>5. StartAttempt(n, r) /\ UNCHANGED Clocks
  BY DEF EndBackoff
<1> HIDE DEF r
<1>6. r.made <= r.lost /\ (r.sent \/ (pause = 0 /\ since = Interval))
  BY <1>1, <1>4 DEF CallOK, Sleeps
<1>7. Moved(n) /\ Spaced
  BY <1>3, <1>4, <1>5, <1>6, StartMoves
<1>8. Past(call[n])
  BY <1>1 DEF Past
<1> QED
  BY <1>1, <1>5, <1>7, <1>8, PastIsFirst, ThrottleKeeps

LEMMA AnswerKeeps ==
    ASSUME ClientIInv, NEW n \in Calls, NEW status \in Statuses, NEW made \in {0, 1},
           Answer(n, status, made)
    PROVE  ClientIInv'
<1> DEFINE r == [call[n] EXCEPT !.pc = "body", !.status = status, !.made = @ + made]
<1>1. call[n] \in Call /\ CallOK(call[n], pause, since) /\ call[n].pc = "flight"
  BY DEF Answer, IsIn, ClientIInv, ClientTypeOK
<1>2. call[n].made + made \in Nat
  BY <1>1 DEF Call
<1>3. r \in Call
  BY <1>1, <1>2 DEF Call
<1>4. /\ r.pc = "body" /\ r.made = call[n].made + made /\ r.lost = call[n].lost
      /\ r.sent = call[n].sent /\ r.status = status
  BY <1>1 DEF Call
<1>5. Update(n, r)
  BY DEF Answer
<1> HIDE DEF r
<1>6. call[n].made <= call[n].lost /\ call[n].sent /\ call[n].made \in Nat /\ call[n].lost \in Nat
  BY <1>1 DEF CallOK, Call
<1>7. (status = "ok" => made = 1) /\ (status \in {"429", "4xx"} => made = 0)
  BY DEF Answer
<1>8. CallOK(r, pause', since')
  BY <1>4, <1>6, <1>7 DEF CallOK, Sleeps
<1>9. Past(r) /\ r.pc # "done" /\ Past(call[n])
  BY <1>1, <1>4 DEF Past
<1>10. Moved(n)
  BY <1>3, <1>5, <1>8, <1>9, UpdateMoves
<1>11. /\ since' = 0 /\ answered' = TRUE /\ UNCHANGED <<pause, told, quiet, hasty>>
       /\ 0 \in 0..Interval
  BY ClientAssumption DEF Answer
<1>12. Spaced
  BY <1>11 DEF ClientIInv, ClientTypeOK, Spaced
<1>13. since' \in 0..Interval /\ told' <= pause' /\ pause' \in 0..MaxPause /\ told' \in 0..MaxPause
  BY <1>11 DEF ClientIInv, ClientTypeOK
<1> QED
  BY <1>1, <1>9, <1>10, <1>12, <1>13, PastIsFirst, MovedKeeps

LEMMA ReadBodyKeeps ==
    ASSUME ClientIInv, NEW n \in Calls, NEW p \in Pauses, ReadBody(n, p)
    PROVE  ClientIInv'
<1> DEFINE r == call[n]
<1>1. r \in Call /\ CallOK(r, pause, since) /\ r.pc = "body" /\ Past(r)
  BY DEF ReadBody, IsIn, ClientIInv, ClientTypeOK, Past
<1>2. r.made <= r.lost + 1 /\ r.sent /\ r.made \in Nat /\ r.lost \in Nat /\ r.attempt \in Nat
  BY <1>1 DEF CallOK, Call
<1>3. p \in Nat /\ p \in 0..MaxPause
  BY ClientAssumption
<1>4. UNCHANGED <<since, History>>
  BY DEF ReadBody
<1>5. /\ told' <= pause' /\ pause' \in 0..MaxPause /\ told' \in 0..MaxPause
      /\ since' \in 0..Interval
  <2>1. CASE r.status = "429"
    <3>1. pause' = p /\ told' = p /\ since' = since
      BY <1>4, <2>1 DEF ReadBody, Paused
    <3> QED
      BY <1>3, <3>1 DEF ClientIInv, ClientTypeOK
  <2>2. CASE r.status # "429"
    <3>1. UNCHANGED <<pause, told, since>>
      BY <1>4, <2>2 DEF ReadBody
    <3> QED
      BY <3>1 DEF ClientIInv, ClientTypeOK
  <2> QED
    BY <2>1, <2>2
<1>6. Moved(n)
  <2>1. CASE r.status = "ok"
    <3>1. Finish(n, r, TRUE)
      BY <2>1 DEF ReadBody
    <3>2. r.made >= 1
      BY <1>1, <2>1 DEF CallOK
    <3> QED
      BY <1>1, <1>2, <3>1, <3>2, FinishMoves
  <2>2. CASE r.status = "4xx"
    <3>1. Finish(n, r, FALSE)
      BY <2>2 DEF ReadBody
    <3> QED
      BY <1>1, <1>2, <3>1, FinishMoves
  <2>3. CASE r.status = "429"
    <3>1. Retry(n, r, p)
      BY <2>3 DEF ReadBody
    <3>2. r.made <= r.lost
      BY <1>1, <2>3 DEF CallOK
    <3> QED
      BY <1>1, <1>2, <1>3, <3>1, <3>2, RetryMoves
  <2>4. CASE r.status = "5xx"
    <3> DEFINE s == [r EXCEPT !.lost = @ + 1]
    <3>1. Retry(n, s, Delay(r.attempt))
      BY <2>4 DEF ReadBody
    <3>2. r.lost + 1 \in Nat /\ Delay(r.attempt) \in Nat
      BY <1>2, DelayType
    <3>3. s \in Call
      BY <1>1, <3>2 DEF Call
    <3>4. s.made = r.made /\ s.lost = r.lost + 1 /\ s.sent = r.sent
      BY <1>1 DEF Call
    <3> HIDE DEF s
    <3> QED
      BY <1>2, <3>1, <3>2, <3>3, <3>4, RetryMoves
  <2>5. r.status \in Statuses
    BY <1>1 DEF Call
  <2> QED
    BY <2>1, <2>2, <2>3, <2>4, <2>5 DEF Statuses
<1>7. Spaced
  BY <1>4, HistoryIsSpaced
<1> QED
  BY <1>1, <1>5, <1>6, <1>7, PastIsFirst, MovedKeeps

LEMMA AbortKeeps ==
    ASSUME ClientIInv, NEW n \in Calls, NEW made \in {0, 1}, Abort(n, made)
    PROVE  ClientIInv'
<1> DEFINE r == [call[n] EXCEPT !.made = @ + made, !.lost = @ + 1]
<1>1. /\ call[n] \in Call /\ CallOK(call[n], pause, since) /\ call[n].pc \in {"flight", "body"}
      /\ Past(call[n])
  BY DEF Abort, IsIn, ClientIInv, ClientTypeOK, Past
<1>2. /\ call[n].made \in Nat /\ call[n].lost \in Nat /\ call[n].attempt \in Nat
      /\ call[n].made + made <= call[n].lost + 1 /\ call[n].sent
  BY <1>1 DEF CallOK, Call, Abort, IsIn
<1>3. call[n].made + made \in Nat /\ call[n].lost + 1 \in Nat
  BY <1>2
<1>4. r \in Call
  BY <1>1, <1>3 DEF Call
<1>5. /\ r.made = call[n].made + made /\ r.lost = call[n].lost + 1 /\ r.sent = call[n].sent
      /\ r.attempt = call[n].attempt
  BY <1>1 DEF Call
<1>6. Retry(n, r, Delay(r.attempt)) /\ UNCHANGED <<Clocks, History>>
  BY DEF Abort, AfterAbort
<1> HIDE DEF r
<1>7. Delay(r.attempt) \in Nat
  BY <1>2, <1>5, DelayType
<1>8. Moved(n)
  BY <1>2, <1>4, <1>5, <1>6, <1>7, RetryMoves
<1>9. Spaced
  BY <1>6, HistoryIsSpaced DEF Clocks
<1> QED
  BY <1>1, <1>6, <1>8, <1>9, PastIsFirst, ThrottleKeeps

LEMMA NetworkFailsKeeps ==
    ASSUME ClientIInv, NEW n \in Calls, NEW made \in {0, 1}, NetworkFails(n, made)
    PROVE  ClientIInv'
<1> DEFINE r == [call[n] EXCEPT !.made = @ + made]
<1>1. /\ call[n] \in Call /\ CallOK(call[n], pause, since) /\ call[n].pc \in {"flight", "body"}
      /\ Past(call[n])
  BY DEF NetworkFails, IsIn, ClientIInv, ClientTypeOK, Past
<1>2. /\ call[n].made \in Nat /\ call[n].lost \in Nat
      /\ call[n].made + made <= call[n].lost + 1 /\ call[n].sent
  BY <1>1 DEF CallOK, Call, NetworkFails, IsIn
<1>3. call[n].made + made \in Nat
  BY <1>2
<1>4. r \in Call
  BY <1>1, <1>3 DEF Call
<1>5. r.made = call[n].made + made /\ r.lost = call[n].lost /\ r.sent = call[n].sent
  BY <1>1 DEF Call
<1>6. Finish(n, r, FALSE) /\ UNCHANGED <<Clocks, History>>
  BY DEF NetworkFails, AfterNetworkError
<1> HIDE DEF r
<1>7. Moved(n)
  BY <1>2, <1>4, <1>5, <1>6, FinishMoves
<1>8. Spaced
  BY <1>6, HistoryIsSpaced DEF Clocks
<1> QED
  BY <1>1, <1>6, <1>7, <1>8, PastIsFirst, ThrottleKeeps

-----------------------------------------------------------------------------
\* What is left of a time, and what is past of it.
LEMMA LessIsLess ==
    \A s, t \in Nat : Less(t) \in Nat /\ Less(t) <= t /\ (s <= t => Less(s) <= Less(t))
  BY DEF Less

LEMMA MoreIsMore ==
    \A s, t \in 0..Interval : More(t) \in 0..Interval /\ (s <= t => More(s) <= More(t))
  BY ClientAssumption DEF More

LEMMA DistanceIsKept ==
    \A w \in Nat, t \in 0..Interval : w + t >= Interval => Less(w) + More(t) >= Interval
  BY ClientAssumption DEF Less, More

\* A moment that passes shortens the one and lengthens the other.
LEMMA TimePassesKeeps ==
    ASSUME ClientIInv, TimePasses
    PROVE  ClientIInv'
<1> USE DEF ClientIInv, ClientTypeOK
<1>1. /\ call' = [n \in Calls |-> [call[n] EXCEPT !.timer = Less(@), !.wait = Less(@)]]
      /\ since' = More(since) /\ quiet' = More(quiet)
      /\ pause' = Less(pause) /\ told' = Less(told)
      /\ UNCHANGED <<freed, answered, hasty>>
  BY DEF TimePasses
<1>2. ASSUME NEW n \in Calls
      PROVE  /\ call'[n] \in Call /\ CallOK(call'[n], pause', since')
             /\ call'[n].pc = call[n].pc
  <2> DEFINE r == call[n]
             t == [r EXCEPT !.timer = Less(@), !.wait = Less(@)]
  <2>1. r \in Call /\ CallOK(r, pause, since)
    OBVIOUS
  <2>2. Less(r.timer) \in 0..Timeout /\ Less(r.wait) \in Nat
    BY <2>1, ClientAssumption DEF Less, Call
  <2>3. t \in Call
    BY <2>1, <2>2 DEF Call
  <2>4. /\ t.pc = r.pc /\ t.wait = Less(r.wait) /\ t.attempt = r.attempt /\ t.sent = r.sent
        /\ t.made = r.made /\ t.lost = r.lost /\ t.status = r.status /\ t.ok = r.ok
    BY <2>1 DEF Call
  <2>5. call'[n] = t
    BY <1>1
  <2> HIDE DEF t
  <2>6. CASE r.pc = "pause"
    <3>1. t.wait >= pause'
      <4>1. pause \in Nat /\ r.wait \in Nat /\ r.wait >= pause
        BY <2>1, <2>6, ClientAssumption DEF CallOK, Call
      <4> QED
        BY <1>1, <2>4, <4>1, LessIsLess
    <3> QED
      BY <2>1, <2>3, <2>4, <2>5, <2>6, <3>1 DEF CallOK, Sleeps
  <2>7. CASE r.pc = "space"
    <3>1. pause' = 0 /\ t.wait + since' >= Interval
      <4>1. pause = 0 /\ r.wait \in Nat /\ r.wait + since >= Interval
        BY <2>1, <2>7 DEF CallOK, Call
      <4> QED
        BY <1>1, <2>4, <4>1, DistanceIsKept DEF Less
    <3> QED
      BY <2>1, <2>3, <2>4, <2>5, <2>7, <3>1 DEF CallOK, Sleeps
  <2>8. CASE r.pc = "backoff"
    <3>1. ~r.sent => pause' = 0 /\ since' = Interval
      BY <1>1, <2>1, <2>8, ClientAssumption DEF Less, More, CallOK
    <3> QED
      BY <2>1, <2>3, <2>4, <2>5, <2>8, <3>1 DEF CallOK, Sleeps
  <2>9. CASE r.pc = "queued"
    <3>1. r = Queued
      BY <2>1, <2>9 DEF CallOK
    <3>2. t = Queued
      BY <3>1 DEF t, Queued, NoCall, Less
    <3> QED
      BY <2>1, <2>3, <2>4, <2>5, <2>9, <3>2 DEF CallOK, Sleeps
  <2>10. CASE r.pc \in {"none", "flight", "body", "done"}
    BY <2>1, <2>3, <2>4, <2>5, <2>10 DEF CallOK, Sleeps
  <2>11. r.pc \in {"none", "queued", "pause", "space", "flight", "body", "backoff", "done"}
    BY <2>1 DEF Call
  <2> QED
    BY <2>4, <2>5, <2>6, <2>7, <2>8, <2>9, <2>10, <2>11
<1>3. call' \in [Calls -> Call]
  BY <1>1, <1>2
<1>4. freed' = {0} \cup {n \in Calls : IsIn(n, "done")'} /\ InOrder'
  BY <1>1, <1>2 DEF IsIn, InOrder, Past
<1>5. /\ since' \in 0..Interval /\ quiet' \in 0..Interval
      /\ pause' \in 0..MaxPause /\ told' \in 0..MaxPause
      /\ told' <= pause' /\ (answered' => since' <= quiet')
  <2>1. since' \in 0..Interval /\ quiet' \in 0..Interval /\ (answered' => since' <= quiet')
    BY <1>1, MoreIsMore
  <2>2. pause \in Nat /\ told \in Nat /\ pause <= MaxPause /\ told <= MaxPause
    BY ClientAssumption
  <2>3. pause' \in Nat /\ pause' <= pause /\ told' \in Nat /\ told' <= told /\ told' <= pause'
    BY <1>1, <2>2, LessIsLess
  <2>4. pause' \in 0..MaxPause /\ told' \in 0..MaxPause
    BY <2>2, <2>3, ClientAssumption
  <2> QED
    BY <2>1, <2>3, <2>4
<1> QED
  BY <1>1, <1>2, <1>3, <1>4, <1>5

-----------------------------------------------------------------------------
LEMMA InitEstablishes == ClientInit => ClientIInv
<1> SUFFICES ASSUME ClientInit PROVE ClientIInv
  OBVIOUS
<1>1. \A n \in Calls : call[n] = NoCall
  BY DEF ClientInit
<1>2. /\ NoCall.pc = "none" /\ NoCall.made = 0 /\ NoCall.lost = 0
  BY DEF NoCall
<1>3. CallOK(NoCall, pause, since)
  BY <1>2 DEF CallOK, Sleeps
<1>4. ClientTypeOK
  <2>1. /\ 0 \in 0..Interval /\ Interval \in 0..Interval /\ 0 \in 0..MaxPause
        /\ {0} \subseteq 0..MaxCalls
    BY ClientAssumption
  <2> QED
    BY <2>1, NoCallType DEF ClientInit, ClientTypeOK
<1>5. freed = {0} \cup {n \in Calls : IsIn(n, "done")} /\ InOrder
  BY <1>1, <1>2 DEF ClientInit, IsIn, InOrder, Past
<1> QED
  BY <1>1, <1>3, <1>4, <1>5 DEF ClientInit, ClientIInv

LEMMA NextKeeps == ClientIInv /\ [ClientNext]_clientVars => ClientIInv'
<1> SUFFICES ASSUME ClientIInv, [ClientNext]_clientVars PROVE ClientIInv'
  OBVIOUS
<1>1. CASE TimePasses
  BY <1>1, TimePassesKeeps
<1>2. ASSUME NEW n \in Calls, Request(n) \/ GoOn(n) PROVE ClientIInv'
  BY <1>2, RequestKeeps, EnterKeeps, EndPauseKeeps, EndSpaceKeeps, EndBackoffKeeps, AbortKeeps
     DEF GoOn
<1>3. ASSUME NEW n \in Calls, NEW p \in Pauses, ReadBody(n, p) PROVE ClientIInv'
  BY <1>3, ReadBodyKeeps
<1>4. ASSUME NEW n \in Calls, NEW made \in {0, 1}, NetworkFails(n, made) PROVE ClientIInv'
  BY <1>4, NetworkFailsKeeps
<1>5. ASSUME NEW n \in Calls, NEW made \in {0, 1}, NEW s \in Statuses, Answer(n, s, made)
      PROVE  ClientIInv'
  BY <1>5, AnswerKeeps
<1>6. CASE UNCHANGED clientVars
  BY <1>6 DEF clientVars, ClientIInv, ClientTypeOK, InOrder, IsIn
<1> QED
  BY <1>1, <1>2, <1>3, <1>4, <1>5, <1>6 DEF ClientNext

LEMMA IInvHolds == ClientSpec => []ClientIInv
  BY InitEstablishes, NextKeeps, PTL DEF ClientSpec

\* The calls and the clocks keep their types.
THEOREM ClientTypes == ClientSpec => []ClientTypeOK
<1>1. ClientIInv => ClientTypeOK
  BY DEF ClientIInv
<1> QED
  BY <1>1, IInvHolds, PTL

\* One session at a time (runExclusive), no request in a pause or too near to
\* one that was answered (waitForThrottle), no failure of a call that was never
\* sent and no effect that no failed attempt explains (request).
THEOREM SessionsStayOrderly == ClientSpec => []SessionsAreOrderly
<1>1. ClientIInv => SessionsAreOrderly
  <2> SUFFICES ASSUME ClientIInv PROVE SessionsAreOrderly
    OBVIOUS
  <2>1. OneSession
    <3> SUFFICES ASSUME NEW n \in Calls, NEW m \in Calls, Inside(n), Inside(m), n # m
                 PROVE  FALSE
      BY DEF OneSession
    <3>1. Past(call[n]) /\ Past(call[m])
      BY DEF Inside, Past
    <3>2. n < m \/ m < n
      BY ClientAssumption DEF Calls
    <3> QED
      BY <3>1, <3>2, PastIsFirst DEF Inside, IsIn
  <2>2. RequestsAreSpaced
    BY DEF ClientIInv, RequestsAreSpaced
  <2>3. FailedWasSent
    BY DEF ClientIInv, CallOK, FailedWasSent, IsIn
  <2>4. EffectsAreExplained
    <3> SUFFICES ASSUME NEW n \in Calls
                 PROVE  /\ call[n].made <= 1 + call[n].lost
                        /\ IsIn(n, "done") /\ call[n].ok => call[n].made >= 1
      BY DEF EffectsAreExplained
    <3>1. call[n] \in Call /\ CallOK(call[n], pause, since)
      BY DEF ClientIInv, ClientTypeOK
    <3> QED
      BY <3>1 DEF CallOK, Call, IsIn
  <2> QED
    BY <2>1, <2>2, <2>3, <2>4 DEF SessionsAreOrderly
<1> QED
  BY <1>1, IInvHolds, PTL

-----------------------------------------------------------------------------
(* EmailIngest.  Only who inserted a message goes on to write it, and a text  *)
(* anybody has read holds only messages nobody will write any more.           *)

Inserted == {"attach", "readText", "writeText"}

\* What a process at hand has inserted is a reply that it will write to the ticket.
Applies(x) == x.pc \in Inserted /\ x.applies

\* Nobody will write a message to the ticket any more.
Settled(m) == row[m] = "OPENED" /\ \A p \in Processes : Applies(proc[p]) => proc[p].msg # m

\* A description, as it is or as somebody has read it, has what it has once.
TextOK(t) == t \in Texts /\ \A m \in Messages : t[m] <= 1 /\ (t[m] > 0 => Settled(m))

ProcessOK(x) ==
    /\ x.pc \in Inserted => row[x.msg] # "none"
    /\ Applies(x) => row[x.msg] = "OPENED"
    /\ x.pc \in {"readText", "writeText"} => x.applies
    /\ x.pc = "writeText" => TextOK(x.read)

OneApplies ==
    \A p, q \in Processes :
        Applies(proc[p]) /\ Applies(proc[q]) /\ proc[p].msg = proc[q].msg => p = q

MailIInv ==
    /\ TypeOK
    /\ TextOK(text)
    /\ OneApplies
    /\ \A p \in Processes : ProcessOK(proc[p])
    /\ CompletedIsRecorded

-----------------------------------------------------------------------------
(* The types, of the stores and of one poll or job.                           *)

StoreTypes ==
    /\ redis \in BOOLEAN
    /\ staffed \in BOOLEAN
    /\ kind \in [Messages -> Kinds]
    /\ received \in {0} \cup Messages
    /\ row \in [Messages -> RowStates]
    /\ closed \in BOOLEAN
    /\ text \in Texts
    /\ unapplied \subseteq Messages
    /\ job \in [Messages -> JobStates]
    /\ attempt \in [Messages -> Nat]
    /\ count \in Counters

ProcessTyped(x) ==
    /\ x \in Process
    /\ x.pc \notin {"idle", "look"} => x.msg \in Messages
    /\ x.pc = "writeText" => x.read \in Texts

LEMMA TypesSplit ==
    TypeOK <=> /\ StoreTypes
               /\ proc \in [Processes -> Process]
               /\ \A p \in Processes : ProcessTyped(proc[p])
  BY DEF TypeOK, StoreTypes, ProcessTyped

LEMMA IdleTyped == ProcessTyped(Idle) /\ Idle.pc = "idle" /\ Idle.todo = {} /\ Idle.msg = 0
  BY DEF ProcessTyped, Idle, Process, PCs, Texts

\* A poll goes on with messages, or ends.
LEMMA OnwardsTyped ==
    ASSUME NEW S \in SUBSET Messages
    PROVE  ProcessTyped(Onwards(S)) /\ Onwards(S).pc \in {"idle", "look"}
<1>1. CASE S = {}
  BY <1>1, IdleTyped DEF Onwards
<1>2. CASE S # {}
  <2>1. Onwards(S) = [Idle EXCEPT !.pc = "look", !.todo = S]
    BY <1>2 DEF Onwards
  <2> QED
    BY <2>1 DEF ProcessTyped, Idle, Process, PCs
<1> QED
  BY <1>1, <1>2

-----------------------------------------------------------------------------
(* What a step does to what is known.                                         *)

\* No message loses its row.
RowsStay == \A m \in Messages : row[m] # "none" => row'[m] = row[m]

\* A message is acknowledged when it has a row or no sender.
JobsGoOn ==
    \A m \in Messages : job'[m] = "completed" =>
        job[m] = "completed" \/ row'[m] # "none" \/ kind[m] = "noSender"

\* A poll or job comes to apply a message only by inserting its row.
LEMMA ProcessMoves ==
    ASSUME MailIInv, RowsStay, StoreTypes', NEW p \in Processes, NEW x, ProcessTyped(x),
           proc' = [proc EXCEPT ![p] = x],
           Applies(x) => \/ Applies(proc[p]) /\ x.msg = proc[p].msg
                         \/ row[x.msg] = "none",
           x.pc \in Inserted => row'[x.msg] # "none",
           Applies(x) => row'[x.msg] = "OPENED",
           x.pc \in {"readText", "writeText"} => x.applies,
           x.pc = "writeText" => TextOK(x.read)
    PROVE  /\ TypeOK' /\ OneApplies' /\ (\A q \in Processes : ProcessOK(proc[q]))'
           /\ \A m \in Messages : Settled(m) => Settled(m)'
<1>1. /\ proc \in [Processes -> Process] /\ \A q \in Processes : ProcessTyped(proc[q])
      /\ \A q \in Processes : ProcessOK(proc[q])
      /\ OneApplies
  BY TypesSplit DEF MailIInv
<1>2. \A q \in Processes : proc'[q] = IF q = p THEN x ELSE proc[q]
  BY <1>1
<1>3. TypeOK'
  <2>1. proc' \in [Processes -> Process] /\ \A q \in Processes : ProcessTyped(proc'[q])
    BY <1>1, <1>2 DEF ProcessTyped
  <2> QED
    BY <2>1 DEF TypeOK, StoreTypes, ProcessTyped
<1>4. ASSUME NEW q \in Processes, Applies(proc[q])
      PROVE  proc[q].msg \in Messages /\ row[proc[q].msg] = "OPENED"
  BY <1>1, <1>4 DEF ProcessOK, Applies, Inserted, ProcessTyped
<1>5. Applies(x) => x.msg \in Messages
  BY DEF Applies, Inserted, ProcessTyped
<1>6. OneApplies'
  <2> SUFFICES ASSUME NEW q \in Processes, NEW r \in Processes,
                      Applies(proc'[q]), Applies(proc'[r]), proc'[q].msg = proc'[r].msg, q # r
               PROVE  FALSE
    BY DEF OneApplies, Applies
  <2>1. CASE q # p /\ r # p
    BY <1>1, <1>2, <2>1 DEF OneApplies
  <2>2. CASE q = p
    <3>1. Applies(x) /\ Applies(proc[r]) /\ proc[r].msg = x.msg
      BY <1>2, <2>2
    <3>2. row[x.msg] = "OPENED"
      BY <1>4, <3>1
    <3>3. Applies(proc[p]) /\ proc[p].msg = proc[r].msg
      BY <3>1, <3>2
    <3> QED
      BY <1>1, <2>2, <3>1, <3>3 DEF OneApplies
  <2>3. CASE r = p
    <3>1. Applies(x) /\ Applies(proc[q]) /\ proc[q].msg = x.msg
      BY <1>2, <2>3
    <3>2. row[x.msg] = "OPENED"
      BY <1>4, <3>1
    <3>3. Applies(proc[p]) /\ proc[p].msg = proc[q].msg
      BY <3>1, <3>2
    <3> QED
      BY <1>1, <2>3, <3>1, <3>3 DEF OneApplies
  <2> QED
    BY <2>1, <2>2, <2>3
<1>7. ASSUME NEW m \in Messages, Settled(m) PROVE Settled(m)'
  <2>1. row[m] = "OPENED" /\ row'[m] = "OPENED"
    BY <1>7 DEF Settled, RowsStay
  <2>2. ASSUME NEW q \in Processes, Applies(proc'[q]) PROVE proc'[q].msg # m
    <3>1. CASE q = p
      BY <1>2, <1>7, <2>1, <2>2, <3>1 DEF Settled
    <3>2. CASE q # p
      BY <1>2, <1>7, <2>2, <3>2 DEF Settled
    <3> QED
      BY <3>1, <3>2
  <2> QED
    BY <2>1, <2>2 DEF Settled, Applies
<1>8. ASSUME NEW q \in Processes PROVE ProcessOK(proc[q])'
  <2> DEFINE y == proc'[q]
  <2>1. /\ y.pc \in Inserted => row'[y.msg] # "none"
        /\ Applies(y) => row'[y.msg] = "OPENED"
        /\ y.pc \in {"readText", "writeText"} => y.applies
        /\ y.pc = "writeText" => TextOK(y.read)
    <3>1. CASE q = p
      BY <1>2, <3>1
    <3>2. CASE q # p
      <4>1. y = proc[q] /\ ProcessOK(proc[q]) /\ ProcessTyped(proc[q])
        BY <1>1, <1>2, <3>2
      <4>2. y.pc \in Inserted => y.msg \in Messages
        BY <4>1 DEF Inserted, ProcessTyped
      <4>3. y.pc \in Inserted => row'[y.msg] = row[y.msg] /\ row[y.msg] # "none"
        BY <4>1, <4>2 DEF ProcessOK, RowsStay
      <4> QED
        BY <4>1, <4>3 DEF ProcessOK, Applies
    <3> QED
      BY <3>1, <3>2
  <2>2. TextOK(y.read) =>
           y.read \in Texts /\ \A m \in Messages : y.read[m] <= 1 /\ (y.read[m] > 0 => Settled(m)')
    BY <1>7 DEF TextOK
  <2> QED
    BY <2>1, <2>2 DEF ProcessOK, Applies, TextOK
<1> QED
  BY <1>3, <1>6, <1>7, <1>8

\* The text stays, and no message is acknowledged without a row.
LEMMA Rest ==
    ASSUME MailIInv, UNCHANGED <<kind, text>>, RowsStay, JobsGoOn,
           \A m \in Messages : Settled(m) => Settled(m)'
    PROVE  TextOK(text)' /\ CompletedIsRecorded'
<1>1. TextOK(text)'
  BY DEF MailIInv, TextOK
<1>2. CompletedIsRecorded'
  BY DEF MailIInv, CompletedIsRecorded, RowsStay, JobsGoOn
<1> QED
  BY <1>1, <1>2

\* The message at hand is done with: the poll goes on, or the job is completed.
LEMMA DoneMoves ==
    ASSUME MailIInv, RowsStay, NEW p \in Processes, IsDone(p), UNCHANGED kind,
           proc[p].pc \notin {"idle", "look"},
           row' \in [Messages -> RowStates], text' \in Texts, unapplied' \subseteq Messages,
           UNCHANGED <<redis, staffed, received, closed, attempt, count>>,
           row'[proc[p].msg] # "none" \/ kind[proc[p].msg] = "noSender"
    PROVE  /\ TypeOK' /\ OneApplies' /\ (\A q \in Processes : ProcessOK(proc[q]))'
           /\ \A m \in Messages : Settled(m) => Settled(m)'
           /\ CompletedIsRecorded'
           /\ proc'[p].pc \in {"idle", "look"}
           /\ \A q \in Processes : q # p => proc'[q] = proc[q]
<1>1. PICK x : x = IF p \in Pollers THEN Onwards(proc[p].todo) ELSE Idle
  OBVIOUS
<1>2. /\ StoreTypes /\ proc \in [Processes -> Process] /\ ProcessTyped(proc[p])
      /\ proc[p].todo \in SUBSET Messages
  BY TypesSplit DEF MailIInv, Process
<1>3. ProcessTyped(x) /\ x.pc \in {"idle", "look"}
  BY <1>1, <1>2, IdleTyped, OnwardsTyped
<1>4. proc' = [proc EXCEPT ![p] = x]
  BY <1>1 DEF IsDone, Become
<1>5. job' = IF p \in Workers THEN [job EXCEPT ![proc[p].msg] = "completed"] ELSE job
  BY DEF IsDone
<1>6. StoreTypes'
  <2>1. job' \in [Messages -> JobStates]
    BY <1>2, <1>5 DEF StoreTypes, JobStates
  <2> QED
    BY <1>2, <2>1 DEF StoreTypes
<1>7. x.pc \notin Inserted /\ ~ Applies(x) /\ x.pc \notin {"readText", "writeText"}
  BY <1>3 DEF Inserted, Applies
<1>8. /\ TypeOK' /\ OneApplies' /\ (\A q \in Processes : ProcessOK(proc[q]))'
      /\ \A m \in Messages : Settled(m) => Settled(m)'
  BY <1>3, <1>4, <1>6, <1>7, ProcessMoves
<1>9. JobsGoOn
  BY <1>2, <1>5 DEF JobsGoOn, StoreTypes
<1>10. CompletedIsRecorded'
  BY <1>9 DEF MailIInv, CompletedIsRecorded, RowsStay, JobsGoOn
<1> QED
  BY <1>2, <1>3, <1>4, <1>8, <1>10

\* A step that leaves the description alone keeps the invariant.
LEMMA StepOK ==
    ASSUME MailIInv, RowsStay, JobsGoOn, StoreTypes', UNCHANGED <<kind, text>>,
           NEW p \in Processes, NEW x, ProcessTyped(x), proc' = [proc EXCEPT ![p] = x],
           Applies(x) => \/ Applies(proc[p]) /\ x.msg = proc[p].msg
                         \/ row[x.msg] = "none",
           x.pc \in Inserted => row'[x.msg] # "none",
           Applies(x) => row'[x.msg] = "OPENED",
           x.pc \in {"readText", "writeText"} => x.applies,
           x.pc = "writeText" => TextOK(x.read)
    PROVE  MailIInv'
<1>1. /\ TypeOK' /\ OneApplies' /\ (\A q \in Processes : ProcessOK(proc[q]))'
      /\ \A m \in Messages : Settled(m) => Settled(m)'
  BY ProcessMoves
<1> QED
  BY <1>1, Rest DEF MailIInv

LEMMA DoneOK ==
    ASSUME MailIInv, RowsStay, NEW p \in Processes, IsDone(p), UNCHANGED <<kind, text>>,
           proc[p].pc \notin {"idle", "look"},
           row' \in [Messages -> RowStates], unapplied' \subseteq Messages,
           UNCHANGED <<redis, staffed, received, closed, attempt, count>>,
           row'[proc[p].msg] # "none" \/ kind[proc[p].msg] = "noSender"
    PROVE  MailIInv'
<1>1. text' \in Texts
  BY TypesSplit DEF MailIInv, StoreTypes
<1>2. /\ TypeOK' /\ OneApplies' /\ (\A q \in Processes : ProcessOK(proc[q]))'
      /\ \A m \in Messages : Settled(m) => Settled(m)'
      /\ CompletedIsRecorded'
  BY <1>1, DoneMoves
<1>3. TextOK(text)'
  BY <1>2 DEF MailIInv, TextOK
<1> QED
  BY <1>2, <1>3 DEF MailIInv

\* What inserts nothing has nothing to write.
LEMMA NotInserted ==
    ASSUME NEW x, x.pc \notin Inserted
    PROVE  ~ Applies(x) /\ x.pc \notin {"readText", "writeText"}
  BY DEF Applies, Inserted

-----------------------------------------------------------------------------
(* The steps.                                                                 *)

LEMMA OutsideSteps == MailIInv /\ (Arrive \/ CloseOrReopen \/ AdministratorsChange) => MailIInv'
<1> SUFFICES ASSUME MailIInv, Arrive \/ CloseOrReopen \/ AdministratorsChange PROVE MailIInv'
  OBVIOUS
<1>1. StoreTypes'
  <2>1. StoreTypes
    BY TypesSplit DEF MailIInv
  <2>2. received' \in {0} \cup Messages
    BY <2>1, BoundsAssumption
       DEF Arrive, CloseOrReopen, AdministratorsChange, outside, StoreTypes, Messages
  <2>3. count' \in Counters
    <3>1. UNCHANGED count \/ Count("closings") \/ Count("turnovers")
      BY DEF Arrive, CloseOrReopen, AdministratorsChange
    <3> QED
      BY <2>1, <3>1 DEF StoreTypes, Counters, Count
  <2>4. closed' \in BOOLEAN
    <3>1. closed' = closed \/ closed' = (~closed)
      BY DEF Arrive, CloseOrReopen, AdministratorsChange, ticket
    <3> QED
      BY <2>1, <3>1 DEF StoreTypes
  <2>5. staffed' \in BOOLEAN
    <3>1. staffed' = staffed \/ staffed' = (~staffed)
      BY DEF Arrive, CloseOrReopen, AdministratorsChange, outside
    <3> QED
      BY <2>1, <3>1 DEF StoreTypes
  <2> QED
    BY <2>1, <2>2, <2>3, <2>4, <2>5
       DEF Arrive, CloseOrReopen, AdministratorsChange, outside, ticket, queue, StoreTypes
<1>2. UNCHANGED <<row, text, proc, job, kind>>
  BY DEF Arrive, CloseOrReopen, AdministratorsChange, outside, ticket, queue
<1>3. TypeOK'
  BY <1>1, <1>2, TypesSplit DEF MailIInv, TypeOK, StoreTypes, ProcessTyped
<1> QED
  BY <1>2, <1>3 DEF MailIInv, TextOK, OneApplies, ProcessOK, Settled, Applies,
                    CompletedIsRecorded

LEMMA PollSteps ==
    ASSUME MailIInv, NEW p \in Processes, BeginPoll(p) \/ Look(p) \/ Enqueue(p)
    PROVE  MailIInv'
<1>1. /\ StoreTypes /\ proc \in [Processes -> Process] /\ ProcessTyped(proc[p])
      /\ proc[p].todo \in SUBSET Messages
  BY TypesSplit DEF MailIInv, Process
<1>2. UNCHANGED <<redis, staffed, kind, received, row, closed, text, unapplied, attempt, count>>
  BY DEF BeginPoll, Look, Enqueue, outside, ticket, queue
<1>3. ASSUME NEW x, ProcessTyped(x), proc' = [proc EXCEPT ![p] = x], x.pc \notin Inserted,
             job' \in [Messages -> JobStates], JobsGoOn
      PROVE  MailIInv'
  <2>1. StoreTypes' /\ RowsStay
    BY <1>1, <1>2, <1>3 DEF StoreTypes, RowsStay
  <2> QED
    BY <1>2, <1>3, <2>1, NotInserted, StepOK
<1>4. CASE BeginPoll(p)
  <2>1. PICK x : x = [Idle EXCEPT !.pc = "look", !.todo = Listed]
    OBVIOUS
  <2>2. ProcessTyped(x) /\ x.pc \notin Inserted
    BY <2>1 DEF ProcessTyped, Idle, Process, PCs, Listed, Inserted
  <2>3. proc' = [proc EXCEPT ![p] = x] /\ UNCHANGED job
    BY <1>4, <2>1 DEF BeginPoll, Become, queue
  <2> QED
    BY <1>1, <1>3, <2>2, <2>3 DEF StoreTypes, JobsGoOn
<1>5. CASE Look(p)
  <2>1. PICK m \in proc[p].todo :
           LET rest == [proc[p] EXCEPT !.todo = @ \ {m}, !.msg = m]
           IN  Become(p, IF row[m] = "none"
                         THEN [rest EXCEPT !.pc = IF kind[m] = "blocked" THEN "ignore"
                                                  ELSE IF redis THEN "enqueue"
                                                  ELSE "resolve"]
                         ELSE Onwards(rest.todo))
    BY <1>5 DEF Look
  <2>2. UNCHANGED job /\ m \in Messages
    BY <1>1, <1>5 DEF Look, queue
  <2>3. PICK rest : rest = [proc[p] EXCEPT !.todo = @ \ {m}, !.msg = m]
    OBVIOUS
  <2>4. rest \in Process /\ rest.msg = m /\ rest.todo \in SUBSET Messages
    BY <1>1, <2>2, <2>3 DEF ProcessTyped, Process
  <2>5. CASE row[m] = "none"
    <3>1. PICK x : /\ x \in {[rest EXCEPT !.pc = "ignore"], [rest EXCEPT !.pc = "enqueue"],
                             [rest EXCEPT !.pc = "resolve"]}
                   /\ proc' = [proc EXCEPT ![p] = x]
      <4>1. proc' = [proc EXCEPT ![p] =
                [rest EXCEPT !.pc = IF kind[m] = "blocked" THEN "ignore"
                                    ELSE IF redis THEN "enqueue" ELSE "resolve"]]
        BY <2>1, <2>3, <2>5 DEF Become
      <4> QED
        BY <4>1
    <3>2. ProcessTyped(x) /\ x.pc \notin Inserted
      BY <2>2, <2>4, <3>1 DEF ProcessTyped, Process, PCs, Inserted
    <3> QED
      BY <1>1, <1>3, <2>2, <3>1, <3>2 DEF StoreTypes, JobsGoOn
  <2>6. CASE row[m] # "none"
    <3>1. PICK x : x = Onwards(rest.todo)
      OBVIOUS
    <3>2. ProcessTyped(x) /\ x.pc \notin Inserted
      BY <2>4, <3>1, OnwardsTyped DEF Inserted
    <3>3. proc' = [proc EXCEPT ![p] = x]
      BY <2>1, <2>3, <2>6, <3>1 DEF Become
    <3> QED
      BY <1>1, <1>3, <2>2, <3>2, <3>3 DEF StoreTypes, JobsGoOn
  <2> QED
    BY <2>5, <2>6
<1>6. CASE Enqueue(p)
  <2>1. PICK x : x = Onwards(proc[p].todo)
    OBVIOUS
  <2>2. ProcessTyped(x) /\ x.pc \notin Inserted
    BY <1>1, <2>1, OnwardsTyped DEF Inserted
  <2>3. proc' = [proc EXCEPT ![p] = x]
    BY <1>6, <2>1 DEF Enqueue, Become
  <2>4. job' \in [Messages -> JobStates] /\ JobsGoOn
    BY <1>1, <1>6 DEF Enqueue, StoreTypes, JobStates, JobsGoOn
  <2> QED
    BY <1>3, <2>2, <2>3, <2>4
<1> QED
  BY <1>4, <1>5, <1>6

\* A job that a worker takes is not acknowledged yet.
LEMMA TakeJobStep ==
    ASSUME MailIInv, NEW p \in Processes, TakeJob(p)
    PROVE  MailIInv'
<1>1. StoreTypes /\ UNCHANGED <<redis, staffed, kind, received, row, closed, text, unapplied, attempt, count>>
  BY TypesSplit DEF MailIInv, TakeJob, outside, ticket
<1>2. PICK m \in Messages : /\ job' = [job EXCEPT ![m] = "active"]
                            /\ Become(p, [Idle EXCEPT !.pc = "check", !.msg = m])
  BY DEF TakeJob
<1>3. PICK x : x = [Idle EXCEPT !.pc = "check", !.msg = m]
  OBVIOUS
<1>4. ProcessTyped(x) /\ x.pc \notin Inserted
  BY <1>3 DEF ProcessTyped, Idle, Process, PCs, Inserted
<1>5. proc' = [proc EXCEPT ![p] = x]
  BY <1>2, <1>3 DEF Become
<1>6. StoreTypes' /\ JobsGoOn /\ RowsStay
  <2>1. job' \in [Messages -> JobStates] /\ JobsGoOn
    BY <1>1, <1>2 DEF StoreTypes, JobStates, JobsGoOn
  <2> QED
    BY <1>1, <2>1 DEF StoreTypes, RowsStay
<1> QED
  BY <1>1, <1>4, <1>5, <1>6, NotInserted, StepOK

\* A poll or job goes to another label, without a message inserted by itself.
LEMMA GoesElsewhere ==
    ASSUME MailIInv, NEW p \in Processes, NEW label \in PCs \ Inserted,
           NEW u \in BOOLEAN, NEW b \in BOOLEAN,
           proc[p].pc \notin {"idle", "look"},
           \/ Goto(p, label)
           \/ proc' = [proc EXCEPT ![p] =
                          [proc[p] EXCEPT !.pc = label, !.uploader = u, !.applies = b]],
           UNCHANGED <<redis, staffed, kind, received, row, closed, text, unapplied, job, attempt, count>>
    PROVE  MailIInv'
<1>1. StoreTypes /\ proc \in [Processes -> Process] /\ ProcessTyped(proc[p])
  BY TypesSplit DEF MailIInv
<1>2. PICK x : /\ x \in {[proc[p] EXCEPT !.pc = label],
                         [proc[p] EXCEPT !.pc = label, !.uploader = u, !.applies = b]}
               /\ proc' = [proc EXCEPT ![p] = x]
  BY DEF Goto, Become
<1>3. x \in Process /\ x.pc = label /\ x.msg = proc[p].msg
  BY <1>1, <1>2 DEF ProcessTyped, Process
<1>4. ProcessTyped(x) /\ x.pc \notin Inserted
  BY <1>1, <1>3 DEF ProcessTyped, Inserted
<1>5. StoreTypes' /\ JobsGoOn /\ RowsStay
  BY <1>1 DEF StoreTypes, JobsGoOn, RowsStay
<1> QED
  BY <1>2, <1>4, <1>5, NotInserted, StepOK

LEMMA CheckStep ==
    ASSUME MailIInv, NEW p \in Processes, Check(p)
    PROVE  MailIInv'
<1>1. StoreTypes /\ ProcessTyped(proc[p]) /\ proc[p].pc = "check"
  BY TypesSplit DEF MailIInv, Check, At
<1>2. UNCHANGED <<redis, staffed, kind, received, row, closed, text, unapplied, attempt, count>>
  BY DEF Check, outside, ticket
<1>3. CASE row[proc[p].msg] = "none"
  <2>1. Goto(p, "resolve") /\ UNCHANGED job
    BY <1>3 DEF Check
  <2>2. "resolve" \in PCs \ Inserted
    BY DEF PCs, Inserted
  <2> QED
    BY <1>1, <1>2, <2>1, <2>2, GoesElsewhere
<1>4. CASE row[proc[p].msg] # "none"
  <2>1. IsDone(p)
    BY <1>4 DEF Check
  <2> QED
    BY <1>1, <1>2, <1>4, <2>1, DoneOK DEF RowsStay, StoreTypes
<1> QED
  BY <1>3, <1>4

LEMMA ResolveStep ==
    ASSUME MailIInv, NEW p \in Processes, Resolve(p)
    PROVE  MailIInv'
<1>1. StoreTypes /\ ProcessTyped(proc[p]) /\ proc[p].pc = "resolve"
  BY TypesSplit DEF MailIInv, Resolve, At
<1>2. UNCHANGED <<redis, staffed, kind, received, row, closed, text, unapplied, attempt, count>>
  BY DEF Resolve, outside, ticket
<1>3. CASE kind[proc[p].msg] = "noSender"
  <2>1. IsDone(p)
    BY <1>3 DEF Resolve
  <2> QED
    BY <1>1, <1>2, <1>3, <2>1, DoneOK DEF RowsStay, StoreTypes
<1>4. CASE kind[proc[p].msg] # "noSender"
  <2>1. PICK label \in {"ignore", "create"}, u \in BOOLEAN, b \in BOOLEAN :
           /\ Become(p, [proc[p] EXCEPT !.pc = label, !.uploader = u, !.applies = b])
           /\ UNCHANGED job
    <3>1. PICK u, b : /\ u = (staffed \/ kind[proc[p].msg] = "reply")
                      /\ b = (kind[proc[p].msg] \in Replies /\ ~ closed)
      OBVIOUS
    <3>2. PICK label \in {"ignore", "create"} :
             /\ Become(p, [proc[p] EXCEPT !.pc = label, !.uploader = u, !.applies = b])
             /\ UNCHANGED job
      BY <1>4, <3>1 DEF Resolve
    <3>3. u \in BOOLEAN /\ b \in BOOLEAN
      BY <1>1, <3>1 DEF StoreTypes
    <3> QED
      BY <3>2, <3>3
  <2>3. proc' = [proc EXCEPT ![p] = [proc[p] EXCEPT !.pc = label, !.uploader = u, !.applies = b]]
    BY <2>1 DEF Become
  <2>4. label \in PCs \ Inserted
    BY DEF PCs, Inserted
  <2> QED
    BY <1>1, <1>2, <2>1, <2>3, <2>4, GoesElsewhere
<1> QED
  BY <1>3, <1>4

LEMMA IgnoreStep ==
    ASSUME MailIInv, NEW p \in Processes, Ignore(p)
    PROVE  MailIInv'
<1>1. StoreTypes /\ ProcessTyped(proc[p]) /\ proc[p].pc = "ignore"
  BY TypesSplit DEF MailIInv, Ignore, At
<1>2. UNCHANGED <<redis, staffed, kind, received, closed, text, unapplied, attempt, count>> /\ IsDone(p)
  BY DEF Ignore, outside, ticket
<1>3. proc[p].msg \in Messages
  BY <1>1 DEF ProcessTyped
<1>4. /\ row' \in [Messages -> RowStates] /\ RowsStay
      /\ row'[proc[p].msg] # "none"
  BY <1>1, <1>3 DEF Ignore, StoreTypes, RowStates, RowsStay
<1> QED
  BY <1>1, <1>2, <1>4, DoneOK DEF StoreTypes

\* Whoever inserts a message is the only one to go on with it.
LEMMA CreateStep ==
    ASSUME MailIInv, NEW p \in Processes, Create(p)
    PROVE  MailIInv'
<1> DEFINE m == proc[p].msg
<1>1. /\ StoreTypes /\ proc \in [Processes -> Process]
      /\ ProcessTyped(proc[p]) /\ proc[p].pc = "create"
  BY TypesSplit DEF MailIInv, Create, At
<1>2. UNCHANGED <<redis, staffed, kind, received, closed, text, unapplied, attempt, count>>
  BY DEF Create, outside, ticket
<1>3. m \in Messages
  BY <1>1 DEF ProcessTyped
<1>4. CASE row[m] = "none"
  <2>1. /\ row' = [row EXCEPT ![m] = IF proc[p].applies THEN "OPENED" ELSE "PENDING"]
        /\ Goto(p, "attach") /\ UNCHANGED job
    BY <1>4 DEF Create
  <2>2. PICK x : x = [proc[p] EXCEPT !.pc = "attach"]
    OBVIOUS
  <2>3. /\ x \in Process /\ x.pc = "attach" /\ x.msg = m /\ x.applies = proc[p].applies
        /\ proc' = [proc EXCEPT ![p] = x]
    BY <1>1, <2>1, <2>2 DEF ProcessTyped, Process, PCs, Goto, Become
  <2>4. ProcessTyped(x)
    BY <1>3, <2>3 DEF ProcessTyped
  <2>5. /\ row' \in [Messages -> RowStates] /\ RowsStay
        /\ row'[m] # "none" /\ (x.applies => row'[m] = "OPENED")
    BY <1>1, <1>3, <1>4, <2>1, <2>3 DEF StoreTypes, RowStates, RowsStay
  <2>6. StoreTypes' /\ JobsGoOn
    BY <1>1, <1>2, <2>1, <2>5 DEF StoreTypes, JobsGoOn
  <2>7. Applies(x) => row[x.msg] = "none" /\ row'[x.msg] = "OPENED"
    BY <1>4, <2>3, <2>5 DEF Applies
  <2> QED
    BY <1>2, <2>3, <2>4, <2>5, <2>6, <2>7, StepOK
<1>5. CASE row[m] # "none"
  <2>1. IsDone(p) /\ UNCHANGED row
    BY <1>5 DEF Create, AfterDuplicate
  <2> QED
    BY <1>1, <1>2, <1>5, <2>1, DoneOK DEF RowsStay, StoreTypes
<1> QED
  BY <1>4, <1>5

LEMMA AttachAndReadSteps ==
    ASSUME MailIInv, NEW p \in Processes, Attach(p) \/ ReadText(p)
    PROVE  MailIInv'
<1> DEFINE m == proc[p].msg
<1>1. /\ StoreTypes /\ proc \in [Processes -> Process]
      /\ ProcessTyped(proc[p]) /\ proc[p].pc \in {"attach", "readText"} /\ ProcessOK(proc[p])
  BY TypesSplit DEF MailIInv, Attach, ReadText, At
<1>2. /\ UNCHANGED <<redis, staffed, kind, received, row, closed, text, attempt, count>>
      /\ RowsStay
  BY DEF Attach, ReadText, outside, ticket, queue, RowsStay
<1>3. m \in Messages /\ row[m] # "none"
  BY <1>1 DEF ProcessTyped, ProcessOK, Inserted
<1>4. unapplied' \subseteq Messages
  <2>1. UNCHANGED unapplied \/ unapplied' = unapplied \cup {m}
    BY DEF Attach, ReadText, ticket
  <2> QED
    BY <1>1, <1>3, <2>1 DEF StoreTypes
<1>5. CASE IsDone(p)
  BY <1>1, <1>2, <1>3, <1>5, <1>4, DoneOK DEF StoreTypes
<1>6. CASE ~ IsDone(p)
  <2>1. PICK x : /\ \/ x = [proc[p] EXCEPT !.pc = "readText"]
                    \/ x = [proc[p] EXCEPT !.pc = "writeText", !.read = text]
                 /\ proc' = [proc EXCEPT ![p] = x]
                 /\ proc[p].applies /\ UNCHANGED job
    <3>1. CASE Attach(p)
      BY <1>6, <3>1 DEF Attach, AfterAttachments, Goto, Become
    <3>2. CASE ReadText(p)
      BY <1>1, <1>6, <3>2 DEF ReadText, At, Become, ProcessOK
    <3> QED
      BY <3>1, <3>2
  <2>2. /\ x.msg = m /\ x.applies = proc[p].applies /\ x.pc \in {"readText", "writeText"}
        /\ x \in Process /\ (x.pc = "writeText" => x.read = text)
    BY <1>1, <2>1 DEF ProcessTyped, Process, PCs, StoreTypes
  <2>3. ProcessTyped(x)
    BY <1>1, <1>3, <2>2 DEF ProcessTyped, StoreTypes
  <2>4. Applies(proc[p]) /\ row[m] = "OPENED"
    BY <1>1, <2>1 DEF Applies, Inserted, ProcessOK
  <2>5. x.pc = "writeText" => TextOK(x.read)
    BY <2>2 DEF MailIInv
  <2>6. StoreTypes' /\ JobsGoOn
    BY <1>1, <1>2, <1>4, <2>1 DEF StoreTypes, JobsGoOn
  <2>7. row'[x.msg] = "OPENED" /\ "OPENED" # "none"
    BY <1>2, <2>2, <2>4
  <2> QED
    BY <1>2, <2>1, <2>2, <2>3, <2>4, <2>5, <2>6, <2>7, StepOK
<1> QED
  BY <1>5, <1>6

\* The description that was read does not have the reply yet, and nobody else adds it.
LEMMA WriteTextStep ==
    ASSUME MailIInv, NEW p \in Processes, WriteText(p)
    PROVE  MailIInv'
<1>1. /\ StoreTypes /\ proc \in [Processes -> Process]
      /\ ProcessTyped(proc[p]) /\ proc[p].pc = "writeText" /\ ProcessOK(proc[p])
  BY TypesSplit DEF MailIInv, WriteText, At
<1>2. UNCHANGED <<redis, staffed, kind, received, row, closed, unapplied, attempt, count>> /\ IsDone(p)
  BY DEF WriteText, outside
<1>m. PICK m, read : m \in Messages /\ m = proc[p].msg /\ read = proc[p].read
  BY <1>1 DEF ProcessTyped
<1>3. /\ m \in Messages /\ read \in Texts /\ TextOK(read)
      /\ Applies(proc[p]) /\ row[m] = "OPENED"
  BY <1>1, <1>m DEF ProcessTyped, ProcessOK, Applies, Inserted
<1>4. read[m] = 0
  <2>1. ~ Settled(m) /\ read[m] \in Nat
    BY <1>m, <1>3 DEF Settled, Texts
  <2> QED
    BY <1>3, <2>1 DEF TextOK
<1>5. text' = [read EXCEPT ![m] = 1]
  BY <1>m, <1>4 DEF WriteText
<1>6. text' \in Texts
  BY <1>3, <1>5 DEF Texts
<1>7. RowsStay /\ row' \in [Messages -> RowStates] /\ unapplied' \subseteq Messages
  BY <1>1, <1>2 DEF RowsStay, StoreTypes
<1>8. /\ TypeOK' /\ OneApplies' /\ (\A q \in Processes : ProcessOK(proc[q]))'
      /\ \A n \in Messages : Settled(n) => Settled(n)'
      /\ CompletedIsRecorded'
      /\ proc'[p].pc \in {"idle", "look"}
      /\ \A q \in Processes : q # p => proc'[q] = proc[q]
  BY <1>1, <1>2, <1>m, <1>3, <1>6, <1>7, DoneMoves
<1>9. Settled(m)'
  <2>1. ASSUME NEW q \in Processes, Applies(proc'[q]) PROVE proc'[q].msg # m
    <3>1. q # p
      BY <1>8, <2>1 DEF Applies, Inserted
    <3>2. Applies(proc[q]) /\ proc'[q] = proc[q]
      BY <1>8, <2>1, <3>1
    <3> QED
      BY <1>m, <1>3, <3>1, <3>2 DEF MailIInv, OneApplies
  <2> QED
    BY <1>2, <1>3, <2>1 DEF Settled, Applies
<1>10. TextOK(text)'
  <2>1. ASSUME NEW n \in Messages PROVE text'[n] <= 1 /\ (text'[n] > 0 => Settled(n)')
    <3>1. CASE n = m
      BY <1>3, <1>5, <1>9, <3>1 DEF Texts
    <3>2. CASE n # m
      <4>1. text'[n] = read[n]
        BY <1>3, <1>5, <3>2 DEF Texts
      <4> QED
        BY <1>3, <1>8, <4>1 DEF TextOK
    <3> QED
      BY <3>1, <3>2
  <2> QED
    BY <1>6, <2>1 DEF TextOK
<1> QED
  BY <1>8, <1>10 DEF MailIInv

\* What throws or dies leaves its messages to others.
LEMMA EndSteps ==
    ASSUME MailIInv, NEW p \in Processes, Throw(p) \/ Crash(p)
    PROVE  MailIInv'
<1> DEFINE m == proc[p].msg
<1>1. StoreTypes
  BY TypesSplit DEF MailIInv
<1>2. UNCHANGED <<redis, staffed, kind, received, row, closed, text, unapplied>> /\ Become(p, Idle)
  BY DEF Throw, Crash, outside, ticket
<1>3. job' \in [Messages -> JobStates] /\ JobsGoOn
  <2>1. PICK state \in {"waiting", "failed"} : UNCHANGED job \/ job' = [job EXCEPT ![m] = state]
    BY DEF Throw, Crash, AfterException, queue
  <2> QED
    BY <1>1, <2>1 DEF StoreTypes, JobStates, JobsGoOn
<1>4. attempt' \in [Messages -> Nat]
  <2>1. UNCHANGED attempt \/ attempt' = [attempt EXCEPT ![m] = @ + 1]
    BY DEF Throw, Crash, queue
  <2> QED
    BY <1>1, <2>1 DEF StoreTypes
<1>5. count' \in Counters
  <2>1. Count("failures")
    BY DEF Throw, Crash
  <2> QED
    BY <1>1, <2>1 DEF StoreTypes, Counters, Count
<1>6. StoreTypes' /\ RowsStay
  BY <1>1, <1>2, <1>3, <1>4, <1>5 DEF StoreTypes, RowsStay
<1>7. PICK x : x = Idle
  OBVIOUS
<1>8. ProcessTyped(x) /\ x.pc \notin Inserted /\ proc' = [proc EXCEPT ![p] = x]
  BY <1>2, <1>7, IdleTyped DEF Inserted, Become
<1> QED
  BY <1>2, <1>3, <1>6, <1>8, NotInserted, StepOK

-----------------------------------------------------------------------------
(* What became of the replies.  Only one read without an administrator has    *)
(* nobody to write it as, and who finds that has the reply in its own hands;  *)
(* so a reply the log warns of is in no description and in nobody's hands.    *)

Excusable(m) == kind[m] = "outsideReply" /\ count.turnovers > 0

UploaderOK(x) ==
    x.pc \in {"create"} \cup Inserted /\ x.applies /\ ~ x.uploader => Excusable(x.msg)

UnappliedOK ==
    \A m \in unapplied :
        /\ Excusable(m) /\ Settled(m) /\ text[m] = 0
        /\ \A p \in Processes : proc[p].pc = "writeText" => proc[p].read[m] = 0

AccountIInv ==
    /\ ~ staffed => count.turnovers > 0
    /\ \A p \in Processes : UploaderOK(proc[p])
    /\ UnappliedOK
    /\ OpenedIsAccounted

LEMMA ApplyingIsApplies ==
    ASSUME NEW p \in Processes, NEW m \in Messages
    PROVE  IsApplying(p, m) <=> Applies(proc[p]) /\ proc[p].msg = m
  BY DEF IsApplying, Applies, Inserted

\* Who has a reply in its hands finds it in no description.
LEMMA NotWritten ==
    ASSUME MailIInv, NEW p \in Processes, Applies(proc[p])
    PROVE  /\ proc[p].msg \in Messages /\ row[proc[p].msg] = "OPENED"
           /\ text[proc[p].msg] = 0
           /\ \A q \in Processes :
                 /\ proc[q].pc = "writeText" => proc[q].read[proc[p].msg] = 0
                 /\ q # p => ~ (Applies(proc[q]) /\ proc[q].msg = proc[p].msg)
<1>1. PICK m : m = proc[p].msg
  OBVIOUS
<1>2. /\ ProcessTyped(proc[p]) /\ proc \in [Processes -> Process]
      /\ \A q \in Processes : ProcessOK(proc[q])
  BY TypesSplit DEF MailIInv
<1>3. m \in Messages /\ row[m] = "OPENED" /\ ~ Settled(m)
  BY <1>1, <1>2 DEF ProcessTyped, Applies, Inserted, ProcessOK, Settled
<1>4. ASSUME NEW t, TextOK(t) PROVE t[m] = 0
  <2>1. t[m] \in Nat /\ ~ (t[m] > 0)
    BY <1>3, <1>4 DEF TextOK, Texts
  <2> QED
    BY <2>1
<1>5. text[m] = 0 /\ \A q \in Processes : proc[q].pc = "writeText" => proc[q].read[m] = 0
  BY <1>2, <1>4 DEF MailIInv, ProcessOK
<1> QED
  BY <1>1, <1>3, <1>5 DEF MailIInv, OneApplies

\* What a step leaves alone that writes no description.
Around ==
    /\ UNCHANGED <<staffed, kind, text>>
    /\ count'.turnovers = count.turnovers
    /\ count.failures > 0 => count'.failures > 0

\* What p does when it becomes x: it takes a reply into its hands by inserting it,
\* reads the description as it is, and a reply leaves its hands for the log, or
\* by an exception or a death.
TakesUp(p, x) ==
    /\ UploaderOK(x)
    /\ Applies(x) => x.msg = proc[p].msg /\ (Applies(proc[p]) \/ row[x.msg] = "none")
    /\ x.pc = "writeText" => x.read = text
    /\ \A m \in Messages :
          row'[m] = "OPENED" => row[m] = "OPENED" \/ (Applies(x) /\ x.msg = m)

HandsOver(p, x) ==
    /\ \/ unapplied' = unapplied
       \/ /\ unapplied' = unapplied \cup {proc[p].msg}
          /\ Applies(proc[p]) /\ ~ proc[p].uploader /\ ~ Applies(x)
    /\ Applies(proc[p]) => \/ Applies(x) /\ x.msg = proc[p].msg
                           \/ proc[p].msg \in unapplied'
                           \/ count'.failures > 0

LEMMA AccountMoves ==
    ASSUME MailIInv, AccountIInv, RowsStay, Around, NEW p \in Processes, NEW x,
           proc' = [proc EXCEPT ![p] = x], TakesUp(p, x), HandsOver(p, x)
    PROVE  AccountIInv'
<1> USE DEF TakesUp, HandsOver
<1>1. /\ proc \in [Processes -> Process] /\ StoreTypes
      /\ \A q \in Processes : proc'[q] = IF q = p THEN x ELSE proc[q]
  BY TypesSplit DEF MailIInv
<1>2. \A m : Excusable(m)' <=> Excusable(m)
  BY DEF Excusable, Around
<1>3. ASSUME NEW q \in Processes PROVE UploaderOK(proc[q])'
  <2>1. UploaderOK(proc'[q])
    BY <1>1 DEF AccountIInv
  <2> QED
    BY <1>2, <2>1 DEF UploaderOK
<1>4. ASSUME NEW m \in unapplied'
      PROVE  /\ m \in Messages /\ Excusable(m) /\ row[m] = "OPENED" /\ text[m] = 0
             /\ \A q \in Processes :
                   /\ proc[q].pc = "writeText" => proc[q].read[m] = 0
                   /\ q # p => ~ (Applies(proc[q]) /\ proc[q].msg = m)
             /\ ~ (Applies(x) /\ x.msg = m)
  <2>1. CASE m \in unapplied
    <3>1. m \in Messages /\ Excusable(m) /\ Settled(m) /\ text[m] = 0
      BY <1>1, <2>1 DEF StoreTypes, AccountIInv, UnappliedOK
    <3>2. \A q \in Processes : proc[q].pc = "writeText" => proc[q].read[m] = 0
      BY <2>1 DEF AccountIInv, UnappliedOK
    <3>3. ~ (Applies(x) /\ x.msg = m)
      BY <3>1 DEF Settled
    <3> QED
      BY <3>1, <3>2, <3>3 DEF Settled
  <2>2. CASE m \notin unapplied
    <3>1. m = proc[p].msg /\ Applies(proc[p]) /\ ~ proc[p].uploader /\ ~ Applies(x)
      BY <1>4, <2>2
    <3>2. Excusable(m)
      BY <3>1 DEF AccountIInv, UploaderOK, Applies
    <3> QED
      BY <3>1, <3>2, NotWritten
  <2> QED
    BY <2>1, <2>2
<1>5. UnappliedOK'
  <2> SUFFICES ASSUME NEW m \in unapplied'
               PROVE  /\ Excusable(m)' /\ Settled(m)' /\ text'[m] = 0
                      /\ \A q \in Processes : proc'[q].pc = "writeText" => proc'[q].read[m] = 0
    BY DEF UnappliedOK
  <2>1. /\ m \in Messages /\ Excusable(m) /\ row[m] = "OPENED" /\ text[m] = 0
        /\ \A q \in Processes :
              /\ proc[q].pc = "writeText" => proc[q].read[m] = 0
              /\ q # p => ~ (Applies(proc[q]) /\ proc[q].msg = m)
        /\ ~ (Applies(x) /\ x.msg = m)
    BY <1>4
  <2>2. row'[m] = "OPENED"
    BY <2>1 DEF RowsStay
  <2>3. Settled(m)'
    <3>1. \A q \in Processes : Applies(proc'[q]) => proc'[q].msg # m
      BY <1>1, <2>1
    <3> QED
      BY <2>2, <3>1 DEF Settled, Applies
  <2>4. \A q \in Processes : proc'[q].pc = "writeText" => proc'[q].read[m] = 0
    BY <1>1, <2>1
  <2> QED
    BY <1>2, <2>1, <2>3, <2>4 DEF Around
<1>6. OpenedIsAccounted'
  <2> SUFFICES ASSUME NEW m \in Messages, row'[m] = "OPENED"
               PROVE  \/ \E q \in Processes : Applies(proc'[q]) /\ proc'[q].msg = m
                      \/ \E other \in Messages : text[other] > 0
                      \/ m \in unapplied'
                      \/ count'.failures > 0
    BY DEF OpenedIsAccounted, IsApplying, Applies, Inserted, Around
  <2>1. CASE Applies(x) /\ x.msg = m
    BY <1>1, <2>1
  <2>2. CASE row[m] = "OPENED"
    <3>1. \/ \E q \in Processes : Applies(proc[q]) /\ proc[q].msg = m
          \/ \E other \in Messages : text[other] > 0
          \/ m \in unapplied
          \/ count.failures > 0
      BY <2>2, ApplyingIsApplies DEF AccountIInv, OpenedIsAccounted
    <3>2. ASSUME NEW q \in Processes, Applies(proc[q]), proc[q].msg = m, q # p
          PROVE  Applies(proc'[q]) /\ proc'[q].msg = m
      BY <1>1, <3>2
    <3>3. CASE Applies(proc[p]) /\ proc[p].msg = m
      BY <1>1, <3>3
    <3> QED
      BY <3>1, <3>2, <3>3 DEF Around
  <2> QED
    BY <2>1, <2>2
<1>7. ~ staffed' => count'.turnovers > 0
  BY DEF AccountIInv, Around
<1> QED
  BY <1>3, <1>5, <1>6, <1>7 DEF AccountIInv

\* A poll or job that has no reply in its hands, before and after.
LEMMA QuietMoves ==
    ASSUME MailIInv, AccountIInv, RowsStay, NEW p \in Processes, NEW x,
           UNCHANGED <<staffed, kind, text, unapplied, count>>,
           proc' = [proc EXCEPT ![p] = x], ~ Applies(proc[p]),
           x.pc \notin {"create"} \cup Inserted,
           \A m \in Messages : row'[m] = "OPENED" => row[m] = "OPENED"
    PROVE  AccountIInv'
<1>1. TakesUp(p, x)
  BY DEF TakesUp, Applies, UploaderOK, Inserted
<1>2. Around /\ HandsOver(p, x)
  BY DEF Around, HandsOver
<1> QED
  BY <1>1, <1>2, AccountMoves

\* What a process goes on to after the message at hand.
Following(p) == IF p \in Pollers THEN Onwards(proc[p].todo) ELSE Idle

LEMMA DoneIs ==
    ASSUME MailIInv, NEW p \in Processes, IsDone(p)
    PROVE  /\ Following(p).pc \in {"idle", "look"}
           /\ proc' = [proc EXCEPT ![p] = Following(p)]
<1>1. proc[p].todo \in SUBSET Messages
  BY TypesSplit DEF MailIInv, Process
<1>2. Following(p).pc \in {"idle", "look"}
  BY <1>1, IdleTyped, OnwardsTyped DEF Following
<1> QED
  BY <1>2 DEF IsDone, Become, Following

LEMMA QuietDone ==
    ASSUME MailIInv, AccountIInv, RowsStay, NEW p \in Processes, IsDone(p),
           UNCHANGED <<staffed, kind, text, unapplied, count>>, ~ Applies(proc[p]),
           \A m \in Messages : row'[m] = "OPENED" => row[m] = "OPENED"
    PROVE  AccountIInv'
<1>1. PICK x : x = Following(p) /\ x.pc \in {"idle", "look"} /\ proc' = [proc EXCEPT ![p] = x]
  BY DoneIs
<1>2. x.pc \notin {"create"} \cup Inserted
  BY <1>1 DEF Inserted
<1> QED
  BY <1>1, <1>2, QuietMoves

LEMMA AccountOutside ==
    ASSUME MailIInv, AccountIInv, Arrive \/ CloseOrReopen \/ AdministratorsChange
    PROVE  AccountIInv'
<1>1. UNCHANGED <<row, text, unapplied, proc, kind>> /\ count'.failures = count.failures
  BY TypesSplit DEF Arrive, CloseOrReopen, AdministratorsChange, outside, ticket, queue,
                    Count, MailIInv, StoreTypes, Counters
<1>2. /\ count.turnovers > 0 => count'.turnovers > 0
      /\ ~ staffed' => ~ staffed \/ count'.turnovers > 0
  <2>1. count \in Counters
    BY TypesSplit DEF MailIInv, StoreTypes
  <2>2. CASE Arrive
    BY <2>2 DEF Arrive
  <2>3. CASE CloseOrReopen
    <3>1. count' = [count EXCEPT !["closings"] = @ + 1] /\ staffed' = staffed
      BY <2>3 DEF CloseOrReopen, Count, outside
    <3> QED
      BY <2>1, <3>1 DEF Counters
  <2>4. CASE AdministratorsChange
    <3>1. count' = [count EXCEPT !["turnovers"] = @ + 1]
      BY <2>4 DEF AdministratorsChange, Count
    <3>2. count'.turnovers > 0
      BY <2>1, <3>1 DEF Counters
    <3> QED
      BY <3>2
  <2> QED
    BY <2>2, <2>3, <2>4
<1>3. \A m : Excusable(m) => Excusable(m)'
  BY <1>1, <1>2 DEF Excusable
<1>4. UnappliedOK'
  <2>1. \A m : Settled(m) => Settled(m)'
    BY <1>1 DEF Settled, Applies
  <2> QED
    BY <1>1, <1>3, <2>1 DEF AccountIInv, UnappliedOK
<1>5. ASSUME NEW q \in Processes PROVE UploaderOK(proc[q])'
  BY <1>1, <1>3 DEF AccountIInv, UploaderOK
<1>6. OpenedIsAccounted'
  BY <1>1 DEF AccountIInv, OpenedIsAccounted, IsApplying
<1> QED
  BY <1>2, <1>4, <1>5, <1>6 DEF AccountIInv

LEMMA AccountPolls ==
    ASSUME MailIInv, AccountIInv, NEW p \in Processes,
           BeginPoll(p) \/ Look(p) \/ Enqueue(p) \/ TakeJob(p)
    PROVE  AccountIInv'
<1>1. /\ proc \in [Processes -> Process] /\ proc[p].todo \in SUBSET Messages
      /\ ~ Applies(proc[p])
  BY TypesSplit DEF MailIInv, Process, BeginPoll, Look, Enqueue, TakeJob, At, Applies, Inserted
<1>2. UNCHANGED <<staffed, kind, row, text, unapplied, count>> /\ RowsStay
  BY DEF BeginPoll, Look, Enqueue, TakeJob, outside, ticket, RowsStay
<1>3. ASSUME NEW x, proc' = [proc EXCEPT ![p] = x], x.pc \notin {"create"} \cup Inserted
      PROVE  AccountIInv'
  BY <1>1, <1>2, <1>3, QuietMoves
<1>4. CASE BeginPoll(p)
  <2>1. PICK x : x = [Idle EXCEPT !.pc = "look", !.todo = Listed]
    OBVIOUS
  <2>2. x.pc = "look" /\ proc' = [proc EXCEPT ![p] = x]
    BY <1>4, <2>1 DEF BeginPoll, Become, Idle
  <2> QED
    BY <1>3, <2>2 DEF Inserted
<1>5. CASE Look(p)
  <2>1. PICK m \in proc[p].todo :
           LET rest == [proc[p] EXCEPT !.todo = @ \ {m}, !.msg = m]
           IN  Become(p, IF row[m] = "none"
                         THEN [rest EXCEPT !.pc = IF kind[m] = "blocked" THEN "ignore"
                                                  ELSE IF redis THEN "enqueue"
                                                  ELSE "resolve"]
                         ELSE Onwards(rest.todo))
    BY <1>5 DEF Look
  <2>2. PICK rest : rest = [proc[p] EXCEPT !.todo = @ \ {m}, !.msg = m]
    OBVIOUS
  <2>3. rest \in Process /\ rest.todo \in SUBSET Messages
    BY <1>1, <2>2 DEF Process
  <2>4. CASE row[m] = "none"
    <3>1. PICK label \in {"ignore", "enqueue", "resolve"} :
             proc' = [proc EXCEPT ![p] = [rest EXCEPT !.pc = label]]
      <4>1. proc' = [proc EXCEPT ![p] =
                [rest EXCEPT !.pc = IF kind[m] = "blocked" THEN "ignore"
                                    ELSE IF redis THEN "enqueue" ELSE "resolve"]]
        BY <2>1, <2>2, <2>4 DEF Become
      <4> QED
        BY <4>1
    <3>2. PICK x : x = [rest EXCEPT !.pc = label]
      OBVIOUS
    <3>3. x.pc = label
      BY <2>3, <3>2 DEF Process
    <3> QED
      BY <1>3, <3>1, <3>2, <3>3 DEF Inserted
  <2>5. CASE row[m] # "none"
    <3>1. PICK x : x = Onwards(rest.todo)
      OBVIOUS
    <3>2. x.pc \in {"idle", "look"}
      BY <2>3, <3>1, OnwardsTyped
    <3>3. proc' = [proc EXCEPT ![p] = x]
      BY <2>1, <2>2, <2>5, <3>1 DEF Become
    <3> QED
      BY <1>3, <3>2, <3>3 DEF Inserted
  <2> QED
    BY <2>4, <2>5
<1>6. CASE Enqueue(p)
  <2>1. PICK x : x = Onwards(proc[p].todo)
    OBVIOUS
  <2>2. x.pc \in {"idle", "look"} /\ proc' = [proc EXCEPT ![p] = x]
    BY <1>1, <1>6, <2>1, OnwardsTyped DEF Enqueue, Become
  <2> QED
    BY <1>3, <2>2 DEF Inserted
<1>7. CASE TakeJob(p)
  <2>1. PICK m \in Messages : Become(p, [Idle EXCEPT !.pc = "check", !.msg = m])
    BY <1>7 DEF TakeJob
  <2>2. PICK x : x = [Idle EXCEPT !.pc = "check", !.msg = m]
    OBVIOUS
  <2>3. x.pc = "check" /\ proc' = [proc EXCEPT ![p] = x]
    BY <2>1, <2>2 DEF Become, Idle
  <2> QED
    BY <1>3, <2>3 DEF Inserted
<1> QED
  BY <1>4, <1>5, <1>6, <1>7

LEMMA AccountBefore ==
    ASSUME MailIInv, AccountIInv, NEW p \in Processes, Check(p) \/ Ignore(p)
    PROVE  AccountIInv'
<1>1. /\ StoreTypes /\ proc \in [Processes -> Process] /\ ProcessTyped(proc[p])
      /\ ~ Applies(proc[p]) /\ proc[p].msg \in Messages
  BY TypesSplit DEF MailIInv, Check, Ignore, At, Applies, Inserted, ProcessTyped
<1>2. UNCHANGED <<staffed, kind, text, unapplied, count>>
  BY DEF Check, Ignore, outside, ticket
<1>3. CASE Check(p)
  <2>1. UNCHANGED row /\ RowsStay
    BY <1>3 DEF Check, RowsStay
  <2>2. CASE IsDone(p)
    BY <1>1, <1>2, <2>1, <2>2, QuietDone
  <2>3. CASE ~ IsDone(p)
    <3>1. PICK x : x = [proc[p] EXCEPT !.pc = "resolve"]
      OBVIOUS
    <3>2. x.pc = "resolve" /\ proc' = [proc EXCEPT ![p] = x]
      BY <1>1, <1>3, <2>3, <3>1 DEF Check, Goto, Become, Process
    <3> QED
      BY <1>1, <1>2, <2>1, <3>2, QuietMoves DEF Inserted
  <2> QED
    BY <2>2, <2>3
<1>4. CASE Ignore(p)
  <2>1. RowsStay /\ IsDone(p) /\ \A m \in Messages : row'[m] = "OPENED" => row[m] = "OPENED"
    BY <1>1, <1>4 DEF Ignore, StoreTypes, RowsStay
  <2> QED
    BY <1>1, <1>2, <2>1, QuietDone
<1> QED
  BY <1>3, <1>4

\* With an administrator or a sender who is a user there is somebody to write as.
LEMMA AccountResolve ==
    ASSUME MailIInv, AccountIInv, NEW p \in Processes, Resolve(p)
    PROVE  AccountIInv'
<1>1. /\ StoreTypes /\ proc \in [Processes -> Process] /\ ProcessTyped(proc[p])
      /\ ~ Applies(proc[p]) /\ proc[p].msg \in Messages
  BY TypesSplit DEF MailIInv, Resolve, At, Applies, Inserted, ProcessTyped
<1>2. UNCHANGED <<staffed, kind, row, text, unapplied, count>> /\ RowsStay
  BY DEF Resolve, outside, ticket, RowsStay
<1>3. CASE IsDone(p)
  BY <1>1, <1>2, <1>3, QuietDone
<1>4. CASE ~ IsDone(p)
  <2>1. PICK u, b, label :
           /\ u = (staffed \/ kind[proc[p].msg] = "reply")
           /\ b = (kind[proc[p].msg] \in Replies /\ ~ closed)
           /\ label = IF kind[proc[p].msg] = "blocked" THEN "ignore" ELSE "create"
    OBVIOUS
  <2>2. PICK x : x = [proc[p] EXCEPT !.pc = label, !.uploader = u, !.applies = b]
    OBVIOUS
  <2>3. proc' = [proc EXCEPT ![p] = x]
    BY <1>4, <2>1, <2>2 DEF Resolve, Become
  <2>4. /\ x.pc \in {"ignore", "create"} /\ x.uploader = u /\ x.applies = b
        /\ x.msg = proc[p].msg
    BY <1>1, <2>1, <2>2 DEF ProcessTyped, Process
  <2>5. UploaderOK(x)
    <3> SUFFICES ASSUME b, ~ u PROVE Excusable(x.msg)
      BY <2>4 DEF UploaderOK
    <3> QED
      BY <2>1, <2>4 DEF Excusable, Replies, AccountIInv
  <2>6. ~ Applies(x) /\ x.pc # "writeText"
    BY <2>4 DEF Applies, Inserted
  <2>7. TakesUp(p, x) /\ HandsOver(p, x) /\ Around
    BY <1>1, <1>2, <2>5, <2>6 DEF TakesUp, HandsOver, Around
  <2> QED
    BY <1>2, <2>3, <2>7, AccountMoves
<1> QED
  BY <1>3, <1>4

LEMMA AccountCreate ==
    ASSUME MailIInv, AccountIInv, NEW p \in Processes, Create(p)
    PROVE  AccountIInv'
<1> DEFINE m == proc[p].msg
<1>1. /\ StoreTypes /\ proc \in [Processes -> Process] /\ ProcessTyped(proc[p])
      /\ proc[p].pc = "create" /\ ~ Applies(proc[p]) /\ m \in Messages
  BY TypesSplit DEF MailIInv, Create, At, Applies, Inserted, ProcessTyped
<1>2. UNCHANGED <<staffed, kind, text, unapplied, count>>
  BY DEF Create, outside, ticket
<1>3. CASE row[m] # "none"
  <2>1. IsDone(p) /\ UNCHANGED row /\ RowsStay
    BY <1>3 DEF Create, AfterDuplicate, RowsStay
  <2> QED
    BY <1>1, <1>2, <2>1, QuietDone
<1>4. CASE row[m] = "none"
  <2>1. PICK x : x = [proc[p] EXCEPT !.pc = "attach"]
    OBVIOUS
  <2>2. /\ x.pc = "attach" /\ x.msg = m
        /\ x.applies = proc[p].applies /\ x.uploader = proc[p].uploader
    BY <1>1, <2>1 DEF ProcessTyped, Process
  <2>3. /\ proc' = [proc EXCEPT ![p] = x]
        /\ row' = [row EXCEPT ![m] = IF proc[p].applies THEN "OPENED" ELSE "PENDING"]
    BY <1>4, <2>1 DEF Create, Goto, Become
  <2>4. RowsStay
    BY <1>1, <1>4, <2>3 DEF RowsStay, StoreTypes
  <2>5. UploaderOK(x) /\ (Applies(x) <=> proc[p].applies)
    BY <1>1, <2>2 DEF UploaderOK, Applies, Inserted, AccountIInv
  <2>6. \A n \in Messages :
            row'[n] = "OPENED" => row[n] = "OPENED" \/ (Applies(x) /\ x.msg = n)
    BY <1>1, <2>2, <2>3, <2>5 DEF StoreTypes
  <2>7. TakesUp(p, x) /\ HandsOver(p, x) /\ Around
    BY <1>1, <1>2, <1>4, <2>2, <2>5, <2>6 DEF TakesUp, HandsOver, Around
  <2> QED
    BY <2>3, <2>4, <2>7, AccountMoves
<1> QED
  BY <1>3, <1>4

\* A reply that nobody can write is left to the log.
LEMMA AccountAttachAndRead ==
    ASSUME MailIInv, AccountIInv, NEW p \in Processes, Attach(p) \/ ReadText(p)
    PROVE  AccountIInv'
<1> DEFINE m == proc[p].msg
<1>1. /\ StoreTypes /\ proc \in [Processes -> Process] /\ ProcessTyped(proc[p])
      /\ ProcessOK(proc[p]) /\ proc[p].pc \in {"attach", "readText"} /\ m \in Messages
  BY TypesSplit DEF MailIInv, Attach, ReadText, At, ProcessTyped
<1>2. UNCHANGED <<staffed, kind, row, text, count>> /\ RowsStay /\ Around
  BY DEF Attach, ReadText, outside, ticket, RowsStay, Around
<1>3. Applies(proc[p]) <=> proc[p].applies
  BY <1>1 DEF Applies, Inserted
<1>4. CASE Attach(p) /\ ~ proc[p].applies
  <2>1. IsDone(p) /\ UNCHANGED unapplied
    BY <1>4 DEF Attach, AfterAttachments, ticket
  <2> QED
    BY <1>2, <1>3, <1>4, <2>1, QuietDone
<1>5. CASE ReadText(p) /\ ~ proc[p].uploader
  <2>1. PICK x : x = Following(p)
    OBVIOUS
  <2>2. IsDone(p) /\ unapplied' = unapplied \cup {m} /\ proc[p].applies
    BY <1>1, <1>5 DEF ReadText, ProcessOK, At
  <2>3. proc' = [proc EXCEPT ![p] = x] /\ x.pc \in {"idle", "look"}
    BY <2>1, <2>2, DoneIs
  <2>4. ~ Applies(x) /\ UploaderOK(x) /\ x.pc # "writeText"
    BY <2>3 DEF Applies, UploaderOK, Inserted
  <2>5. TakesUp(p, x)
    BY <1>2, <2>4 DEF TakesUp
  <2>6. HandsOver(p, x)
    BY <1>3, <1>5, <2>2, <2>4 DEF HandsOver
  <2> QED
    BY <1>2, <2>3, <2>5, <2>6, AccountMoves
<1>6. CASE (Attach(p) /\ proc[p].applies) \/ (ReadText(p) /\ proc[p].uploader)
  <2>1. PICK x : /\ \/ x = [proc[p] EXCEPT !.pc = "readText"]
                    \/ x = [proc[p] EXCEPT !.pc = "writeText", !.read = text]
                 /\ proc' = [proc EXCEPT ![p] = x]
                 /\ proc[p].applies /\ UNCHANGED unapplied
    <3>1. CASE Attach(p)
      BY <1>1, <1>6, <3>1 DEF Attach, AfterAttachments, Goto, Become, ticket, ReadText, At
    <3>2. CASE ReadText(p)
      BY <1>1, <1>6, <3>2 DEF ReadText, At, Become, ProcessOK, Attach
    <3> QED
      BY <1>6, <3>1, <3>2
  <2>2. /\ x.pc \in {"readText", "writeText"} /\ x.msg = m /\ x.applies
        /\ x.uploader = proc[p].uploader /\ (x.pc = "writeText" => x.read = text)
    BY <1>1, <2>1 DEF ProcessTyped, Process
  <2>3. Applies(proc[p]) /\ Applies(x) /\ UploaderOK(x)
    BY <1>1, <1>3, <2>1, <2>2 DEF Applies, UploaderOK, Inserted, AccountIInv
  <2>4. TakesUp(p, x) /\ HandsOver(p, x)
    BY <1>2, <2>1, <2>2, <2>3 DEF TakesUp, HandsOver
  <2> QED
    BY <1>2, <2>1, <2>4, AccountMoves
<1> QED
  BY <1>4, <1>5, <1>6

LEMMA AccountEnd ==
    ASSUME MailIInv, AccountIInv, NEW p \in Processes, Throw(p) \/ Crash(p)
    PROVE  AccountIInv'
<1>1. UNCHANGED <<staffed, kind, row, text, unapplied>> /\ proc' = [proc EXCEPT ![p] = Idle]
  BY DEF Throw, Crash, outside, ticket, Become
<1>2. count \in Counters /\ count' = [count EXCEPT !.failures = @ + 1]
  BY TypesSplit DEF MailIInv, StoreTypes, Throw, Crash, Count
<1>3. count'.failures > 0 /\ Around /\ RowsStay
  BY <1>1, <1>2 DEF Counters, Around, RowsStay
<1>4. PICK x : x = Idle /\ x.pc = "idle"
  BY IdleTyped
<1>5. ~ Applies(x) /\ UploaderOK(x) /\ x.pc # "writeText"
  BY <1>4 DEF Applies, UploaderOK, Inserted
<1>6. TakesUp(p, x) /\ HandsOver(p, x)
  BY <1>1, <1>3, <1>5 DEF TakesUp, HandsOver
<1> QED
  BY <1>1, <1>3, <1>4, <1>6, AccountMoves

\* What is written holds the reply; one the log warns of was not in what was read.
LEMMA AccountWrite ==
    ASSUME MailIInv, AccountIInv, MailIInv', NEW p \in Processes, WriteText(p)
    PROVE  AccountIInv'
<1>1. /\ proc \in [Processes -> Process] /\ ProcessTyped(proc[p]) /\ ProcessOK(proc[p])
      /\ proc[p].pc = "writeText" /\ unapplied \subseteq Messages
  BY TypesSplit DEF MailIInv, StoreTypes, WriteText, At
<1>2. PICK m, read, x : m = proc[p].msg /\ read = proc[p].read /\ x = Following(p)
  OBVIOUS
<1>3. /\ m \in Messages /\ read \in Texts /\ Applies(proc[p])
      /\ text' = [read EXCEPT ![m] = read[m] + 1] /\ IsDone(p)
      /\ UNCHANGED <<staffed, kind, row, unapplied, count>>
  BY <1>1, <1>2 DEF ProcessTyped, ProcessOK, Applies, Inserted, WriteText, outside
<1>4. /\ x.pc \in {"idle", "look"}
      /\ \A q \in Processes : proc'[q] = IF q = p THEN x ELSE proc[q]
  BY <1>1, <1>2, <1>3, DoneIs
<1>5. ~ Applies(x) /\ UploaderOK(x) /\ x.pc # "writeText"
  BY <1>4 DEF Applies, UploaderOK, Inserted
<1>6. ASSUME NEW n \in unapplied
      PROVE  /\ Excusable(n)' /\ Settled(n)' /\ text'[n] = 0
             /\ \A q \in Processes : proc'[q].pc = "writeText" => proc'[q].read[n] = 0
  <2>1. /\ Excusable(n) /\ Settled(n) /\ n \in Messages
        /\ \A q \in Processes : proc[q].pc = "writeText" => proc[q].read[n] = 0
    BY <1>1 DEF AccountIInv, UnappliedOK
  <2>2. n # m /\ read[n] = 0
    BY <1>1, <1>2, <1>3, <2>1 DEF Settled
  <2>3. text'[n] = 0
    BY <1>3, <2>1, <2>2 DEF Texts
  <2>4. row'[n] = "OPENED" /\ \A q \in Processes : Applies(proc'[q]) => proc'[q].msg # n
    BY <1>3, <1>4, <1>5, <2>1 DEF Settled
  <2>5. Settled(n)'
    BY <2>4 DEF Settled, Applies
  <2>6. \A q \in Processes : proc'[q].pc = "writeText" => proc'[q].read[n] = 0
    BY <1>4, <1>5, <2>1
  <2> QED
    BY <1>3, <2>1, <2>3, <2>5, <2>6 DEF Excusable
<1>7. UnappliedOK'
  BY <1>3, <1>6 DEF UnappliedOK
<1>8. ASSUME NEW q \in Processes PROVE UploaderOK(proc[q])'
  <2>1. UploaderOK(proc'[q])
    BY <1>4, <1>5 DEF AccountIInv
  <2> QED
    BY <1>3, <2>1 DEF UploaderOK, Excusable
<1>9. OpenedIsAccounted'
  <2>1. text'[m] > 0
    BY <1>3 DEF Texts
  <2> QED
    BY <1>3, <2>1 DEF OpenedIsAccounted
<1> QED
  BY <1>3, <1>7, <1>8, <1>9 DEF AccountIInv

-----------------------------------------------------------------------------
LEMMA MailInit == Init => MailIInv
<1> SUFFICES ASSUME Init PROVE MailIInv
  OBVIOUS
<1>1. StoreTypes
  BY MailboxesAssumption DEF Init, StoreTypes, Texts, RowStates, JobStates, Counters
<1>2. \A p \in Processes : proc[p] = Idle
  BY DEF Init
<1>3. TypeOK
  BY <1>1, <1>2, IdleTyped, TypesSplit DEF Init, ProcessTyped
<1>4. TextOK(text) /\ CompletedIsRecorded
  BY DEF Init, TextOK, Texts, CompletedIsRecorded
<1> QED
  BY <1>2, <1>3, <1>4, IdleTyped DEF MailIInv, OneApplies, ProcessOK, Applies, Inserted

LEMMA MailNext == MailIInv /\ [Next]_vars => MailIInv'
<1> SUFFICES ASSUME MailIInv, [Next]_vars PROVE MailIInv'
  OBVIOUS
<1>1. CASE Arrive \/ CloseOrReopen \/ AdministratorsChange
  BY <1>1, OutsideSteps
<1>2. ASSUME NEW p \in Processes,
             Ingest(p) \/ BeginPoll(p) \/ TakeJob(p) \/ Throw(p) \/ Crash(p)
      PROVE  MailIInv'
  BY <1>2, PollSteps, TakeJobStep, CheckStep, IgnoreStep, ResolveStep, CreateStep,
     AttachAndReadSteps, WriteTextStep, EndSteps DEF Ingest
<1>3. CASE UNCHANGED vars
  BY <1>3 DEF vars, MailIInv, TypeOK, TextOK, OneApplies, ProcessOK, Settled, Applies,
              CompletedIsRecorded
<1> QED
  BY <1>1, <1>2, <1>3 DEF Next

LEMMA AccountInit == Init => AccountIInv
<1> SUFFICES ASSUME Init PROVE AccountIInv
  OBVIOUS
<1>1. \A p \in Processes : proc[p].pc = "idle"
  BY IdleTyped DEF Init
<1>2. \A p \in Processes : UploaderOK(proc[p])
  BY <1>1 DEF UploaderOK, Inserted
<1>3. UnappliedOK /\ OpenedIsAccounted
  BY DEF Init, UnappliedOK, OpenedIsAccounted
<1> QED
  BY <1>2, <1>3 DEF Init, AccountIInv

LEMMA AccountNext == MailIInv /\ MailIInv' /\ AccountIInv /\ [Next]_vars => AccountIInv'
<1> SUFFICES ASSUME MailIInv, MailIInv', AccountIInv, [Next]_vars PROVE AccountIInv'
  OBVIOUS
<1>1. CASE Arrive \/ CloseOrReopen \/ AdministratorsChange
  BY <1>1, AccountOutside
<1>2. ASSUME NEW p \in Processes,
             Ingest(p) \/ BeginPoll(p) \/ TakeJob(p) \/ Throw(p) \/ Crash(p)
      PROVE  AccountIInv'
  BY <1>2, AccountPolls, AccountBefore, AccountResolve, AccountCreate, AccountAttachAndRead,
     AccountWrite, AccountEnd DEF Ingest
<1>3. CASE UNCHANGED vars
  BY <1>3 DEF vars, AccountIInv, UploaderOK, Excusable, UnappliedOK, Settled, Applies,
              OpenedIsAccounted, IsApplying
<1> QED
  BY <1>1, <1>2, <1>3 DEF Next

\* The types of the mail, its jobs and the polls and jobs in flight.
THEOREM MailTypes == Spec => []TypeOK
<1>1. MailIInv => TypeOK
  BY DEF MailIInv
<1> QED
  BY <1>1, MailInit, MailNext, PTL DEF Spec

\* A reply is written to the ticket at most once, by whoever inserted its pre-ticket;
\* no job of a message with a sender is completed before the portal has a row of it;
\* and a reply recorded as OPENED is in the hands of who inserted it, or a
\* description was written with it or over it, or the log warns of it, unless there
\* was an exception or a death.  The log warns only of replies of somebody the portal
\* does not know, after the administrators changed, and of none that comes into the
\* description (createPreTicketFromMessage, applyEmailToOpenTicket, ingestGraphMessage).
THEOREM MailIsSafe == Spec => []MailIsNotRepeatedOrLost
<1>1. MailIInv => AppliedOnce /\ CompletedIsRecorded
  <2>1. \A n \in Nat : n <= 1 <=> n = 0 \/ n = 1
    OBVIOUS
  <2> QED
    BY <2>1 DEF MailIInv, AppliedOnce, TextOK, Settled, Texts
<1>2. AccountIInv => OpenedIsAccounted /\ UnappliedIsExcused
  BY DEF AccountIInv, UnappliedOK, Excusable, Settled, UnappliedIsExcused
<1>3. MailIInv /\ AccountIInv => MailIsNotRepeatedOrLost
  BY <1>1, <1>2 DEF MailIsNotRepeatedOrLost
<1> QED
  BY <1>3, MailInit, MailNext, AccountInit, AccountNext, PTL DEF Spec
================================================================================
