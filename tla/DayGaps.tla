------------------------------- MODULE DayGaps -------------------------------
(***************************************************************************)
(* The gaps of a day of a collaborator: the stretches without an           *)
(* appointment that are shown as lunch or raise an alert, and the          *)
(* justifications that explain them.  Translated from                      *)
(* rendimento-day-insights.ts and rendimento.service.ts (createGap-        *)
(* Justification to buildDaySummary).                                      *)
(*                                                                         *)
(* Nothing of this is stored: every page recomputes the gaps from the      *)
(* appointments, which go on changing after a justification was made, in   *)
(* seven passes over a list that is sorted by the hour of the clock.  The  *)
(* appointments and the justifications are the state, SummaryGaps is what  *)
(* a page shows of them.                                                   *)
(*                                                                         *)
(* A claim is a justification: an ALERT explains a gap, a VOLUNTARY one    *)
(* counts as work.  The unit of time is the instance's; a time of day is   *)
(* a member of Clock, as HH:MM is, and what passes midnight is told from   *)
(* the order of its two times, as in the code.                             *)
(***************************************************************************)
EXTENDS WorkedMinutes

CONSTANTS
    AlertMinutes,        \* GAP_ALERT_MINUTES
    DailyWorkMinutes,    \* of the collaborator's schedule
    LunchMinutes,
    DayRows,             \* appointments of an instance
    ClaimPeriods,        \* periods asked for: pairs of times
    MaxClaims,           \* bound: justifications of the day
    MaxItems             \* bound: appointments and justifications of the day

ASSUME ScheduleAssumption ==
    /\ {AlertMinutes, DailyWorkMinutes, LunchMinutes} \subseteq Nat \ {0}
    /\ LunchMinutes < DailyWorkMinutes

VARIABLES
    entries,     \* the appointments of the day
    claims,      \* the justifications of the day, in the order they were made
    isToday      \* the day has not ended

gapVars == <<entries, claims, isToday>>

Claim == [from: 0..(MinutesPerDay - 1), to: 0..(MinutesPerDay - 1), gapType: {"idle", "lunch"},
          kind: {"ALERT", "VOLUNTARY"}, status: {"PENDING", "APPROVED", "REJECTED"}]

\* A gap; claim is the justification it is shown with, 0 for none.
NewGap(type, from, to) ==
    [type |-> type, from |-> from % MinutesPerDay, to |-> to % MinutesPerDay,
     minutes |-> to - from, claim |-> 0]

Least(a, b) == IF a < b THEN a ELSE b
Most(a, b) == IF a > b THEN a ELSE b
Overlap(a, b) == Most(a.from, b.from) < Least(a.to, b.to)

\* A stable sort by fromTime.
SortByTime(gaps) ==
    LET order == SortSeq([i \in 1..Len(gaps) |-> i],
                         LAMBDA i, j : \/ gaps[i].from < gaps[j].from
                                       \/ gaps[i].from = gaps[j].from /\ i < j)
    IN [i \in 1..Len(gaps) |-> gaps[order[i]]]

-----------------------------------------------------------------------------
\* analyzeRendimentoDay: the gaps between and after the appointments.

Regular == {e \in entries : e.kind = "NORMAL"}

\* entryToInterval.  To an end before the start the duration is added once more,
\* so a short appointment that passes midnight ends before it starts.
EndOf(e) ==
    IF e.to = NoTime THEN e.from + RawMinutes(e)
    ELSE IF e.to <= e.from
         THEN e.to + (IF RawMinutes(e) > 0 THEN RawMinutes(e) ELSE MinutesPerDay)
         ELSE e.to

Intervals ==
    {[from |-> e.from, to |-> EndOf(e)] : e \in {r \in Regular : r.from # NoTime /\ EndOf(r) > r.from}}

\* mergeOverlappingIntervals, in the order of their starts.
MergeInto(merged, i) ==
    IF merged # << >> /\ i.from <= Last(merged).to
    THEN Front(merged) \o <<[Last(merged) EXCEPT !.to = Most(@, i.to)]>>
    ELSE Append(merged, i)
Blocks ==
    FoldLeft(MergeInto, << >>,
             SetToSortSeq(Intervals, LAMBDA i, j : i.from < j.from \/ (i.from = j.from /\ i.to < j.to)))

RegularMinutes == FoldLeft(LAMBDA sum, b : sum + (b.to - b.from), 0, Blocks)

\* scheduleEndMinutes; an appointment without a start is sorted first.
ScheduleEnd ==
    IF Regular = {} \/ \E e \in Regular : e.from = NoTime THEN NoTime
    ELSE Min({e.from : e \in Regular}) + DailyWorkMinutes + LunchMinutes

\* addIdleGap: strictly longer than an hour, and inside the schedule.
AddIdleGap(gaps, from, to) ==
    LET end == IF ScheduleEnd = NoTime THEN to ELSE Least(to, ScheduleEnd) IN
    IF (ScheduleEnd # NoTime => from < ScheduleEnd) /\ end - from > AlertMinutes
    THEN Append(gaps, NewGap("idle", from, end)) ELSE gaps

GapsBetween ==
    LET blocks == Blocks IN
    FoldLeftDomain(LAMBDA gaps, i : IF i = 1 THEN gaps
                                    ELSE AddIdleGap(gaps, blocks[i - 1].to, blocks[i].from),
                   << >>, blocks)

\* pickLunchGap: the gap nearest to the length of a lunch, then the longest,
\* then the first.
Distance(gap) == IF gap.minutes > LunchMinutes THEN gap.minutes - LunchMinutes
                 ELSE LunchMinutes - gap.minutes
LunchBefore(a, b) ==
    \/ Distance(a) < Distance(b)
    \/ Distance(a) = Distance(b) /\ a.minutes > b.minutes
    \/ Distance(a) = Distance(b) /\ a.minutes = b.minutes /\ a.from <= b.from
LunchIndex(gaps) == CHOOSE i \in DOMAIN gaps : \A j \in DOMAIN gaps : LunchBefore(gaps[i], gaps[j])

\* splitGapAtIndexIntoLunchAndIdle.
SplitLunch(gaps, i) ==
    LET gap == gaps[i]
        lunchEnd == gap.from + LunchMinutes
        before == SubSeq(gaps, 1, i - 1) \o <<NewGap("lunch", gap.from, lunchEnd)>>
    IN IF gap.to - gap.from < LunchMinutes THEN gaps
       ELSE (IF gap.to - lunchEnd > AlertMinutes THEN AddIdleGap(before, lunchEnd, gap.to) ELSE before)
                \o SubSeq(gaps, i + 1, Len(gaps))

\* One gap is forgiven as lunch; the end of a day of one block gets a lunch of
\* its own.  splitFirstLongIdleGapIntoLunch finds none that pickLunchGap missed.
WithLunch(gaps) ==
    LET i == LunchIndex(gaps)
        end == Last(Blocks).to
    IN CASE gaps # << >> /\ gaps[i].minutes > LunchMinutes -> SplitLunch(gaps, i)
         [] gaps # << >> /\ gaps[i].minutes <= LunchMinutes -> [gaps EXCEPT ![i].type = "lunch"]
         [] gaps = << >> /\ Len(Blocks) = 1 -> <<NewGap("lunch", end, end + LunchMinutes)>>
         [] OTHER -> << >>

\* The gap at the end: what is missing of the day's work, after the last
\* appointment and the last lunch.
\* Mutant: after the last appointment.
TailFrom_LastBlock(gaps) == Last(Blocks).to

TailFrom(gaps) ==
    Max({Last(Blocks).to} \cup {gaps[i].to : i \in {j \in DOMAIN gaps : gaps[j].type = "lunch"}})

WithTail(gaps) ==
    IF isToday \/ Intervals = {} THEN << >>
    ELSE AddIdleGap(gaps, TailFrom(gaps), TailFrom(gaps) + DailyWorkMinutes - RegularMinutes)

RawGaps == WithTail(WithLunch(GapsBetween))

-----------------------------------------------------------------------------
\* The justifications, as applyJustificationsToDay and its passes see them.

\* resolvePeriodSpanMinutes and resolveGapSpanMinutes: an end that is not after
\* the start is of the next day.
Period(c) == [from |-> c.from, to |-> IF c.to <= c.from THEN c.to + MinutesPerDay ELSE c.to]
Span(gap) == [from |-> gap.from, to |-> IF gap.to > gap.from THEN gap.to ELSE gap.from + gap.minutes]
PeriodMinutes(c) == Period(c).to - Period(c).from

\* listJustifications: by their start, the newest first.
ClaimOrder == SortSeq([n \in 1..Len(claims) |-> n],
                      LAMBDA m, n : \/ claims[m].from < claims[n].from
                                    \/ claims[m].from = claims[n].from /\ m > n)
Alerts == SelectSeq(ClaimOrder, LAMBDA n : claims[n].kind = "ALERT")
Active(n) == claims[n].status \in {"PENDING", "APPROVED"}
ActiveAlerts == SelectSeq(Alerts, Active)
ApprovedVoluntary ==
    SelectSeq(ClaimOrder, LAMBDA n : claims[n].kind = "VOLUNTARY" /\ claims[n].status = "APPROVED")

IsSet(gap) == gap.claim # 0
TooShort(gap) == gap.type = "idle" /\ gap.minutes <= AlertMinutes /\ ~IsSet(gap)
FilterSubThreshold(gaps) == SelectSeq(gaps, LAMBDA gap : ~TooShort(gap))

\* matchAlertJustificationToGap, splitGapWithAlertJustification: the first
\* justification that meets a gap takes what they share; one that is approved
\* gives it its type.
Part(gap, from, to) == IF to > from THEN <<NewGap(gap.type, from, to)>> ELSE << >>
SplitGap(gap, n) ==
    LET g == Span(gap)
        p == Period(claims[n])
        from == Most(g.from, p.from)
        to == Least(g.to, p.to)
        type == IF claims[n].status = "APPROVED" THEN claims[n].gapType ELSE gap.type
    IN Part(gap, g.from, from) \o <<[NewGap(type, from, to) EXCEPT !.claim = n]>> \o Part(gap, to, g.to)

MatchGap(acc, gap) ==
    LET meets(n) == n \notin acc.used /\ Overlap(Span(gap), Period(claims[n]))
        found == SelectSeq(Alerts, meets)
    IN IF found = << >> THEN [acc EXCEPT !.gaps = Append(@, gap)]
       ELSE [gaps |-> acc.gaps \o SplitGap(gap, found[1]), used |-> acc.used \cup {found[1]}]

\* gapFromJustificationRow.
GapOfClaim(n) ==
    [NewGap(claims[n].gapType, claims[n].from, Period(claims[n]).to) EXCEPT !.claim = n]

\* recoverMissingJustificationGaps; the orphans of applyJustificationsToDay are
\* added likewise.
Recover(gaps) ==
    LET missing == SelectSeq(Alerts, LAMBDA n : \A i \in DOMAIN gaps : gaps[i].claim # n)
    IN IF missing = << >> THEN gaps
       ELSE SortByTime(gaps \o [i \in 1..Len(missing) |-> GapOfClaim(missing[i])])

\* isUserClaimedLunchGap, demoteLunchGapToIdle.
ClaimedLunch(gap) == IsSet(gap) /\ claims[gap.claim].gapType = "lunch" /\ Active(gap.claim)
Demoted(gap) ==
    IF gap.minutes > AlertMinutes THEN <<[gap EXCEPT !.type = "idle"]>>
    ELSE IF IsSet(gap) THEN <<gap>> ELSE << >>

\* Every lunch but the one at keep becomes idle.
KeepOneLunch(gaps, keep) ==
    FlattenSeq([i \in 1..Len(gaps) |->
                   IF gaps[i].type = "lunch" /\ i # keep THEN Demoted(gaps[i]) ELSE <<gaps[i]>>])

\* What of a lunch is longer than a lunch.
CutLunch(gap) ==
    LET lunchEnd == gap.from + LunchMinutes IN
    IF gap.type # "lunch" \/ gap.minutes <= LunchMinutes \/ gap.to <= gap.from THEN <<gap>>
    ELSE <<[NewGap("lunch", gap.from, lunchEnd) EXCEPT !.claim = gap.claim]>>
            \o (IF gap.to - lunchEnd > AlertMinutes THEN <<NewGap("idle", lunchEnd, gap.to)>> ELSE << >>)

\* normalizeLunchGaps: a lunch the collaborator claims goes before the others.
KeepClaimedLunch(gaps) ==
    LET claimed == SelectInSeq(gaps, ClaimedLunch)
    IN IF claimed = 0 THEN gaps ELSE KeepOneLunch(gaps, claimed)
KeepFirstLunch(gaps) == KeepOneLunch(gaps, SelectInSeq(gaps, LAMBDA gap : gap.type = "lunch"))
CutLunches(gaps) == FlattenSeq([i \in 1..Len(gaps) |-> CutLunch(gaps[i])])
NormalizeLunch(gaps) ==
    FilterSubThreshold(SortByTime(CutLunches(KeepFirstLunch(KeepClaimedLunch(gaps)))))

\* subtractIntervalFromSegment, of one cut and of a list of cuts.
CutSegment(seg, cut) ==
    IF ~Overlap(seg, cut) THEN <<seg>>
    ELSE (IF cut.from > seg.from THEN <<[seg EXCEPT !.to = cut.from]>> ELSE << >>)
            \o (IF cut.to < seg.to THEN <<[seg EXCEPT !.from = cut.to]>> ELSE << >>)
CutAll(seg, cuts) ==
    FoldLeft(LAMBDA segs, n : FlattenSeq([i \in 1..Len(segs) |-> CutSegment(segs[i], Period(claims[n]))]),
             <<seg>>, cuts)
Remains(gap, cuts) ==
    LET segs == CutAll(Span(gap), cuts)
    IN [i \in 1..Len(segs) |-> NewGap("idle", segs[i].from, segs[i].to)]

\* trimIdleGapsAroundApprovedVoluntary, subtractAlertJustificationsFrom-
\* UnjustifiedIdleGaps.  Neither touches a gap that has a justification.
CutIdleGaps(gaps, cuts) ==
    IF cuts = << >> THEN gaps
    ELSE FilterSubThreshold(SortByTime(FlattenSeq(
            [i \in 1..Len(gaps) |-> IF gaps[i].type = "idle" /\ ~IsSet(gaps[i])
                                    THEN Remains(gaps[i], cuts) ELSE <<gaps[i]>>])))

\* applyJustificationsToDay.
MatchGaps(gaps) == FoldLeft(MatchGap, [gaps |-> << >>, used |-> {}], gaps).gaps
WithClaims(gaps) == NormalizeLunch(SortByTime(Recover(MatchGaps(gaps))))
JustifiedGaps ==
    CutIdleGaps(Recover(CutIdleGaps(WithClaims(RawGaps), ApprovedVoluntary)), ActiveAlerts)

-----------------------------------------------------------------------------
\* applyApprovedVoluntaryCreditToTailGap: approved voluntary minutes count as
\* work and the gap at the end of the day is made anew.

ClaimedMinutes(list) == FoldLeft(LAMBDA sum, n : sum + PeriodMinutes(claims[n]), 0, list)

\* computeTailGapStartMinutes, on the clock.
TailGapStart(gaps) ==
    Max({0} \cup {e.to : e \in {r \in Regular : r.to # NoTime}}
            \cup {Span(gaps[i]).to : i \in {j \in DOMAIN gaps : gaps[j].type = "lunch"}})

\* The gap of the tail is dropped, unless a pending justification explains it.
AtTail(gap, tail) ==
    /\ gap.type = "idle" /\ gap.from = tail
    /\ ~(IsSet(gap) /\ claims[gap.claim].status = "PENDING")

\* It ends where an approved voluntary justification begins.
TailTo(from, minutes) ==
    LET starts == {claims[n].from : n \in ToSet(ApprovedVoluntary)}
        inside == {s \in starts : s > from /\ s < from + minutes}
    IN IF inside = {} THEN from + minutes ELSE Min(inside)

MissingMinutes ==
    Most(0, DailyWorkMinutes - RegularMinutes - ClaimedMinutes(ApprovedVoluntary))
        - ClaimedMinutes(ActiveAlerts)

NewTail(gaps, tail) ==
    SelectSeq(gaps, LAMBDA gap : ~AtTail(gap, tail))
        \o IF MissingMinutes <= AlertMinutes THEN << >>
           ELSE <<[NewGap("idle", tail, TailTo(tail, MissingMinutes)) EXCEPT !.minutes = MissingMinutes]>>

CreditedGaps(gaps) ==
    IF ClaimedMinutes(ApprovedVoluntary) = 0 \/ Regular = {} THEN gaps
    ELSE SortByTime(Recover(CutIdleGaps(NewTail(gaps, TailGapStart(gaps)), ActiveAlerts)))

\* buildDaySummary: of a day that goes on only the justified gaps are shown.
SummaryGaps ==
    SelectSeq(CreditedGaps(JustifiedGaps), LAMBDA gap : isToday => IsSet(gap))

-----------------------------------------------------------------------------
\* The appointments and the justifications change one after the other; how the
\* calls that change them interleave is DayEvents' subject.

AddEntry ==
    /\ Cardinality(entries) + Len(claims) < MaxItems
    /\ \E e \in DayRows \ entries : entries' = entries \cup {e}
    /\ UNCHANGED <<claims, isToday>>

RemoveEntry ==
    /\ \E e \in entries : entries' = entries \ {e}
    /\ UNCHANGED <<claims, isToday>>

DayEnds == isToday /\ isToday' = FALSE /\ UNCHANGED <<entries, claims>>

\* assertAlertJustificationPeriodValid: free of appointments, inside one gap of
\* the day and apart from the other justifications it has read.
EntrySpan(e) == [from |-> e.from, to |-> IF e.to <= e.from THEN e.to + MinutesPerDay ELSE e.to]
LiesIn(period, gaps) ==
    \E i \in DOMAIN gaps : period.from >= Span(gaps[i]).from /\ period.to <= Span(gaps[i]).to
PeriodIsFree(c, others) ==
    /\ \A e \in entries : e.from # NoTime /\ e.to # NoTime => ~Overlap(Period(c), EntrySpan(e))
    /\ LiesIn(Period(c), RawGaps)
    /\ \A n \in others : ~Overlap(Period(c), Period(claims[n]))

\* createGapJustification, with the minutes of its period.  One that is being made
\* at the same time, which this call did not read, is still PENDING.
CreateClaim(c) ==
    /\ Len(claims) < MaxClaims /\ Cardinality(entries) + Len(claims) < MaxItems
    /\ c.status = "PENDING"
    /\ c.kind = "ALERT" =>
          /\ c.gapType = "lunch" => PeriodMinutes(c) <= LunchMinutes
          /\ \E unread \in SUBSET {n \in DOMAIN claims : claims[n].status = "PENDING"} :
                Cardinality(unread) <= 1 /\ PeriodIsFree(c, DOMAIN claims \ unread)
    /\ claims' = Append(claims, c)
    /\ UNCHANGED <<entries, isToday>>

\* updateGapJustification: no limit is set to a lunch here.
EditClaim(n, period) ==
    LET c == [claims[n] EXCEPT !.from = period[1], !.to = period[2]] IN
    /\ claims[n].status = "PENDING"
    /\ c.kind = "ALERT" => PeriodIsFree(c, DOMAIN claims \ {n})
    /\ claims' = [claims EXCEPT ![n] = c]
    /\ UNCHANGED <<entries, isToday>>

\* decideGapJustification.
DecideClaim(n, decision) ==
    /\ claims[n].status = "PENDING"
    /\ claims' = [claims EXCEPT ![n].status = decision]
    /\ UNCHANGED <<entries, isToday>>

\* deleteGapJustification.
DeleteClaim(n) == claims' = RemoveAt(claims, n) /\ UNCHANGED <<entries, isToday>>

GapInit == entries = {} /\ claims = << >> /\ isToday \in BOOLEAN

\* The type of the gap of a voluntary justification is never looked at.
GapNext ==
    \/ AddEntry \/ RemoveEntry \/ DayEnds
    \/ \E p \in ClaimPeriods, type \in {"idle", "lunch"}, kind \in {"ALERT", "VOLUNTARY"} :
          /\ kind = "VOLUNTARY" => type = "idle"
          /\ CreateClaim([from |-> p[1], to |-> p[2], gapType |-> type, kind |-> kind,
                          status |-> "PENDING"])
    \/ \E n \in DOMAIN claims, p \in ClaimPeriods : EditClaim(n, p)
    \/ \E n \in DOMAIN claims, decision \in {"APPROVED", "REJECTED"} : DecideClaim(n, decision)
    \/ \E n \in DOMAIN claims : DeleteClaim(n)

GapSpec == GapInit /\ [][GapNext]_gapVars

-----------------------------------------------------------------------------
GapTypeOK ==
    /\ entries \subseteq [day: Days, kind: Kinds, from: Clock, to: Clock, minutes: Nat]
    /\ claims \in Seq(Claim)
    /\ isToday \in BOOLEAN

\* The day's work ends before midnight.
BeforeMidnight ==
    /\ \A e \in Regular : e.from # NoTime /\ e.to # NoTime /\ e.to > e.from
    /\ Regular # {} => ScheduleEnd < MinutesPerDay

\* The gaps lie apart from each other and from the work, ...
LieApart(gaps, blocks) ==
    \A i \in DOMAIN gaps :
        /\ \A x \in ToSet(blocks) : ~Overlap(Span(gaps[i]), x)
        /\ \A j \in DOMAIN gaps \ {i} : ~Overlap(Span(gaps[i]), Span(gaps[j]))

\* ... are what they say they are, ...
AreWellTyped(gaps) ==
    /\ \A i \in DOMAIN gaps : gaps[i].type = "idle" =>
          gaps[i].minutes > AlertMinutes /\ gaps[i].to <= ScheduleEnd
    /\ Cardinality({i \in DOMAIN gaps : gaps[i].type = "lunch"}) <= 1

\* ... and leave out no stretch of more than an hour between the blocks of work.
AreComplete(gaps, blocks) ==
    LET busy == ToSet(blocks) \cup {Span(gaps[i]) : i \in DOMAIN gaps}
    IN \A a, b \in blocks[1].from..Least(Last(blocks).to, ScheduleEnd) :
          b - a > AlertMinutes => \E x \in busy : Overlap([from |-> a, to |-> b], x)

AreSound(gaps, blocks) ==
    LieApart(gaps, blocks) /\ AreWellTyped(gaps) /\ AreComplete(gaps, blocks)

\* The gaps of the analysis lie apart from each other and from the work, an idle
\* one is longer than an hour and ends with the schedule, at most one is a
\* lunch, and no stretch of more than an hour between two appointments goes
\* without a gap, on a day whose work ends before midnight
\* (analyzeRendimentoDay).
GapsAreSound ==
    BeforeMidnight /\ ~isToday /\ Regular # {} =>
        AreSound(RawGaps, Blocks)

\* An alert: what is shown without a justification.
IsAlert(gap) == gap.type = "idle" /\ ~IsSet(gap)

AreShown(gaps) ==
    \A n \in ToSet(Alerts) : Cardinality({i \in DOMAIN gaps : gaps[i].claim = n}) = 1

AreExplained(gaps, tail) ==
    \A i \in DOMAIN gaps : IsAlert(gaps[i]) =>
        /\ gaps[i].minutes > AlertMinutes
        /\ \A n \in ToSet(ActiveAlerts) : ~Overlap(Span(gaps[i]), Period(claims[n]))
        /\ \A n \in ToSet(ApprovedVoluntary) : Overlap(Span(gaps[i]), Period(claims[n])) =>
              gaps[i].from = tail /\ claims[n].from <= tail

ShowsClaims(gaps, tail) == AreShown(gaps) /\ AreExplained(gaps, tail)

\* A page shows every ALERT justification in one gap, whatever was changed after
\* it was made; and no alert without a justification covers what an active one
\* explains or what an approved voluntary one counts as work, except that the
\* gap at the end of the day may begin within the latter (applyJustifications-
\* ToDay, applyApprovedVoluntaryCreditToTailGap).
ClaimsAreShown ==
    claims # << >> => ShowsClaims(SummaryGaps, TailGapStart(JustifiedGaps))

\* What the page of a day says of its gaps: those the analysis finds, and those
\* that are left after the justifications.
PageIsSound == GapsAreSound /\ ClaimsAreShown
=============================================================================
