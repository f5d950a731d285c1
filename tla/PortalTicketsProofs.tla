------------------------- MODULE PortalTicketsProofs -------------------------
(* Proofs about the rows of the tickets of the portal, their numbers and the  *)
(* groups their parents make, and about the caches of the dashboard, for any  *)
(* openings, tickets, groupings, processes, requests and times to live.       *)
EXTENDS TicketNumbers, TicketGroups, DashboardCache, FiniteSetTheorems, TLAPS

\* An allocation that has read MAX stays above every ticket it saw: the
\* sequence, its realignment and the look-ups only move it up.
FloorIInv ==
    /\ TypeOK
    /\ \A o \in Openings : op[o].pc # "idle" =>
          /\ op[o].next >= op[o].floor
          /\ \A n \in op[o].older : n < Cutover => n < op[o].floor

\* The initial state is well typed.
LEMMA TypeInit == Init => TypeOK
<1> SUFFICES ASSUME Init PROVE TypeOK
  OBVIOUS
<1>1. op \in [Openings -> Opening]
  BY DEF Init, Opening, PCs
<1>2. seq \in Sequence
  BY InitialAssumption DEF Init
<1> QED
  BY <1>1, <1>2 DEF Init, TypeOK

\* The value drawn from a sequence is positive.
LEMMA NextInSeqType == ASSUME TypeOK PROVE NextInSeq \in Nat \ {0}
  BY DEF TypeOK, Sequence, NextInSeq

\* One step of an opening keeps the invariant when it keeps the opening's
\* bounds: `x' is what becomes of the opening.
LEMMA OpeningStep ==
    ASSUME FloorIInv, NEW o \in Openings, NEW x \in Opening,
           op' = [op EXCEPT ![o] = x],
           x.next >= x.floor,
           \A n \in x.older : n < Cutover => n < x.floor,
           TypeOK'
    PROVE  FloorIInv'
  BY DEF FloorIInv, TypeOK

\* Every step keeps the invariant.
LEMMA FloorNext == FloorIInv /\ [Next]_vars => FloorIInv'
<1> SUFFICES ASSUME FloorIInv, [Next]_vars PROVE FloorIInv'
  OBVIOUS
<1>0. TypeOK
  BY DEF FloorIInv
<1>1. ASSUME NEW o \in Openings, ReadMax(o) PROVE FloorIInv'
  <2>1. PICK m \in Numbers \cup {0} :
           /\ IsHighestTaken(m)
           /\ op' = [op EXCEPT ![o].pc = "nextval", ![o].floor = m + 1,
                               ![o].next = m + 1, ![o].older = Taken]
    BY <1>1 DEF ReadMax
  <2> DEFINE x == [op[o] EXCEPT !.pc = "nextval", !.floor = m + 1,
                                !.next = m + 1, !.older = Taken]
  <2>2. m \in Nat /\ m + 1 \in Nat /\ Taken \in SUBSET Numbers
    BY BoundsAssumption DEF Numbers, Taken
  <2>3. /\ x \in Opening /\ x.floor = m + 1 /\ x.next = m + 1
        /\ x.older = Taken
    <3>1. op[o] \in Opening
      BY <1>0 DEF TypeOK
    <3>2. x = [op[o] EXCEPT !.pc = "nextval", !.floor = m + 1,
                            !.next = m + 1, !.older = Taken]
      OBVIOUS
    <3> HIDE DEF x
    <3> QED
      BY <2>2, <3>1, <3>2 DEF Opening, PCs
  <2>4. op' = [op EXCEPT ![o] = x]
    BY <2>1
  <2>5. \A n \in Taken : n < Cutover => n < m + 1
    BY <2>1, <2>2, BoundsAssumption DEF IsHighestTaken, Numbers
  <2> HIDE DEF x
  <2>6. TypeOK'
    BY <1>0, <1>1, <2>3, <2>4 DEF ReadMax, TypeOK
  <2>7. x.next >= x.floor
    BY <2>2, <2>3
  <2>8. \A n \in x.older : n < Cutover => n < x.floor
    BY <2>3, <2>5
  <2> QED
    BY <2>3, <2>4, <2>6, <2>7, <2>8, OpeningStep
<1>2. ASSUME NEW o \in Openings, Nextval(o) PROVE FloorIInv'
  <2> DEFINE x == IF Usable(NextInSeq, op[o].floor)
                  THEN [op[o] EXCEPT !.pc = "exists", !.next = NextInSeq]
                  ELSE [op[o] EXCEPT !.pc = "realign"]
  <2>1. NextInSeq \in Nat \ {0}
    BY <1>0, NextInSeqType
  <2>2. /\ op[o].next >= op[o].floor
        /\ \A n \in op[o].older : n < Cutover => n < op[o].floor
    BY <1>2 DEF FloorIInv, Nextval
  <2>3. /\ x \in Opening /\ x.floor = op[o].floor /\ x.older = op[o].older
        /\ x.next >= x.floor
    BY <1>0, <2>1, <2>2 DEF TypeOK, Opening, PCs, Usable
  <2>4. op' = [op EXCEPT ![o] = x]
    BY <1>2 DEF Nextval
  <2>5. seq' \in Sequence
    BY <1>2, <2>1 DEF Nextval, Sequence
  <2> HIDE DEF x
  <2>6. TypeOK'
    BY <1>0, <1>2, <2>3, <2>4, <2>5 DEF Nextval, TypeOK
  <2> QED
    BY <2>2, <2>3, <2>4, <2>6, OpeningStep
<1>3. ASSUME NEW o \in Openings, Realign(o) PROVE FloorIInv'
  <2>1. PICK a \in Nat, label \in PCs :
           op' = [op EXCEPT ![o].attempt = a, ![o].pc = label]
    <3>1. op[o].attempt \in Nat
      BY <1>0 DEF TypeOK, Opening
    <3>2. CASE CanSetTo(op[o].floor - 1)
      <4> DEFINE a1 == op[o].attempt + 1
      <4> DEFINE l1 == IF a1 < MaxAttempts THEN "nextval" ELSE "exists"
      <4>1. op' = [op EXCEPT ![o].attempt = a1, ![o].pc = l1]
        BY <1>3, <3>2 DEF Realign
      <4>2. a1 \in Nat /\ l1 \in PCs
        BY <3>1 DEF PCs
      <4> HIDE DEF a1, l1
      <4> QED
        BY <4>1, <4>2
    <3>3. CASE ~ CanSetTo(op[o].floor - 1)
      <4>1. op' = [op EXCEPT ![o].pc = "exists"]
        BY <1>3, <3>3 DEF Realign
      <4>2. op' = [op EXCEPT ![o].attempt = op[o].attempt, ![o].pc = "exists"]
        BY <1>0, <4>1 DEF TypeOK, Opening
      <4> QED
        BY <3>1, <4>2 DEF PCs
    <3> QED
      BY <3>2, <3>3
  <2> DEFINE x == [op[o] EXCEPT !.attempt = a, !.pc = label]
  <2>2. /\ op[o].next >= op[o].floor
        /\ \A n \in op[o].older : n < Cutover => n < op[o].floor
    BY <1>3 DEF FloorIInv, Realign
  <2>3. /\ x \in Opening /\ x.floor = op[o].floor /\ x.older = op[o].older
        /\ x.next = op[o].next
    BY <1>0 DEF TypeOK, Opening
  <2>4. op' = [op EXCEPT ![o] = x]
    BY <2>1
  <2>5. seq' \in Sequence
    BY <1>0, <1>3 DEF Realign, CanSetTo, Setval, Sequence, TypeOK, Opening
  <2> HIDE DEF x
  <2>6. TypeOK'
    BY <1>0, <1>3, <2>3, <2>4, <2>5 DEF Realign, TypeOK
  <2> QED
    BY <2>2, <2>3, <2>4, <2>6, OpeningStep
<1>4. ASSUME NEW o \in Openings, CheckExists(o) PROVE FloorIInv'
  <2> DEFINE x == IF op[o].next \in Taken
                  THEN [op[o] EXCEPT !.next = @ + 1, !.checks = @ + 1,
                             !.pc = IF op[o].checks + 1 < MaxChecks
                                    THEN "exists" ELSE "setval"]
                  ELSE [op[o] EXCEPT !.pc = "setval"]
  <2>1. /\ op[o].next >= op[o].floor
        /\ \A n \in op[o].older : n < Cutover => n < op[o].floor
    BY <1>4 DEF FloorIInv, CheckExists
  <2>2. /\ x \in Opening /\ x.floor = op[o].floor /\ x.older = op[o].older
        /\ x.next >= x.floor
    <3> DEFINE l1 == IF op[o].checks + 1 < MaxChecks THEN "exists" ELSE "setval"
    <3>1. op[o] \in Opening /\ l1 \in PCs
      BY <1>0 DEF TypeOK, PCs
    <3>2. CASE op[o].next \in Taken
      <4>1. x = [op[o] EXCEPT !.next = op[o].next + 1, !.checks = op[o].checks + 1,
                              !.pc = l1]
        BY <3>2
      <4>2. /\ op[o].next + 1 \in Nat /\ op[o].checks + 1 \in Nat
            /\ op[o].next + 1 >= op[o].floor
        BY <2>1, <3>1 DEF Opening
      <4> HIDE DEF x, l1
      <4>3. x \in Opening /\ x.next = op[o].next + 1
            /\ x.floor = op[o].floor /\ x.older = op[o].older
        BY <3>1, <4>1, <4>2 DEF Opening
      <4> QED
        BY <4>2, <4>3
    <3>3. CASE op[o].next \notin Taken
      <4>1. x = [op[o] EXCEPT !.pc = "setval"]
        BY <3>3
      <4> HIDE DEF x, l1
      <4> QED
        BY <2>1, <3>1, <4>1 DEF Opening, PCs
    <3> QED
      BY <3>2, <3>3
  <2>3. op' = [op EXCEPT ![o] = x]
    BY <1>4 DEF CheckExists
  <2> HIDE DEF x
  <2>4. TypeOK'
    BY <1>0, <1>4, <2>2, <2>3 DEF CheckExists, TypeOK
  <2> QED
    BY <2>1, <2>2, <2>3, <2>4, OpeningStep
<1>5. ASSUME NEW o \in Openings, MoveSequence(o) \/ SequenceFails(o) \/ Insert(o)
      PROVE  FloorIInv'
  <2>1. PICK label \in PCs : op' = [op EXCEPT ![o].pc = label]
    BY <1>5 DEF MoveSequence, SequenceFails, Insert, PCs
  <2> DEFINE x == [op[o] EXCEPT !.pc = label]
  <2>2. /\ op[o].next >= op[o].floor
        /\ \A n \in op[o].older : n < Cutover => n < op[o].floor
    BY <1>5 DEF FloorIInv, MoveSequence, SequenceFails, Insert
  <2>3. /\ x \in Opening /\ x.floor = op[o].floor /\ x.older = op[o].older
        /\ x.next = op[o].next
    BY <1>0 DEF TypeOK, Opening
  <2>4. op' = [op EXCEPT ![o] = x]
    BY <2>1
  <2>5. op[o].next \in Nat
    BY <1>0 DEF TypeOK, Opening
  <2>6. seq' \in Sequence /\ mirrored' = mirrored /\ failures' \in Nat
    <3>1. op[o].next \in Numbers => Setval(op[o].next) \in Sequence
      BY <2>5, BoundsAssumption DEF Setval, Sequence, Numbers
    <3>2. /\ seq' = seq \/ (op[o].next \in Numbers /\ seq' = Setval(op[o].next))
          /\ mirrored' = mirrored
          /\ failures' = failures \/ failures' = failures + 1
      BY <1>5 DEF MoveSequence, SequenceFails, Insert
    <3> QED
      BY <1>0, <3>1, <3>2 DEF TypeOK
  <2>7. table' \in [Numbers -> Openings \cup {NoRow, Earlier, Mirrored}]
    BY <1>0, <1>5 DEF MoveSequence, SequenceFails, Insert, TypeOK
  <2> HIDE DEF x
  <2>8. TypeOK'
    BY <1>0, <2>3, <2>4, <2>6, <2>7 DEF TypeOK
  <2> QED
    BY <2>2, <2>3, <2>4, <2>8, OpeningStep
<1>6. ASSUME NEW n \in Numbers, Mirror(n) PROVE FloorIInv'
  BY <1>6 DEF Mirror, FloorIInv, TypeOK
<1>7. CASE UNCHANGED vars
  BY <1>7 DEF vars, FloorIInv, TypeOK
<1> QED
  BY <1>1, <1>2, <1>3, <1>4, <1>5, <1>6, <1>7 DEF Next, Step

\* Every variable keeps its type.
THEOREM TypeCorrect == Spec => []TypeOK
<1>1. Init => FloorIInv
  BY TypeInit DEF FloorIInv, Init
<1>2. FloorIInv => TypeOK
  BY DEF FloorIInv
<1> QED
  BY <1>1, FloorNext, <1>2, PTL DEF Spec

\* An opening never overwrites a ticket that was there when it began, whatever
\* the sequence holds and whoever else writes (allocatePortalTicketNumber).
THEOREM OlderTicketsAreSafe == Spec => []OlderTicketsSurvive
<1>1. Init => FloorIInv
  BY TypeInit DEF FloorIInv, Init
<1>2. FloorIInv => OlderTicketsSurvive
  <2> SUFFICES ASSUME FloorIInv, NEW o \in Openings, HasNumber(o),
                      NEW n \in op[o].older, n < Cutover
               PROVE  op[o].next # n
    BY DEF OlderTicketsSurvive
  <2>1. op[o].next >= op[o].floor /\ n < op[o].floor
    BY DEF FloorIInv, HasNumber
  <2>2. op[o].next \in Nat /\ op[o].floor \in Nat /\ n \in Nat
    BY BoundsAssumption DEF FloorIInv, TypeOK, Opening, Numbers
  <2> QED
    BY <2>1, <2>2
<1> QED
  BY <1>1, FloorNext, <1>2, PTL DEF Spec

\* The tickets a walk has passed.
Passed(r) == {step[1] : step \in r.path}

\* What a walk has read leads, ticket by ticket, from the chosen parent to the
\* ticket it comes to next, and not over the child.
WalkIsAWay(r) ==
    /\ r.child \in Tickets /\ r.into \in Tickets /\ r.child # r.into
    /\ r.seen = {r.child} \cup Passed(r)
    /\ r.into \in Passed(r) /\ r.child \notin Passed(r)
    /\ \A step \in r.path : step[2] \in Passed(r) \cup {r.cursor}

GroupIInv ==
    /\ GroupTypeOK
    /\ GroupsAreTrees
    /\ \A g \in Groupers : grouping[g].busy => WalkIsAWay(grouping[g])

-----------------------------------------------------------------------------
\* An empty slot is a grouping that is not busy.
LEMMA NoGroupingType == NoGrouping \in Grouping /\ ~NoGrouping.busy
  BY DEF NoGrouping, Grouping, ParentOrNone

\* A grouping that ends leaves the others as they are.
LEMMA EndKeeps ==
    ASSUME GroupIInv, NEW g \in Groupers, End(g)
    PROVE  /\ grouping' \in [Groupers -> Grouping]
           /\ \A h \in Groupers : grouping'[h].busy => WalkIsAWay(grouping'[h])
<1>1. grouping' = [grouping EXCEPT ![g] = NoGrouping]
  BY DEF End
<1>2. grouping' \in [Groupers -> Grouping]
  BY <1>1, NoGroupingType DEF GroupIInv, GroupTypeOK
<1>3. ASSUME NEW h \in Groupers, grouping'[h].busy PROVE WalkIsAWay(grouping'[h])
  <2>1. h # g /\ grouping'[h] = grouping[h]
    BY <1>1, <1>3, NoGroupingType DEF GroupIInv, GroupTypeOK
  <2> QED
    BY <1>3, <2>1 DEF GroupIInv
<1> QED
  BY <1>2, <1>3

\* A grouping in flight that is written over by another record.
LEMMA MoveKeeps ==
    ASSUME GroupIInv, NEW g \in Groupers, NEW r \in Grouping, WalkIsAWay(r),
           grouping' = [grouping EXCEPT ![g] = r]
    PROVE  /\ grouping' \in [Groupers -> Grouping]
           /\ \A h \in Groupers : grouping'[h].busy => WalkIsAWay(grouping'[h])
<1>1. \A h \in Groupers : grouping'[h] = IF h = g THEN r ELSE grouping[h]
  BY DEF GroupIInv, GroupTypeOK
<1> QED
  BY <1>1 DEF GroupIInv, GroupTypeOK

\* A walk that takes one more step is a way still.
LEMMA WalkGoesOn ==
    ASSUME NEW old \in Grouping, NEW q \in ParentOrNone, WalkIsAWay(old),
           old.cursor \in Tickets, old.cursor \notin old.seen
    PROVE  LET r == [old EXCEPT !.cursor = q, !.seen = @ \cup {old.cursor},
                                !.path = @ \cup {<<old.cursor, q>>}]
           IN  r \in Grouping /\ WalkIsAWay(r)
<1> DEFINE seen == old.seen \cup {old.cursor}
           path == old.path \cup {<<old.cursor, q>>}
           r == [old EXCEPT !.cursor = q, !.seen = seen, !.path = path]
<1>1. seen \subseteq Tickets /\ path \subseteq Tickets \X ParentOrNone
  BY DEF Grouping
<1>2. /\ \A step \in path : step \in old.path \/ step = <<old.cursor, q>>
      /\ \A step \in old.path : step \in path
      /\ <<old.cursor, q>> \in path
  OBVIOUS
<1> HIDE DEF seen, path
<1>3. /\ r.child = old.child /\ r.into = old.into /\ r.cursor = q
      /\ r.seen = seen /\ r.path = path /\ r \in Grouping
  BY <1>1 DEF Grouping
<1> HIDE DEF r
<1>4. Passed(r) = Passed(old) \cup {old.cursor}
  BY <1>2, <1>3 DEF Passed
<1>5. \A step \in r.path : step[2] \in Passed(r) \cup {r.cursor}
  BY <1>2, <1>3, <1>4 DEF WalkIsAWay
<1>6. WalkIsAWay(r)
  BY <1>3, <1>4, <1>5 DEF WalkIsAWay, seen
<1> QED
  BY <1>3, <1>6 DEF r, seen, path

\* The invariant holds at first.
LEMMA GroupInvInit == GroupInit => GroupIInv
<1> SUFFICES ASSUME GroupInit PROVE GroupIInv
  OBVIOUS
<1>1. GroupTypeOK
  BY NoGroupingType, GroupsAssumption DEF GroupInit, GroupTypeOK
<1>2. GroupsAreTrees
  BY DEF GroupInit, GroupsAreTrees, IsForest
<1>3. \A g \in Groupers : ~grouping[g].busy
  BY NoGroupingType DEF GroupInit
<1> QED
  BY <1>1, <1>2, <1>3 DEF GroupIInv

\* Every step keeps it.
LEMMA GroupInvNext == GroupIInv /\ [GroupNext]_groupVars => GroupIInv'
<1> SUFFICES ASSUME GroupIInv, [GroupNext]_groupVars PROVE GroupIInv'
  OBVIOUS
<1> USE DEF GroupIInv
<1>1. ASSUME NEW g \in Groupers, NEW child \in Tickets, NEW into \in Tickets,
             BeginGrouping(g, child, into)
      PROVE  GroupIInv'
  <2> DEFINE r == [busy |-> TRUE, child |-> child, into |-> into, cursor |-> parent[into],
                   seen |-> {child, into}, path |-> {<<into, parent[into]>>}]
  <2>1. r \in Grouping
    BY DEF Grouping, ParentOrNone, GroupTypeOK
  <2>2. Passed(r) = {into}
    BY DEF Passed
  <2>3. WalkIsAWay(r)
    <3>1. /\ r.child = child /\ r.into = into /\ r.cursor = parent[into]
          /\ r.seen = {child, into} /\ r.path = {<<into, parent[into]>>}
          /\ child # into
      BY <1>1 DEF BeginGrouping, MetAtFirst
    <3> HIDE DEF r
    <3>2. \A step \in r.path : step[2] = r.cursor
      BY <3>1
    <3> QED
      BY <2>2, <3>1, <3>2 DEF WalkIsAWay
  <2>4. grouping' = [grouping EXCEPT ![g] = r] /\ UNCHANGED <<parent, raced>>
        /\ groupings' \in 0..MaxGroupings
    BY <1>1, GroupsAssumption DEF BeginGrouping, MetAtFirst, GroupTypeOK
  <2> HIDE DEF r
  <2> QED
    BY <2>1, <2>3, <2>4, MoveKeeps DEF GroupTypeOK, GroupsAreTrees
<1>2. ASSUME NEW g \in Groupers, WalkUp(g) PROVE GroupIInv'
  <2> DEFINE old == grouping[g]
             q == parent[old.cursor]
             r == [old EXCEPT !.cursor = q, !.seen = @ \cup {old.cursor},
                              !.path = @ \cup {<<old.cursor, q>>}]
  <2>1. /\ old \in Grouping /\ WalkIsAWay(old) /\ old.cursor \in Tickets
        /\ old.cursor \notin old.seen /\ q \in ParentOrNone
    BY <1>2 DEF WalkUp, IsCycle, GroupTypeOK, Grouping, ParentOrNone
  <2>2. r \in Grouping /\ WalkIsAWay(r)
    BY <2>1, WalkGoesOn
  <2>3. grouping' = [grouping EXCEPT ![g] = r] /\ UNCHANGED <<parent, raced, groupings>>
    BY <1>2 DEF WalkUp
  <2> HIDE DEF r, old
  <2> QED
    BY <2>2, <2>3, MoveKeeps DEF GroupTypeOK, GroupsAreTrees
<1>3. ASSUME NEW g \in Groupers, WriteParent(g) PROVE GroupIInv'
  <2> DEFINE r == grouping[g]
  <2>1. r \in Grouping /\ WalkIsAWay(r) /\ r.cursor = NoTicket
    BY <1>3 DEF WriteParent, GroupTypeOK
  <2>2. \A t \in Tickets : parent'[t] = IF t = r.child THEN r.into ELSE parent[t]
    BY <1>3, <2>1 DEF WriteParent, GroupTypeOK, WalkIsAWay
  <2>3. /\ raced' \subseteq Tickets /\ raced \ {r.child} \subseteq raced'
        /\ r.child \notin raced' => \A step \in r.path : parent[step[1]] = step[2]
    BY <1>3, <2>1 DEF WriteParent, GroupTypeOK, WalkIsAWay
  <2>4. GroupTypeOK'
    BY <1>3, <2>1, <2>3, EndKeeps DEF WriteParent, GroupTypeOK, WalkIsAWay, ParentOrNone
  <2>5. GroupsAreTrees'
    <3> SUFFICES ASSUME NEW S \in SUBSET Tickets, S # {},
                        \A t \in S : parent'[t] \in S /\ t \notin raced'
                 PROVE  FALSE
      BY DEF GroupsAreTrees
    <3>1. CASE r.child \notin S
      <4>1. \A t \in S : parent[t] \in S /\ t \notin raced
        BY <2>2, <2>3, <3>1
      <4> QED
        BY <4>1 DEF GroupsAreTrees
    <3>2. CASE r.child \in S
      <4> DEFINE T == S \cap Passed(r)
      <4>1. r.into \in T
        BY <2>1, <2>2, <3>2 DEF WalkIsAWay
      <4>2. ASSUME NEW t \in T PROVE parent[t] \in T /\ t \notin raced
        <5>1. t # r.child /\ t \in Tickets /\ t \in S
          BY <2>1 DEF WalkIsAWay
        <5>2. parent[t] \in S /\ t \notin raced
          BY <2>2, <2>3, <5>1
        <5>3. PICK step \in r.path : t = step[1]
          BY DEF Passed
        <5>4. parent[t] = step[2]
          BY <2>3, <3>2, <5>3
        <5>5. parent[t] \in Passed(r)
          BY <2>1, <5>2, <5>3, <5>4, GroupsAssumption DEF WalkIsAWay
        <5> QED
          BY <5>2, <5>5
      <4> QED
        BY <4>1, <4>2 DEF GroupsAreTrees
    <3> QED
      BY <3>1, <3>2
  <2> QED
    BY <1>3, <2>4, <2>5, EndKeeps DEF WriteParent
<1>4. ASSUME NEW g \in Groupers, RefuseGrouping(g) \/ BreakGrouping(g) PROVE GroupIInv'
  BY <1>4, EndKeeps DEF RefuseGrouping, BreakGrouping, GroupTypeOK, GroupsAreTrees
<1>5. CASE UNCHANGED groupVars
  BY <1>5 DEF groupVars, GroupTypeOK, GroupsAreTrees
<1> QED
  BY <1>1, <1>2, <1>3, <1>4, <1>5 DEF GroupNext, GroupStep

-----------------------------------------------------------------------------
\* The parents, the groupings and their bound keep their types.
THEOREM GroupTypes == GroupSpec => []GroupTypeOK
<1>1. GroupIInv => GroupTypeOK
  BY DEF GroupIInv
<1> QED
  BY GroupInvInit, GroupInvNext, <1>1, PTL DEF GroupSpec

\* No ticket is above itself unless a parent that a grouping had passed was
\* changed before it wrote, whatever groupings are in flight (groupIntoParent).
THEOREM GroupsStayTrees == GroupSpec => []GroupsAreTrees
<1>1. GroupIInv => GroupsAreTrees
  BY DEF GroupIInv
<1> QED
  BY GroupInvInit, GroupInvNext, <1>1, PTL DEF GroupSpec

-----------------------------------------------------------------------------
(* The caches of the dashboard.                                               *)

LoadPCs == {"clear", "look", "take", "build", "wait", "store", "answered", "rejected"}

Load == [pc: LoadPCs, kind: Layers \cup {"refresh"}, at: Processes, layer: Layers,
         builds: SUBSET Layers, value: Values \cup {Absent}, got: Values \cup {Absent},
         of: Requests \cup {Absent}, age: 0..MaxBuild, cleared: Nat \cup {Absent},
         excused: BOOLEAN]

\* A request that needs the hours for an answer it builds.
InHours(q) == q.layer = "hours" /\ q.kind # "hours"

\* The layers a request is building.
Under(q) == IF InHours(q) THEN {"complete"} ELSE {}
BuildsOf(q) == Under(q) \cup IF q.pc \in {"build", "store"} THEN {q.layer} ELSE {}

IsWhole(q) == q.pc = "answered" \/ (q.pc = "store" /\ q.layer = "complete")

\* What a request holds where it is.
Shaped(q) ==
    /\ q \in Load
    /\ q.builds = BuildsOf(q)
    /\ q.kind = "hours" => q.layer = "hours"
    /\ q.pc = "answered" => ~InHours(q)
    /\ q.pc = "clear" => q.layer = "complete" /\ q.cleared = Absent /\ q.kind = "refresh"
    /\ q.pc # "clear" => (q.kind = "refresh" <=> q.cleared # Absent)
    /\ q.pc = "wait" => q.of # Absent
    /\ q.value \in IF IsWhole(q) THEN ValuesOf(q.layer)
                   ELSE IF InHours(q) THEN [{"tickets"} -> Nat] ELSE {Absent}
    /\ q.got \in IF q.pc = "take" THEN ValuesOf(q.layer) \cup {Absent}
                 ELSE IF q.pc = "store" /\ q.layer = "hours" THEN ValuesOf("hours") ELSE {Absent}

\* The hours inside a complete answer may be as old as an answer of hours.
Within(value, layer, n) ==
    \A part \in DOMAIN value :
        value[part] <= n + IF layer = "complete" /\ part = "hours" THEN OldestHours ELSE 0

InRedisAtMost(layer) == MaxBuild + BuiltTtl(layer) - 1
InMemoryAtMost(layer) == MaxBuild + InRedisAtMost(layer) + DefaultTtl(layer) - 1

\* How old is what a request holds.
Aged(q) ==
    /\ q.pc = "take" /\ q.got # Absent => Within(q.got, q.layer, InRedisAtMost(q.layer) + q.age)
    /\ q.pc = "store" /\ q.layer = "hours" => Within(q.got, "hours", q.age)
    /\ q.pc # "answered" /\ q.value # Absent => Within(q.value, "complete", q.age)
    /\ q.pc = "answered" => Within(q.value, q.layer, InMemoryAtMost(q.layer))

LoadOK(q) == q = Idle \/ (Shaped(q) /\ Aged(q))

LongestTtl == PeriodTtl + CompleteTtl + HoursTtl

\* The age of an entry and the time it has left are together no more than the
\* caches on its way allow.
EntryOK(entry, layer, n) ==
    entry # Absent =>
        /\ entry \in [value: ValuesOf(layer), left: 1..LongestTtl]
        /\ Within(entry.value, layer, n + 1 - entry.left)

-----------------------------------------------------------------------------
(* Values, ages and entries.                                                  *)

LEMMA AbsentApart ==
    /\ Absent \notin Requests /\ Absent \notin Nat /\ Absent \notin Values
    /\ Absent \notin [{"tickets"} -> Nat] /\ [{"tickets"} -> Nat] \subseteq Values
    /\ \A l \in Layers : Absent \notin ValuesOf(l) /\ ValuesOf(l) \subseteq Values
  BY CacheAssumption DEF Values, Layers

LEMMA EntryIsThere ==
    ASSUME NEW v \in Values, NEW n \in Nat PROVE Entry(v, n) # Absent
<1>1. Entry(v, n) \in [value: Values, left: Nat]
  BY DEF Entry
<1> QED
  BY <1>1, CacheAssumption

LEMMA TimesTyped ==
    ASSUME NEW l \in Layers
    PROVE  /\ MaxBuild \in Nat /\ BuiltTtl(l) \in Nat \ {0} /\ DefaultTtl(l) \in Nat \ {0}
           /\ InRedisAtMost(l) \in Nat /\ InMemoryAtMost(l) \in Nat /\ OldestHours \in Nat
           /\ InRedisAtMost(l) + MaxBuild <= InMemoryAtMost(l)
           /\ LongestTtl \in Nat /\ BuiltTtl(l) <= LongestTtl /\ DefaultTtl(l) <= LongestTtl
<1>1. MaxBuild \in Nat /\ CompleteTtl \in Nat \ {0} /\ PeriodTtl \in Nat \ {0} /\ HoursTtl \in Nat \ {0}
  BY CacheAssumption
<1>2. l = "hours" \/ l = "complete"
  BY DEF Layers
<1> QED
  BY <1>1, <1>2 DEF BuiltTtl, DefaultTtl, InRedisAtMost, InMemoryAtMost, OldestHours, LongestTtl

LEMMA HoursInMemory == InMemoryAtMost("hours") = OldestHours
  BY CacheAssumption DEF InMemoryAtMost, InRedisAtMost, OldestHours, BuiltTtl, DefaultTtl

\* The parts of a value.
LEMMA Parts ==
    ASSUME NEW v \in Values
    PROVE  /\ DOMAIN v \subseteq {"tickets", "hours"} /\ \A part \in DOMAIN v : v[part] \in Nat
           /\ v \in [{"tickets"} -> Nat] => DOMAIN v = {"tickets"}
           /\ v \in ValuesOf("hours") => DOMAIN v = {"hours"}
           /\ v \in ValuesOf("complete") => DOMAIN v = {"tickets", "hours"}
  BY DEF Values, ValuesOf

\* A value that is within a bound is within a greater one.
LEMMA WithinMore ==
    ASSUME NEW v \in Values, NEW l \in Layers, NEW n \in Int, NEW m \in Int, n <= m, Within(v, l, n)
    PROVE  Within(v, l, m)
  BY Parts, TimesTyped DEF Within

\* A value grows older by one.
LEMMA OlderValue ==
    ASSUME NEW v \in Values
    PROVE  /\ Older(v) \in Values /\ Older(v) # Absent
           /\ v \in [{"tickets"} -> Nat] => Older(v) \in [{"tickets"} -> Nat]
           /\ \A l \in Layers : v \in ValuesOf(l) => Older(v) \in ValuesOf(l)
           /\ \A l \in Layers, n \in Int : Within(v, l, n) => Within(Older(v), l, n + 1)
           /\ \A n \in Int : (\A part \in DOMAIN v : v[part] <= n)
                                => \A part \in DOMAIN Older(v) : Older(v)[part] <= n + 1
<1>1. v # Absent
  BY AbsentApart
<1>2. Older(v) = [part \in DOMAIN v |-> v[part] + 1]
  BY <1>1 DEF Older
<1>3. ASSUME NEW S, v \in [S -> Nat] PROVE Older(v) \in [S -> Nat]
  BY <1>2, <1>3
<1>4. /\ v \in [{"tickets"} -> Nat] => Older(v) \in [{"tickets"} -> Nat]
      /\ \A l \in Layers : v \in ValuesOf(l) => Older(v) \in ValuesOf(l)
  BY <1>3 DEF ValuesOf
<1>5. Older(v) \in Values
  BY <1>3 DEF Values, ValuesOf
<1>6. DOMAIN Older(v) = DOMAIN v /\ \A part \in DOMAIN v : Older(v)[part] = v[part] + 1 /\ v[part] \in Nat
  BY <1>2, Parts
<1>7. ASSUME NEW l \in Layers, NEW n \in Int, Within(v, l, n) PROVE Within(Older(v), l, n + 1)
  BY <1>6, <1>7, TimesTyped DEF Within
<1> QED
  BY <1>4, <1>5, <1>6, <1>7, AbsentApart

\* The tickets and the hours become an answer.
LEMMA Whole ==
    ASSUME NEW t \in [{"tickets"} -> Nat], NEW h \in ValuesOf("hours"), NEW n \in Nat,
           Within(t, "complete", n), Within(h, "hours", OldestHours)
    PROVE  /\ [tickets |-> t.tickets, hours |-> h.hours] \in ValuesOf("complete")
           /\ Within([tickets |-> t.tickets, hours |-> h.hours], "complete", n)
<1>1. t.tickets \in Nat /\ h.hours \in Nat
  BY DEF ValuesOf
<1>2. t.tickets <= n /\ h.hours <= OldestHours
  <2>1. t["tickets"] <= n
    BY DEF Within
  <2>2. h["hours"] <= OldestHours + 0
    BY DEF Within, ValuesOf
  <2> QED
    BY <2>1, <2>2, TimesTyped DEF Layers
<1> DEFINE w == [tickets |-> t.tickets, hours |-> h.hours]
<1>3. w = [part \in {"tickets", "hours"} |-> IF part = "tickets" THEN t.tickets ELSE h.hours]
  OBVIOUS
<1> HIDE DEF w
<1>4. w \in ValuesOf("complete")
  BY <1>1, <1>3 DEF ValuesOf
<1>5. Within(w, "complete", n)
  BY <1>1, <1>2, <1>3, TimesTyped DEF Within, Layers
<1> QED
  BY <1>4, <1>5 DEF w

-----------------------------------------------------------------------------
(* What becomes of a request.                                                 *)

\* A request that may be given a value of its layer: what it builds above that
\* layer goes on.
Ready(x) ==
    /\ x \in Load /\ x.builds = Under(x)
    /\ x.kind = "hours" => x.layer = "hours"
    /\ x.kind = "refresh" <=> x.cleared # Absent
    /\ InHours(x) => x.value \in [{"tickets"} -> Nat] /\ Within(x.value, "complete", x.age)

LEMMA LoadFields ==
    ASSUME NEW x \in Load
    PROVE  x.pc \in LoadPCs /\ x.layer \in Layers /\ x.age \in 0..MaxBuild /\ x.age \in Nat
  BY CacheAssumption DEF Load

LEMMA LoadedKeeps ==
    ASSUME NEW x, Ready(x), NEW v \in ValuesOf(x.layer), Within(v, x.layer, InMemoryAtMost(x.layer))
    PROVE  /\ Shaped(Loaded(x, v)) /\ Aged(Loaded(x, v))
           /\ Loaded(x, v).pc \in {"store", "answered"} /\ Loaded(x, v).builds = x.builds
           /\ Loaded(x, v).at = x.at /\ Loaded(x, v).cleared = x.cleared
           /\ Loaded(x, v).excused = x.excused /\ Loaded(x, v).got = Absent
           /\ Loaded(x, v).value = IF InHours(x) THEN [tickets |-> x.value.tickets, hours |-> v.hours]
                                   ELSE v
<1> DEFINE y == Loaded(x, v)
<1>0. x \in Load /\ x.layer \in Layers /\ x.age \in 0..MaxBuild /\ x.age \in Nat
  BY LoadFields DEF Ready
<1>1. CASE InHours(x)
  <2> DEFINE w == [tickets |-> x.value.tickets, hours |-> v.hours]
  <2>1. y = [x EXCEPT !.pc = "store", !.layer = "complete", !.got = Absent, !.of = Absent,
                      !.value = w]
    BY <1>1 DEF Loaded, InHours
  <2>2. v \in ValuesOf("hours") /\ Within(v, "hours", OldestHours)
    BY <1>1, HoursInMemory DEF InHours
  <2>3. w \in ValuesOf("complete") /\ Within(w, "complete", x.age)
    BY <1>0, <1>1, <2>2, Whole DEF Ready
  <2>4. w \in Values /\ w # Absent
    BY <2>3, AbsentApart DEF Layers
  <2> HIDE DEF w
  <2>5. /\ y \in Load /\ y.pc = "store" /\ y.layer = "complete" /\ y.got = Absent /\ y.value = w
        /\ y.kind = x.kind /\ y.builds = x.builds /\ y.at = x.at /\ y.cleared = x.cleared
        /\ y.excused = x.excused /\ y.age = x.age
    BY <1>0, <2>1, <2>4 DEF Load, LoadPCs, Layers
  <2> HIDE DEF y
  <2>6. x.builds = {"complete"} /\ x.kind # "hours"
    BY <1>1 DEF Ready, Under, InHours
  <2>7. Shaped(y)
    BY <2>3, <2>5, <2>6 DEF Shaped, BuildsOf, Under, InHours, IsWhole, Ready
  <2>8. Aged(y)
    BY <2>3, <2>5 DEF Aged
  <2> QED
    BY <1>1, <2>5, <2>7, <2>8 DEF y, w
<1>2. CASE ~InHours(x)
  <2>1. y = [x EXCEPT !.pc = "answered", !.value = v, !.got = Absent, !.of = Absent]
    BY <1>2 DEF Loaded, InHours
  <2>2. v \in Values /\ v # Absent
    BY <1>0, AbsentApart
  <2>3. /\ y \in Load /\ y.pc = "answered" /\ y.layer = x.layer /\ y.got = Absent /\ y.value = v
        /\ y.kind = x.kind /\ y.builds = x.builds /\ y.at = x.at /\ y.cleared = x.cleared
        /\ y.excused = x.excused /\ y.age = x.age
    BY <1>0, <2>1, <2>2 DEF Load, LoadPCs
  <2> HIDE DEF y
  <2>4. Shaped(y)
    BY <1>2, <2>3 DEF Shaped, BuildsOf, Under, InHours, IsWhole, Ready
  <2>5. Aged(y)
    BY <2>3 DEF Aged
  <2> QED
    BY <1>2, <2>3, <2>4, <2>5 DEF y
<1> QED
  BY <1>1, <1>2

\* Whoever looks, takes or waits is ready for the value.
LEMMA AsksIsReady ==
    ASSUME NEW x, Shaped(x), Aged(x), x.pc \in {"look", "take", "wait"}
    PROVE  Ready(x)
<1>1. x.builds = Under(x)
  BY DEF Shaped, BuildsOf
<1>2. ASSUME InHours(x) PROVE x.value \in [{"tickets"} -> Nat] /\ Within(x.value, "complete", x.age)
  <2>1. x.value \in [{"tickets"} -> Nat]
    BY <1>2 DEF Shaped, IsWhole
  <2> QED
    BY <2>1, AbsentApart DEF Aged
<1> QED
  BY <1>1, <1>2 DEF Ready, Shaped

\* What a build stores, and the request once it does not build that layer.
Stored(x) == IF x.layer = "hours" THEN x.got ELSE x.value
Built(x) == [x EXCEPT !.builds = @ \ {x.layer}]

LEMMA StoresAValue ==
    ASSUME NEW x, Shaped(x), Aged(x), x.pc = "store"
    PROVE  /\ Stored(x) \in ValuesOf(x.layer) /\ Within(Stored(x), x.layer, MaxBuild)
           /\ Ready(Built(x)) /\ Built(x).layer = x.layer /\ Built(x).at = x.at
           /\ Built(x).builds = x.builds \ {x.layer} /\ Built(x).cleared = x.cleared
           /\ Built(x).excused = x.excused /\ InHours(Built(x)) = InHours(x)
           /\ Built(x).value = x.value
<1>0. x \in Load /\ x.layer \in Layers /\ x.age \in 0..MaxBuild /\ x.age \in Nat
  BY LoadFields DEF Shaped
<1>1. /\ Built(x) \in Load /\ Built(x).layer = x.layer /\ Built(x).at = x.at /\ Built(x).kind = x.kind
      /\ Built(x).builds = x.builds \ {x.layer} /\ Built(x).cleared = x.cleared
      /\ Built(x).excused = x.excused /\ Built(x).value = x.value /\ Built(x).age = x.age
  BY <1>0 DEF Built, Load
<1>2. x.builds \ {x.layer} = Under(x)
  BY DEF Shaped, BuildsOf, Under, InHours
<1>3. ASSUME InHours(x) PROVE x.value \in [{"tickets"} -> Nat] /\ Within(x.value, "complete", x.age)
  <2>1. x.value \in [{"tickets"} -> Nat]
    BY <1>3 DEF Shaped, IsWhole, InHours
  <2> QED
    BY <2>1, AbsentApart DEF Aged
<1>4. Ready(Built(x)) /\ (InHours(Built(x)) = InHours(x))
  BY <1>1, <1>2, <1>3 DEF Ready, Shaped, InHours, Under
<1>5. CASE x.layer = "hours"
  <2>1. x.got \in ValuesOf("hours") /\ Within(x.got, "hours", x.age)
    BY <1>5 DEF Shaped, Aged
  <2>2. x.got \in Values
    BY <2>1, AbsentApart DEF Layers
  <2>3. Within(x.got, "hours", MaxBuild)
    BY <1>0, <2>1, <2>2, WithinMore, TimesTyped DEF Layers
  <2> QED
    BY <1>1, <1>4, <1>5, <2>1, <2>3 DEF Stored
<1>6. CASE x.layer = "complete"
  <2>1. x.value \in ValuesOf("complete")
    BY <1>6 DEF Shaped, IsWhole
  <2>2. x.value \in Values /\ x.value # Absent
    BY <2>1, AbsentApart DEF Layers
  <2>3. Within(x.value, "complete", MaxBuild)
    BY <1>0, <2>2, WithinMore, TimesTyped DEF Aged, Layers
  <2> QED
    BY <1>1, <1>4, <1>6, <2>1, <2>3 DEF Stored
<1> QED
  BY <1>0, <1>5, <1>6 DEF Layers

\* The other moves of a request: it is excused, its build throws, it begins,
\* clears the caches, asks Redis, joins or begins a build, reads.
LEMMA ExcusedKeeps ==
    ASSUME NEW x, Shaped(x), Aged(x)
    PROVE  LET y == [x EXCEPT !.excused = TRUE] IN
           /\ Shaped(y) /\ Aged(y) /\ y.pc = x.pc /\ y.builds = x.builds /\ y.at = x.at
           /\ y.of = x.of /\ y.layer = x.layer /\ y.value = x.value /\ y.got = x.got /\ y.excused
<1> DEFINE y == [x EXCEPT !.excused = TRUE]
<1>1. x \in Load
  BY DEF Shaped
<1>2. /\ y \in Load /\ y.pc = x.pc /\ y.kind = x.kind /\ y.at = x.at /\ y.layer = x.layer
      /\ y.builds = x.builds /\ y.value = x.value /\ y.got = x.got /\ y.of = x.of
      /\ y.age = x.age /\ y.cleared = x.cleared /\ y.excused
  BY <1>1 DEF Load
<1> HIDE DEF y
<1>3. Shaped(y)
  BY <1>2 DEF Shaped, BuildsOf, Under, InHours, IsWhole
<1>4. Aged(y)
  BY <1>2 DEF Aged
<1> QED
  BY <1>2, <1>3, <1>4 DEF y

LEMMA RejectedKeeps ==
    ASSUME NEW x, Shaped(x), Aged(x), x.pc = "wait"
    PROVE  LET y == [x EXCEPT !.pc = "rejected"] IN
           /\ Shaped(y) /\ Aged(y) /\ y.pc = "rejected" /\ y.builds = x.builds /\ y.at = x.at
           /\ y.value = x.value /\ y.got = x.got /\ y.cleared = x.cleared /\ y.excused = x.excused
<1> DEFINE y == [x EXCEPT !.pc = "rejected"]
<1>1. x \in Load
  BY DEF Shaped
<1>2. /\ y \in Load /\ y.pc = "rejected" /\ y.kind = x.kind /\ y.at = x.at /\ y.layer = x.layer
      /\ y.builds = x.builds /\ y.value = x.value /\ y.got = x.got /\ y.of = x.of
      /\ y.age = x.age /\ y.cleared = x.cleared /\ y.excused = x.excused
  BY <1>1 DEF Load, LoadPCs
<1> HIDE DEF y
<1>3. Shaped(y)
  BY <1>2 DEF Shaped, BuildsOf, Under, InHours, IsWhole
<1>4. Aged(y)
  BY <1>2 DEF Aged, Shaped
<1> QED
  BY <1>2, <1>3, <1>4 DEF y

LEMMA BeginsKeeps ==
    ASSUME NEW kind \in Layers \cup {"refresh"}, NEW p \in Processes
    PROVE  LET y == IF kind = "refresh" THEN [Looks(kind, p) EXCEPT !.pc = "clear"]
                    ELSE Looks(kind, p)
           IN /\ Shaped(y) /\ Aged(y) /\ y.builds = {} /\ y.pc \in {"look", "clear"}
              /\ y.pc # "clear" => y.cleared = Absent
<1> DEFINE y == IF kind = "refresh" THEN [Looks(kind, p) EXCEPT !.pc = "clear"] ELSE Looks(kind, p)
<1>1. /\ y \in Load /\ y.pc = (IF kind = "refresh" THEN "clear" ELSE "look") /\ y.kind = kind
      /\ y.layer = (IF kind = "hours" THEN "hours" ELSE "complete") /\ y.builds = {}
      /\ y.value = Absent /\ y.got = Absent /\ y.cleared = Absent
  <2> DEFINE w == Looks(kind, p)
  <2>1. /\ w \in Load /\ w.pc = "look" /\ w.kind = kind /\ w.builds = {}
        /\ w.layer = (IF kind = "hours" THEN "hours" ELSE "complete")
        /\ w.value = Absent /\ w.got = Absent /\ w.cleared = Absent
    BY CacheAssumption DEF Looks, Load, LoadPCs, Layers
  <2>2. y = IF kind = "refresh" THEN [w EXCEPT !.pc = "clear"] ELSE w
    OBVIOUS
  <2> HIDE DEF w, y
  <2> QED
    BY <2>1, <2>2 DEF Load, LoadPCs
<1> HIDE DEF y
<1>2. Shaped(y)
  BY <1>1 DEF Shaped, BuildsOf, Under, InHours, IsWhole, Layers
<1>3. Aged(y)
  BY <1>1 DEF Aged
<1> QED
  BY <1>1, <1>2, <1>3 DEF y

LEMMA ClearsKeeps ==
    ASSUME NEW x, Shaped(x), Aged(x), x.pc = "clear", NEW e \in BOOLEAN
    PROVE  LET y == [x EXCEPT !.pc = "look", !.cleared = 0, !.excused = e] IN
           /\ Shaped(y) /\ Aged(y) /\ y.pc = "look" /\ y.builds = {} /\ y.at = x.at
           /\ y.value = Absent /\ y.got = Absent /\ y.cleared = 0 /\ y.excused = e
<1> DEFINE y == [x EXCEPT !.pc = "look", !.cleared = 0, !.excused = e]
<1>1. x \in Load /\ x.builds = {} /\ x.value = Absent /\ x.got = Absent
  BY DEF Shaped, BuildsOf, Under, InHours, IsWhole
<1>2. /\ y \in Load /\ y.pc = "look" /\ y.kind = x.kind /\ y.at = x.at /\ y.layer = x.layer
      /\ y.builds = x.builds /\ y.value = x.value /\ y.got = x.got
      /\ y.age = x.age /\ y.cleared = 0 /\ y.excused = e
  BY <1>1 DEF Load, LoadPCs
<1> HIDE DEF y
<1>3. Shaped(y)
  BY <1>1, <1>2, AbsentApart DEF Shaped, BuildsOf, Under, InHours, IsWhole
<1>4. Aged(y)
  BY <1>1, <1>2 DEF Aged
<1> QED
  BY <1>1, <1>2, <1>3, <1>4 DEF y

LEMMA TakesKeeps ==
    ASSUME NEW x, Shaped(x), Aged(x), x.pc = "look", NEW v \in ValuesOf(x.layer) \cup {Absent},
           v # Absent => Within(v, x.layer, InRedisAtMost(x.layer))
    PROVE  LET y == [x EXCEPT !.pc = "take", !.got = v] IN
           /\ Shaped(y) /\ Aged(y) /\ y.pc = "take" /\ y.builds = x.builds /\ y.at = x.at
           /\ y.value = x.value /\ y.got = v /\ y.cleared = x.cleared /\ y.excused = x.excused
<1> DEFINE y == [x EXCEPT !.pc = "take", !.got = v]
<1>1. x \in Load /\ x.layer \in Layers /\ x.age \in Nat
  BY LoadFields DEF Shaped
<1>2. v \in Values \cup {Absent}
  BY <1>1, AbsentApart
<1>3. /\ y \in Load /\ y.pc = "take" /\ y.kind = x.kind /\ y.at = x.at /\ y.layer = x.layer
      /\ y.builds = x.builds /\ y.value = x.value /\ y.got = v
      /\ y.age = x.age /\ y.cleared = x.cleared /\ y.excused = x.excused
  BY <1>1, <1>2 DEF Load, LoadPCs
<1> HIDE DEF y
<1>4. Shaped(y)
  BY <1>3 DEF Shaped, BuildsOf, Under, InHours, IsWhole
<1>5. v # Absent => Within(v, x.layer, InRedisAtMost(x.layer) + x.age)
  BY <1>1, <1>2, WithinMore, TimesTyped
<1>6. Aged(y)
  BY <1>3, <1>5 DEF Aged
<1> QED
  BY <1>3, <1>4, <1>6 DEF y

LEMMA JoinsKeeps ==
    ASSUME NEW x, Shaped(x), Aged(x), x.pc = "take", x.got = Absent, NEW z \in Requests
    PROVE  LET y == [x EXCEPT !.pc = "wait", !.of = z] IN
           /\ Shaped(y) /\ Aged(y) /\ y.pc = "wait" /\ y.builds = x.builds /\ y.at = x.at
           /\ y.of = z /\ y.layer = x.layer
           /\ y.value = x.value /\ y.got = Absent /\ y.cleared = x.cleared /\ y.excused = x.excused
<1> DEFINE y == [x EXCEPT !.pc = "wait", !.of = z]
<1>1. x \in Load
  BY DEF Shaped
<1>2. /\ y \in Load /\ y.pc = "wait" /\ y.kind = x.kind /\ y.at = x.at /\ y.layer = x.layer
      /\ y.builds = x.builds /\ y.value = x.value /\ y.got = x.got /\ y.of = z
      /\ y.age = x.age /\ y.cleared = x.cleared /\ y.excused = x.excused
  BY <1>1 DEF Load, LoadPCs
<1> HIDE DEF y
<1>3. Shaped(y)
  BY <1>2, AbsentApart DEF Shaped, BuildsOf, Under, InHours, IsWhole
<1>4. Aged(y)
  BY <1>2 DEF Aged
<1> QED
  BY <1>2, <1>3, <1>4 DEF y

LEMMA BuildsKeeps ==
    ASSUME NEW x, Shaped(x), Aged(x), x.pc = "take", x.got = Absent
    PROVE  LET y == [x EXCEPT !.pc = "build", !.builds = @ \cup {x.layer}] IN
           /\ Shaped(y) /\ Aged(y) /\ y.pc = "build" /\ y.builds = x.builds \cup {x.layer} /\ y.at = x.at
           /\ y.value = x.value /\ y.got = Absent /\ y.cleared = x.cleared /\ y.excused = x.excused
<1> DEFINE y == [x EXCEPT !.pc = "build", !.builds = @ \cup {x.layer}]
<1>1. x \in Load /\ x.layer \in Layers
  BY LoadFields DEF Shaped
<1>2. /\ y \in Load /\ y.pc = "build" /\ y.kind = x.kind /\ y.at = x.at /\ y.layer = x.layer
      /\ y.builds = x.builds \cup {x.layer} /\ y.value = x.value /\ y.got = x.got
      /\ y.age = x.age /\ y.cleared = x.cleared /\ y.excused = x.excused
  BY <1>1 DEF Load, LoadPCs
<1> HIDE DEF y
<1>3. Shaped(y)
  BY <1>2 DEF Shaped, BuildsOf, Under, InHours, IsWhole
<1>4. Aged(y)
  BY <1>2 DEF Aged
<1> QED
  BY <1>2, <1>3, <1>4 DEF y

LEMMA ReadsTickets ==
    ASSUME NEW x, Shaped(x), Aged(x), x.pc = "build", x.layer = "complete"
    PROVE  LET y == [x EXCEPT !.pc = "look", !.layer = "hours", !.value = [tickets |-> 0]] IN
           /\ Shaped(y) /\ Aged(y) /\ y.pc = "look" /\ y.builds = x.builds /\ y.at = x.at
           /\ y.value \in Values /\ (\A part \in DOMAIN y.value : y.value[part] = 0)
           /\ y.got = Absent /\ y.cleared = x.cleared /\ y.excused = x.excused
<1> DEFINE t == [tickets |-> 0]
           y == [x EXCEPT !.pc = "look", !.layer = "hours", !.value = t]
<1>1. x \in Load /\ x.age \in Nat
  BY LoadFields DEF Shaped
<1>2. t = [part \in {"tickets"} |-> 0]
  OBVIOUS
<1> HIDE DEF t
<1>3. t \in [{"tickets"} -> Nat] /\ \A part \in DOMAIN t : t[part] = 0
  BY <1>2
<1>4. t \in Values
  BY <1>3, AbsentApart
<1>5. /\ y \in Load /\ y.pc = "look" /\ y.kind = x.kind /\ y.at = x.at /\ y.layer = "hours"
      /\ y.builds = x.builds /\ y.value = t /\ y.got = x.got
      /\ y.age = x.age /\ y.cleared = x.cleared /\ y.excused = x.excused
  BY <1>1, <1>4 DEF Load, LoadPCs, Layers
<1> HIDE DEF y
<1>6. Shaped(y)
  BY <1>3, <1>5 DEF Shaped, BuildsOf, Under, InHours, IsWhole
<1>7. Within(t, "complete", x.age)
  BY <1>1, <1>3, TimesTyped DEF Within, Layers
<1>8. Aged(y)
  BY <1>5, <1>7 DEF Aged
<1>9. y.got = Absent
  BY <1>5 DEF Shaped
<1> QED
  BY <1>3, <1>4, <1>5, <1>6, <1>8, <1>9 DEF y, t

LEMMA ReadsHours ==
    ASSUME NEW x, Shaped(x), Aged(x), x.pc = "build", x.layer = "hours"
    PROVE  LET y == [x EXCEPT !.pc = "store", !.got = [hours |-> 0]] IN
           /\ Shaped(y) /\ Aged(y) /\ y.pc = "store" /\ y.builds = x.builds /\ y.at = x.at
           /\ y.got \in Values /\ (\A part \in DOMAIN y.got : y.got[part] = 0)
           /\ y.value = x.value /\ y.cleared = x.cleared /\ y.excused = x.excused
<1> DEFINE t == [hours |-> 0]
           y == [x EXCEPT !.pc = "store", !.got = t]
<1>1. x \in Load /\ x.age \in Nat
  BY LoadFields DEF Shaped
<1>2. t = [part \in {"hours"} |-> 0]
  OBVIOUS
<1> HIDE DEF t
<1>3. t \in ValuesOf("hours") /\ \A part \in DOMAIN t : t[part] = 0
  BY <1>2 DEF ValuesOf
<1>4. t \in Values
  BY <1>3, AbsentApart DEF Layers
<1>5. /\ y \in Load /\ y.pc = "store" /\ y.kind = x.kind /\ y.at = x.at /\ y.layer = "hours"
      /\ y.builds = x.builds /\ y.value = x.value /\ y.got = t
      /\ y.age = x.age /\ y.cleared = x.cleared /\ y.excused = x.excused
  BY <1>1, <1>4 DEF Load, LoadPCs
<1> HIDE DEF y
<1>6. Shaped(y)
  BY <1>3, <1>5 DEF Shaped, BuildsOf, Under, InHours, IsWhole
<1>7. Within(t, "hours", x.age)
  BY <1>1, <1>3 DEF Within
<1>8. Aged(y)
  BY <1>5, <1>7 DEF Aged, Shaped
<1> QED
  BY <1>3, <1>4, <1>5, <1>6, <1>8 DEF y, t

\* A request while time passes.
LEMMA OlderLoadKeeps ==
    ASSUME NEW x, Shaped(x), Aged(x), x.pc # "answered", x.age < MaxBuild
    PROVE  LET y == OlderLoad(x) IN
           /\ Shaped(y) /\ Aged(y) /\ y.pc = x.pc /\ y.builds = x.builds /\ y.at = x.at
           /\ y.of = x.of /\ y.layer = x.layer /\ y.value = Older(x.value) /\ y.got = Older(x.got)
           /\ y.cleared = (IF x.cleared = Absent THEN Absent ELSE x.cleared + 1)
           /\ y.excused = x.excused
<1> DEFINE y == OlderLoad(x)
           c == IF x.cleared = Absent THEN Absent ELSE x.cleared + 1
           v == Older(x.value)
           g == Older(x.got)
<1>1. x \in Load /\ x.pc \in LoadPCs /\ x.layer \in Layers /\ x.age \in Nat /\ x.age + 1 \in 0..MaxBuild
  BY LoadFields, TimesTyped DEF Shaped, Layers
<1>2. y = [x EXCEPT !.age = @ + 1, !.value = v, !.got = g, !.cleared = c]
  BY <1>1 DEF OlderLoad, LoadPCs, Load
<1>3. /\ x.value \in Values \cup {Absent} /\ x.got \in Values \cup {Absent}
      /\ x.cleared \in Nat \cup {Absent}
  BY <1>1 DEF Load
<1>4. Older(Absent) = Absent
  BY DEF Older
<1>5. v \in Values \cup {Absent} /\ g \in Values \cup {Absent}
  BY <1>3, <1>4, OlderValue
<1>6. c \in Nat \cup {Absent} /\ (c = Absent <=> x.cleared = Absent)
  BY <1>3, AbsentApart
<1> HIDE DEF c, v, g
<1>7. /\ y \in Load /\ y.pc = x.pc /\ y.kind = x.kind /\ y.at = x.at /\ y.layer = x.layer
      /\ y.builds = x.builds /\ y.value = v /\ y.got = g /\ y.of = x.of
      /\ y.age = x.age + 1 /\ y.cleared = c /\ y.excused = x.excused
  BY <1>1, <1>2, <1>5, <1>6 DEF Load
<1> HIDE DEF y
<1>8. x.value \in Values => /\ (x.value \in [{"tickets"} -> Nat] => v \in [{"tickets"} -> Nat])
                            /\ \A l \in Layers : x.value \in ValuesOf(l) => v \in ValuesOf(l)
                            /\ \A l \in Layers, n \in Int : Within(x.value, l, n) => Within(v, l, n + 1)
  BY OlderValue DEF v
<1>9. x.got \in Values => /\ \A l \in Layers : x.got \in ValuesOf(l) => g \in ValuesOf(l)
                          /\ \A l \in Layers, n \in Int : Within(x.got, l, n) => Within(g, l, n + 1)
  BY OlderValue DEF g
<1>10. (x.value = Absent <=> v = Absent) /\ (x.got = Absent <=> g = Absent)
  BY <1>3, <1>4, OlderValue, AbsentApart DEF v, g
<1>11. Shaped(y)
  <2>1. y.value \in IF IsWhole(y) THEN ValuesOf(y.layer)
                    ELSE IF InHours(y) THEN [{"tickets"} -> Nat] ELSE {Absent}
    BY <1>1, <1>3, <1>7, <1>8, <1>10, AbsentApart DEF Shaped, IsWhole, InHours
  <2>2. y.got \in IF y.pc = "take" THEN ValuesOf(y.layer) \cup {Absent}
                  ELSE IF y.pc = "store" /\ y.layer = "hours" THEN ValuesOf("hours") ELSE {Absent}
    BY <1>1, <1>3, <1>7, <1>9, <1>10, AbsentApart DEF Shaped, Layers
  <2> QED
    BY <1>6, <1>7, <2>1, <2>2 DEF Shaped, BuildsOf, Under, InHours
<1>12. Aged(y)
  <2>1. ASSUME x.pc = "take", x.got # Absent PROVE Within(g, x.layer, InRedisAtMost(x.layer) + (x.age + 1))
    <3> DEFINE m == InRedisAtMost(x.layer) + x.age
    <3>1. m \in Int /\ m + 1 = InRedisAtMost(x.layer) + (x.age + 1)
      BY <1>1, TimesTyped
    <3>2. Within(x.got, x.layer, m)
      BY <2>1 DEF Aged
    <3> HIDE DEF m
    <3>3. Within(g, x.layer, m + 1)
      BY <1>1, <1>3, <1>9, <2>1, <3>1, <3>2
    <3> QED
      BY <3>1, <3>3
  <2>2. ASSUME x.pc = "store", x.layer = "hours" PROVE Within(g, "hours", x.age + 1)
    BY <1>1, <1>3, <1>9, <2>2, AbsentApart DEF Aged, Layers, Shaped
  <2>3. ASSUME x.value # Absent PROVE Within(v, "complete", x.age + 1)
    <3>1. Within(x.value, "complete", x.age)
      BY <2>3 DEF Aged
    <3>2. x.age \in Int /\ "complete" \in Layers /\ x.value \in Values
      BY <1>1, <1>3, <2>3 DEF Layers
    <3> QED
      BY <1>8, <3>1, <3>2
  <2> QED
    BY <1>7, <1>10, <2>1, <2>2, <2>3 DEF Aged
<1> QED
  BY <1>7, <1>11, <1>12 DEF y, c, v, g

\* Nothing else is a request.
LEMMA IdleApart ==
    ASSUME NEW x, LoadOK(x)
    PROVE  /\ Idle.pc = "idle" /\ (x.pc = "idle" <=> x = Idle)
           /\ x.pc # "idle" => Shaped(x) /\ Aged(x) /\ x \in Load
<1>1. Shaped(x) => x.pc # "idle"
  BY DEF Shaped, Load, LoadPCs
<1> QED
  BY <1>1 DEF LoadOK, Idle, Shaped

-----------------------------------------------------------------------------
(* The invariant.                                                             *)

Entries == [value: Values, left: Nat]

StoresOK ==
    /\ useRedis \in BOOLEAN /\ events \in 0..MaxEvents
    /\ memory \in [Processes -> [Layers -> Entries \cup {Absent}]]
    /\ redis \in [Layers -> Entries \cup {Absent}]
    /\ building \in [Processes -> [Layers -> Requests \cup {Absent}]]
    /\ \A l \in Layers : EntryOK(redis[l], l, InRedisAtMost(l)) /\ (redis[l] # Absent => useRedis)
    /\ \A p \in Processes, l \in Layers : EntryOK(memory[p][l], l, InMemoryAtMost(l))

LoadsOK == load \in [Requests -> Load \cup {Idle}] /\ \A r \in Requests : LoadOK(load[r])

Has(q, l) == q.pc # "idle" /\ l \in q.builds

\* Who is said to build a layer builds it, in that process, and so does whoever
\* somebody waits for.
BuilderOK(p, l) ==
    building[p][l] # Absent => Has(load[building[p][l]], l) /\ load[building[p][l]].at = p
WaiterOK(r) ==
    load[r].pc = "wait" =>
        Has(load[load[r].of], load[r].layer) /\ load[load[r].of].at = load[r].at
LinksOK ==
    (\A p \in Processes, l \in Layers : BuilderOK(p, l)) /\ \A r \in Requests : WaiterOK(r)

\* A build of a layer that has nothing from longer than n ago.  One of the hours
\* does not care for the tickets its request may hold.
NotOlder(value, n) == value # Absent => \A part \in DOMAIN value : value[part] <= n
YoungHours(y, n) == NotOlder(load[y].got, n)
YoungComplete(y, n) ==
    /\ NotOlder(load[y].value, n) /\ NotOlder(load[y].got, n)
    /\ load[y].pc = "wait" => YoungHours(load[y].of, n)
Young(y, l, n) == IF l = "hours" THEN YoungHours(y, n) ELSE YoungComplete(y, n)

\* A process that knows nothing from longer than n ago, n since a refresh there.
EntryNotOlder(entry, n) == entry # Absent => NotOlder(entry.value, n)
KnowsNothingOlder(p, n) ==
    \A l \in Layers : /\ EntryNotOlder(memory[p][l], n) /\ EntryNotOlder(redis[l], n)
                      /\ building[p][l] # Absent => Young(building[p][l], l, n)

\* A refresh that nobody has crossed, and what it may come to know.
Watched(q) == q.pc \notin {"idle", "clear"} /\ q.cleared # Absent /\ ~q.excused
FreshFor(q) ==
    /\ KnowsNothingOlder(q.at, q.cleared)
    /\ NotOlder(q.value, q.cleared) /\ NotOlder(q.got, q.cleared)
    /\ q.pc = "wait" => Young(q.of, q.layer, q.cleared)

CacheIInv ==
    /\ StoresOK /\ LoadsOK /\ LinksOK
    /\ \A r \in Requests : Watched(load[r]) => FreshFor(load[r])

-----------------------------------------------------------------------------
(* How a step keeps it.                                                       *)

LEMMA LoadsTyped ==
    ASSUME LoadsOK, NEW r \in Requests, load[r].pc # "idle"
    PROVE  /\ load[r] \in Load /\ Shaped(load[r]) /\ Aged(load[r])
           /\ load[r].at \in Processes /\ load[r].layer \in Layers
           /\ load[r].value \in Values \cup {Absent} /\ load[r].got \in Values \cup {Absent}
           /\ load[r].cleared \in Nat \cup {Absent} /\ load[r].of \in Requests \cup {Absent}
<1>1. LoadOK(load[r])
  BY DEF LoadsOK
<1>2. load[r] \in Load /\ Shaped(load[r]) /\ Aged(load[r])
  BY <1>1, IdleApart
<1> QED
  BY <1>2 DEF Load

\* What a request waits for is what it waited for, or the build under way.
WaitsAsBefore(x) ==
    load'[x].pc = "wait" =>
        /\ load[x].pc # "idle" /\ load'[x].at = load[x].at /\ load'[x].layer = load[x].layer
        /\ load'[x].of \in Requests
        /\ \/ load[x].pc = "wait" /\ load'[x].of = load[x].of
           \/ building[load[x].at][load[x].layer] = load'[x].of

\* A build goes on, or nobody waits for it any more.
BuildsOn(z, l) ==
    Has(load[z], l) =>
        \/ Has(load'[z], l) /\ load'[z].at = load[z].at
        \/ /\ building'[load[z].at][l] # z
           /\ \A x \in Requests : load'[x].pc = "wait" /\ load'[x].layer = l => load'[x].of # z

\* A process has the same build under way, none, or a new one.
SameOrNewBuild(p, l) ==
    \/ building'[p][l] \in {Absent, building[p][l]}
    \/ building'[p][l] \in Requests /\ Has(load'[building'[p][l]], l) /\ load'[building'[p][l]].at = p

LEMMA LinksStay ==
    ASSUME StoresOK, LoadsOK, LinksOK, StoresOK', LoadsOK',
           \A x \in Requests : WaitsAsBefore(x),
           \A z \in Requests, l \in Layers : BuildsOn(z, l),
           \A p \in Processes, l \in Layers : SameOrNewBuild(p, l)
    PROVE  LinksOK'
<1>1. ASSUME NEW p \in Processes, NEW l \in Layers PROVE BuilderOK(p, l)'
  <2> SUFFICES ASSUME building'[p][l] # Absent, building'[p][l] = building[p][l]
               PROVE  Has(load'[building'[p][l]], l) /\ load'[building'[p][l]].at = p
    BY DEF BuilderOK, SameOrNewBuild
  <2> DEFINE z == building[p][l]
  <2>1. z \in Requests /\ z # Absent
    BY DEF StoresOK
  <2>2. Has(load[z], l) /\ load[z].at = p
    BY <2>1 DEF LinksOK, BuilderOK
  <2>3. BuildsOn(z, l)
    BY <2>1
  <2> QED
    BY <2>2, <2>3 DEF BuildsOn
<1>2. ASSUME NEW x \in Requests PROVE WaiterOK(x)'
  <2> SUFFICES ASSUME load'[x].pc = "wait"
               PROVE  Has(load'[load'[x].of], load'[x].layer) /\ load'[load'[x].of].at = load'[x].at
    BY DEF WaiterOK
  <2> DEFINE z == load'[x].of
             l == load'[x].layer
  <2>1. /\ load[x].pc # "idle" /\ load'[x].at = load[x].at /\ l = load[x].layer /\ z \in Requests
        /\ \/ load[x].pc = "wait" /\ z = load[x].of
           \/ building[load[x].at][load[x].layer] = z
    BY DEF WaitsAsBefore
  <2>2. load[x].at \in Processes /\ load[x].layer \in Layers
    BY <2>1, LoadsTyped
  <2>3. Has(load[z], l) /\ load[z].at = load[x].at
    BY <2>1, <2>2, AbsentApart DEF LinksOK, WaiterOK, BuilderOK
  <2>4. BuildsOn(z, l)
    BY <2>1, <2>2
  <2> QED
    BY <2>1, <2>3, <2>4 DEF BuildsOn
<1> QED
  BY <1>1, <1>2 DEF LinksOK

\* What a request does next to builds of others that have nothing older than n,
\* it then has nothing older than m.
StaysYoung(y, n, m) ==
    /\ Has(load[y], "hours") /\ Has(load'[y], "hours") /\ NotOlder(load[y].got, n)
          => NotOlder(load'[y].got, m)
    /\ Has(load[y], "complete") /\ Has(load'[y], "complete") /\ YoungComplete(y, n)
          => NotOlder(load'[y].value, m) /\ NotOlder(load'[y].got, m)

LEMMA YoungStay ==
    ASSUME StoresOK, LoadsOK, LinksOK, LoadsOK', LinksOK',
           \A x \in Requests : WaitsAsBefore(x),
           NEW p \in Processes, NEW n \in Nat, NEW m \in Nat, KnowsNothingOlder(p, n),
           \A y \in Requests : load[y].pc # "idle" /\ load[y].at = p => StaysYoung(y, n, m),
           NEW y \in Requests, NEW l \in Layers, Has(load[y], l), Has(load'[y], l),
           load[y].at = p, Young(y, l, n)
    PROVE  Young(y, l, m)'
<1>0. load[y].pc # "idle" /\ load'[y].pc # "idle" /\ StaysYoung(y, n, m)
  BY DEF Has
<1>1. CASE l = "hours"
  BY <1>0, <1>1 DEF StaysYoung, Young, YoungHours
<1>2. CASE l = "complete"
  <2>1. YoungComplete(y, n)
    BY <1>2 DEF Young
  <2>2. NotOlder(load'[y].value, m) /\ NotOlder(load'[y].got, m)
    BY <1>0, <1>2, <2>1 DEF StaysYoung
  <2>3. ASSUME load'[y].pc = "wait" PROVE NotOlder(load'[load'[y].of].got, m)
    <3> DEFINE z == load'[y].of
    <3>1. /\ load'[y].at = load[y].at /\ load'[y].layer = load[y].layer /\ z \in Requests
          /\ \/ load[y].pc = "wait" /\ z = load[y].of
             \/ building[load[y].at][load[y].layer] = z
      BY <2>3 DEF WaitsAsBefore
    <3>2. Shaped(load'[y])
      BY <1>0, LoadsTyped, IdleApart DEF LoadsOK
    <3>3. load'[y].layer = "hours"
      BY <1>2, <2>3, <3>2 DEF Shaped, BuildsOf, Under, InHours, Has
    <3>4. Has(load'[z], "hours")
      BY <2>3, <3>3 DEF LinksOK, WaiterOK
    <3>5. Has(load[z], "hours") /\ load[z].at = p /\ NotOlder(load[z].got, n)
      <4>1. CASE load[y].pc = "wait" /\ z = load[y].of
        BY <2>1, <3>1, <3>3, <4>1 DEF LinksOK, WaiterOK, YoungComplete, YoungHours
      <4>2. CASE building[load[y].at][load[y].layer] = z
        <5>1. building[p]["hours"] = z /\ z # Absent /\ "hours" \in Layers
          BY <3>1, <3>3, <4>2, AbsentApart DEF Layers
        <5> QED
          BY <3>1, <5>1 DEF LinksOK, BuilderOK, KnowsNothingOlder, Young, YoungHours
      <4> QED
        BY <3>1, <4>1, <4>2
    <3>6. StaysYoung(z, n, m)
      BY <3>1, <3>5 DEF Has
    <3> QED
      BY <3>4, <3>5, <3>6 DEF StaysYoung
  <2> QED
    BY <1>2, <2>2, <2>3 DEF Young, YoungComplete, YoungHours
<1> QED
  BY <1>1, <1>2 DEF Layers

\* A new build has nothing yet.
NewBuildIsEmpty(p, l) ==
    \/ building'[p][l] \in {Absent, building[p][l]}
    \/ /\ load'[building'[p][l]].got = Absent /\ load'[building'[p][l]].pc # "wait"
       /\ l = "complete" => load'[building'[p][l]].value = Absent

\* A refresh stays fresh in a step after which it and its process know nothing older.
LEMMA FreshStays ==
    ASSUME StoresOK, LoadsOK, LinksOK, StoresOK', LoadsOK', LinksOK',
           \A x \in Requests : WaitsAsBefore(x),
           NEW p \in Processes, NEW n \in Nat, NEW m \in Nat, KnowsNothingOlder(p, n),
           \A y \in Requests : load[y].pc # "idle" /\ load[y].at = p => StaysYoung(y, n, m),
           \A l \in Layers : /\ NewBuildIsEmpty(p, l)
                             /\ EntryNotOlder(memory'[p][l], m) /\ EntryNotOlder(redis'[l], m),
           NEW x \in Requests, load[x].pc # "idle", load[x].at = p,
           load[x].pc = "wait" => Young(load[x].of, load[x].layer, n),
           load'[x].pc # "idle", load'[x].at = p, load'[x].cleared = m,
           NotOlder(load'[x].value, m), NotOlder(load'[x].got, m)
    PROVE  FreshFor(load[x])'
<1>1. ASSUME NEW l \in Layers, (building[p][l] # Absent)' PROVE Young(building[p][l], l, m)'
  <2>1. PICK z \in Requests : z = building'[p][l]
    BY <1>1 DEF StoresOK
  <2>2. CASE z = building[p][l]
    <3>1. Has(load[z], l) /\ load[z].at = p /\ Young(z, l, n) /\ Has(load'[z], l)
      BY <1>1, <2>1, <2>2 DEF LinksOK, BuilderOK, KnowsNothingOlder
    <3>2. Young(z, l, m)'
      BY <3>1, YoungStay
    <3> QED
      BY <2>1, <3>2 DEF Young, YoungHours, YoungComplete
  <2>3. CASE z # building[p][l]
    <3>1. /\ load'[z].got = Absent /\ load'[z].pc # "wait"
          /\ l = "complete" => load'[z].value = Absent
      BY <1>1, <2>1, <2>3 DEF NewBuildIsEmpty
    <3>2. Young(z, l, m)'
      BY <3>1 DEF Young, YoungHours, YoungComplete, NotOlder, Layers
    <3> QED
      BY <2>1, <3>2 DEF Young, YoungHours, YoungComplete
  <2> QED
    BY <2>2, <2>3
<1>2. KnowsNothingOlder(p, m)'
  BY <1>1 DEF KnowsNothingOlder
<1>3. ASSUME load'[x].pc = "wait" PROVE Young(load[x].of, load[x].layer, m)'
  <2>1. /\ load'[x].at = load[x].at /\ load'[x].layer = load[x].layer /\ load'[x].of \in Requests
        /\ \/ load[x].pc = "wait" /\ load'[x].of = load[x].of
           \/ building[p][load[x].layer] = load'[x].of
    BY <1>3 DEF WaitsAsBefore
  <2>2. PICK l \in Layers : l = load'[x].layer
    BY <2>1, LoadsTyped
  <2>3. PICK z \in Requests : z = load'[x].of
    BY <2>1
  <2>4. Has(load'[z], l)
    BY <1>3, <2>2, <2>3 DEF LinksOK, WaiterOK
  <2>5. Has(load[z], l) /\ load[z].at = p /\ Young(z, l, n)
    <3>1. CASE load[x].pc = "wait" /\ z = load[x].of
      BY <2>1, <2>2, <3>1 DEF LinksOK, WaiterOK
    <3>2. CASE building[p][l] = z
      <4>1. building[p][l] # Absent
        BY <3>2, AbsentApart
      <4> QED
        BY <3>2, <4>1 DEF LinksOK, BuilderOK, KnowsNothingOlder
    <3> QED
      BY <2>1, <2>2, <2>3, <3>1, <3>2
  <2>6. Young(z, l, m)'
    BY <2>4, <2>5, YoungStay
  <2> QED
    BY <2>2, <2>3, <2>6 DEF Young, YoungHours, YoungComplete
<1> QED
  BY <1>2, <1>3 DEF FreshFor

\* Values and how old they are.
LEMMA NewIsNotOlder ==
    ASSUME NEW n \in Nat
    PROVE  /\ NotOlder(Absent, n)
           /\ \A v \in Values : (\A part \in DOMAIN v : v[part] = 0) => NotOlder(v, n)
  BY DEF NotOlder

LEMMA WholeNotOlder ==
    ASSUME NEW t \in [{"tickets"} -> Nat], NEW h \in ValuesOf("hours"), NEW n \in Nat,
           NotOlder(t, n), NotOlder(h, n)
    PROVE  NotOlder([tickets |-> t.tickets, hours |-> h.hours], n)
<1> DEFINE w == [tickets |-> t.tickets, hours |-> h.hours]
<1>1. w = [part \in {"tickets", "hours"} |-> IF part = "tickets" THEN t.tickets ELSE h.hours]
  OBVIOUS
<1> HIDE DEF w
<1>2. t # Absent /\ h # Absent
  BY AbsentApart DEF Layers
<1>3. t["tickets"] <= n /\ h["hours"] <= n
  BY <1>2 DEF NotOlder, ValuesOf
<1>4. NotOlder(w, n)
  BY <1>1, <1>3 DEF NotOlder
<1> QED
  BY <1>4 DEF w

\* What a request has loaded is not older than what it had and what it was given.
LEMMA LoadedNotOlder ==
    ASSUME NEW x, Ready(x), NEW v \in ValuesOf(x.layer), Within(v, x.layer, InMemoryAtMost(x.layer)),
           NEW n \in Nat, NotOlder(x.value, n), NotOlder(v, n)
    PROVE  NotOlder(Loaded(x, v).value, n) /\ NotOlder(Loaded(x, v).got, n)
<1>1. /\ Loaded(x, v).got = Absent
      /\ Loaded(x, v).value = IF InHours(x) THEN [tickets |-> x.value.tickets, hours |-> v.hours] ELSE v
  BY LoadedKeeps
<1>2. CASE InHours(x)
  <2>1. x.value \in [{"tickets"} -> Nat] /\ v \in ValuesOf("hours")
    BY <1>2 DEF Ready, InHours
  <2> QED
    BY <1>1, <1>2, <2>1, WholeNotOlder, NewIsNotOlder
<1> QED
  BY <1>1, <1>2, NewIsNotOlder

-----------------------------------------------------------------------------
(* Steps of one request that write no cache.                                  *)

Joins(r, y) == y.pc = "wait" =>
    y.layer = load[r].layer /\ y.of \in Requests /\ y.of = building[y.at][y.layer]

\* The build of a layer goes on, or is one that r begins.
OnlyRBegins(r, y) ==
    \A p \in Processes, l \in Layers :
        \/ building'[p][l] = building[p][l]
        \/ /\ p = y.at /\ building'[p][l] = r /\ l \in y.builds
           /\ y.got = Absent /\ y.pc # "wait" /\ (l = "complete" => y.value = Absent)

\* What r has from now on is not older than what it had and the caches.
GetsNothingOlder(r, y) ==
    \A n \in Nat :
        /\ Has(load[r], "hours") /\ NotOlder(load[r].got, n) => NotOlder(y.got, n)
        /\ KnowsNothingOlder(y.at, n) /\ NotOlder(load[r].value, n) /\ NotOlder(load[r].got, n)
              => NotOlder(y.value, n) /\ NotOlder(y.got, n)

Goes(r, y) ==
    /\ load' = [load EXCEPT ![r] = y] /\ memory' = memory /\ redis' = redis
    /\ Shaped(y) /\ Aged(y) /\ y.at = load[r].at /\ load[r].builds \subseteq y.builds
    /\ y.cleared = load[r].cleared /\ y.excused = load[r].excused
    /\ Joins(r, y) /\ OnlyRBegins(r, y) /\ GetsNothingOlder(r, y)

LEMMA LoadBecomes ==
    ASSUME LoadsOK, NEW r \in Requests, NEW y, y = Idle \/ (Shaped(y) /\ Aged(y)),
           load' = [load EXCEPT ![r] = y]
    PROVE  /\ LoadsOK' /\ load'[r] = y
           /\ \A x \in Requests \ {r} : load'[x] = load[x]
  BY DEF LoadsOK, LoadOK, Shaped

LEMMA OneGoes ==
    ASSUME CacheIInv, StoresOK', NEW r \in Requests, load[r].pc \notin {"idle", "wait", "clear"},
           NEW y, Goes(r, y)
    PROVE  CacheIInv'
<1>0. /\ StoresOK /\ LoadsOK /\ LinksOK /\ Shaped(load[r]) /\ load[r].at \in Processes
      /\ load[r].cleared \in Nat \cup {Absent}
  BY LoadsTyped DEF CacheIInv
<1>1. /\ LoadsOK' /\ load'[r] = y /\ \A x \in Requests \ {r} : load'[x] = load[x]
  BY <1>0, LoadBecomes DEF Goes
<1>2. y.pc # "idle" /\ y.at \in Processes
  BY <1>0 DEF Goes, Shaped, Load, LoadPCs
<1>3. \A x \in Requests : WaitsAsBefore(x)
  <2> TAKE x \in Requests
  <2>1. CASE x = r
    BY <1>1, <2>1 DEF Goes, Joins, WaitsAsBefore
  <2>2. CASE x # r
    <3>1. load[x].pc = "wait" => load[x].of \in Requests
      BY <1>0, LoadsTyped DEF Shaped
    <3> QED
      BY <1>1, <2>2, <3>1 DEF WaitsAsBefore
  <2> QED
    BY <2>1, <2>2
<1>4. \A z \in Requests, l \in Layers : BuildsOn(z, l)
  BY <1>1, <1>2 DEF Goes, BuildsOn, Has
<1>5. \A p \in Processes, l \in Layers : SameOrNewBuild(p, l)
  BY <1>1, <1>2 DEF Goes, OnlyRBegins, SameOrNewBuild, Has
<1>6. LinksOK'
  BY <1>0, <1>1, <1>3, <1>4, <1>5, LinksStay
<1>7. ASSUME NEW x \in Requests, Watched(load[x])' PROVE FreshFor(load[x])'
  <2>1. /\ Watched(load[x]) /\ load'[x].at = load[x].at /\ load'[x].cleared = load[x].cleared
        /\ load'[x].pc # "idle"
    BY <1>1, <1>2, <1>7 DEF Goes, Watched
  <2>2. load[x].pc # "idle" /\ FreshFor(load[x])
    BY <2>1 DEF CacheIInv, Watched
  <2>3. PICK p \in Processes, n \in Nat : p = load[x].at /\ n = load[x].cleared
    BY <1>0, <2>1, <2>2, LoadsTyped DEF Watched
  <2>4. KnowsNothingOlder(p, n) /\ NotOlder(load[x].value, n) /\ NotOlder(load[x].got, n)
    BY <2>2, <2>3 DEF FreshFor
  <2>5. ASSUME NEW z \in Requests, load[z].pc # "idle", load[z].at = p PROVE StaysYoung(z, n, n)
    <3>1. CASE z = r
      BY <1>1, <2>4, <2>5, <3>1 DEF Goes, GetsNothingOlder, StaysYoung, YoungComplete
    <3>2. CASE z # r
      BY <1>1, <3>2 DEF StaysYoung, YoungComplete
    <3> QED
      BY <3>1, <3>2
  <2>6. ASSUME NEW l \in Layers
        PROVE  /\ NewBuildIsEmpty(p, l)
               /\ EntryNotOlder(memory'[p][l], n) /\ EntryNotOlder(redis'[l], n)
    BY <1>1, <2>4 DEF Goes, OnlyRBegins, NewBuildIsEmpty, KnowsNothingOlder
  <2>7. NotOlder(load'[x].value, n) /\ NotOlder(load'[x].got, n)
    <3>1. CASE x = r
      BY <1>1, <2>3, <2>4, <3>1 DEF Goes, GetsNothingOlder
    <3>2. CASE x # r
      BY <1>1, <2>4, <3>2
    <3> QED
      BY <3>1, <3>2
  <2>8. load[x].pc = "wait" => Young(load[x].of, load[x].layer, n)
    BY <2>2, <2>3 DEF FreshFor
  <2> QED
    BY <1>0, <1>1, <1>3, <1>6, <2>1, <2>2, <2>3, <2>4, <2>5, <2>6, <2>7, <2>8, FreshStays
<1> QED
  BY <1>1, <1>6, <1>7 DEF CacheIInv

-----------------------------------------------------------------------------
(* The steps of one request.                                                  *)

LEMMA CountsTyped ==
    ASSUME events \in 0..MaxEvents, NEW n \in Nat, Counts(n) PROVE events' \in 0..MaxEvents
  BY CacheAssumption DEF Counts

LEMMA StoresUnchanged ==
    ASSUME StoresOK, UNCHANGED <<useRedis, memory, redis, building>>, events' \in 0..MaxEvents
    PROVE  StoresOK'
  BY DEF StoresOK

\* The value of an entry.
LEMMA EntryValue ==
    ASSUME NEW l \in Layers, NEW e, NEW n \in Nat, EntryOK(e, l, n), e # Absent
    PROVE  /\ e.value \in ValuesOf(l) /\ Within(e.value, l, n)
           /\ e.left \in Nat \ {0} /\ e.left <= LongestTtl
<1>1. /\ e.value \in ValuesOf(l) /\ e.left \in 1..LongestTtl
      /\ Within(e.value, l, n + 1 - e.left)
  BY DEF EntryOK
<1>2. e.value \in Values /\ e.left \in Nat \ {0} /\ n + 1 - e.left \in Int /\ n + 1 - e.left <= n
  BY <1>1, AbsentApart, TimesTyped
<1> QED
  BY <1>1, <1>2, TimesTyped, WithinMore

LEMMA LookKeeps ==
    ASSUME CacheIInv, NEW r \in Requests, Look(r) PROVE CacheIInv'
<1> DEFINE q == load[r]
           entry == memory[q.at][q.layer]
<1>1. /\ q.pc = "look" /\ Shaped(q) /\ Aged(q) /\ q.at \in Processes /\ q.layer \in Layers
      /\ q.value \in Values \cup {Absent} /\ q.got = Absent
  <2>1. q.pc = "look"
    BY DEF Look
  <2> QED
    BY <2>1, LoadsTyped DEF CacheIInv, Shaped
<1>2. StoresOK /\ UNCHANGED <<useRedis, memory, redis, building>>
  BY DEF CacheIInv, Look
<1>3. Ready(q)
  BY <1>1, AsksIsReady
<1>4. CASE entry # Absent
  <2> DEFINE y == Loaded(q, entry.value)
  <2>1. load' = [load EXCEPT ![r] = y] /\ Counts(0)
    BY <1>4 DEF Look
  <2>2. EntryOK(entry, q.layer, InMemoryAtMost(q.layer))
    BY <1>1, <1>2 DEF StoresOK
  <2>3. entry.value \in ValuesOf(q.layer) /\ Within(entry.value, q.layer, InMemoryAtMost(q.layer))
    BY <1>1, <1>4, <2>2, EntryValue, TimesTyped
  <2>4. /\ Shaped(y) /\ Aged(y) /\ y.pc \in {"store", "answered"} /\ y.builds = q.builds
        /\ y.at = q.at /\ y.cleared = q.cleared /\ y.excused = q.excused /\ y.got = Absent
    BY <1>3, <2>3, LoadedKeeps
  <2>5. ASSUME NEW n \in Nat, KnowsNothingOlder(q.at, n), NotOlder(q.value, n)
        PROVE  NotOlder(y.value, n) /\ NotOlder(y.got, n)
    <3>1. NotOlder(entry.value, n)
      BY <1>1, <1>4, <2>5 DEF KnowsNothingOlder, EntryNotOlder
    <3> QED
      BY <1>3, <2>3, <2>5, <3>1, LoadedNotOlder
  <2> HIDE DEF y
  <2>6. Goes(r, y)
    BY <1>2, <2>1, <2>4, <2>5, NewIsNotOlder DEF Goes, Joins, OnlyRBegins, GetsNothingOlder
  <2>7. StoresOK'
    BY <1>2, <2>1, CountsTyped, StoresUnchanged DEF StoresOK
  <2> QED
    BY <1>1, <2>6, <2>7, OneGoes
<1>5. CASE entry = Absent
  <2>1. PICK found \in {Absent, redis[q.layer]} :
           /\ load' = [load EXCEPT ![r].pc = "take",
                                   ![r].got = IF found = Absent THEN Absent ELSE found.value]
           /\ Counts(IF found = redis[q.layer] THEN 0 ELSE 1)
    BY <1>5 DEF Look
  <2>2. PICK v : v = IF found = Absent THEN Absent ELSE found.value
    OBVIOUS
  <2> DEFINE y == [q EXCEPT !.pc = "take", !.got = v]
  <2>3. load' = [load EXCEPT ![r] = y]
    BY <2>1, <2>2
  <2>4. v # Absent => found # Absent /\ found = redis[q.layer] /\ v = found.value
    BY <2>2
  <2>5. EntryOK(redis[q.layer], q.layer, InRedisAtMost(q.layer))
    BY <1>1, <1>2 DEF StoresOK
  <2>6. /\ v \in ValuesOf(q.layer) \cup {Absent}
        /\ v # Absent => Within(v, q.layer, InRedisAtMost(q.layer))
    BY <1>1, <2>4, <2>5, EntryValue, TimesTyped
  <2>7. /\ Shaped(y) /\ Aged(y) /\ y.pc = "take" /\ y.builds = q.builds /\ y.at = q.at
        /\ y.value = q.value /\ y.got = v /\ y.cleared = q.cleared /\ y.excused = q.excused
    BY <1>1, <2>6, TakesKeeps
  <2>8. ASSUME NEW n \in Nat, KnowsNothingOlder(q.at, n) PROVE NotOlder(v, n)
    BY <1>1, <2>4, <2>8 DEF KnowsNothingOlder, EntryNotOlder, NotOlder
  <2>9. ~Has(q, "hours")
    BY <1>1 DEF Has, Shaped, BuildsOf, Under
  <2> HIDE DEF y
  <2>10. Goes(r, y)
    BY <1>2, <2>3, <2>7, <2>8, <2>9 DEF Goes, Joins, OnlyRBegins, GetsNothingOlder
  <2>11. StoresOK'
    <3>1. (IF found = redis[q.layer] THEN 0 ELSE 1) \in Nat
      OBVIOUS
    <3> QED
      BY <1>2, <2>1, <3>1, CountsTyped, StoresUnchanged DEF StoresOK
  <2> QED
    BY <1>1, <2>10, <2>11, OneGoes
<1> QED
  BY <1>4, <1>5

LEMMA ReadTicketsKeeps ==
    ASSUME CacheIInv, NEW r \in Requests, ReadTickets(r) PROVE CacheIInv'
<1> DEFINE q == load[r]
           y == [q EXCEPT !.pc = "look", !.layer = "hours", !.value = [tickets |-> 0]]
<1>1. /\ q.pc = "build" /\ q.layer = "complete" /\ load' = [load EXCEPT ![r] = y]
      /\ UNCHANGED <<useRedis, memory, redis, building, events>>
  BY DEF ReadTickets
<1>2. Shaped(q) /\ Aged(q)
  BY <1>1, LoadsTyped DEF CacheIInv
<1>3. /\ Shaped(y) /\ Aged(y) /\ y.pc = "look" /\ y.builds = q.builds /\ y.at = q.at
      /\ y.value \in Values /\ (\A part \in DOMAIN y.value : y.value[part] = 0)
      /\ y.got = Absent /\ y.cleared = q.cleared /\ y.excused = q.excused
  BY <1>1, <1>2, ReadsTickets
<1> HIDE DEF y
<1>4. Goes(r, y)
  BY <1>1, <1>3, NewIsNotOlder DEF Goes, Joins, OnlyRBegins, GetsNothingOlder
<1>5. StoresOK'
  BY <1>1, StoresUnchanged DEF CacheIInv, StoresOK
<1> QED
  BY <1>1, <1>4, <1>5, OneGoes

LEMMA ReadHoursKeeps ==
    ASSUME CacheIInv, NEW r \in Requests, ReadHours(r) PROVE CacheIInv'
<1> DEFINE q == load[r]
           y == [q EXCEPT !.pc = "store", !.got = [hours |-> 0]]
<1>1. /\ q.pc = "build" /\ q.layer = "hours" /\ load' = [load EXCEPT ![r] = y]
      /\ UNCHANGED <<useRedis, memory, redis, building, events>>
  BY DEF ReadHours
<1>2. Shaped(q) /\ Aged(q)
  BY <1>1, LoadsTyped DEF CacheIInv
<1>3. /\ Shaped(y) /\ Aged(y) /\ y.pc = "store" /\ y.builds = q.builds /\ y.at = q.at
      /\ y.got \in Values /\ (\A part \in DOMAIN y.got : y.got[part] = 0)
      /\ y.value = q.value /\ y.cleared = q.cleared /\ y.excused = q.excused
  BY <1>1, <1>2, ReadsHours
<1> HIDE DEF y
<1>4. Goes(r, y)
  BY <1>1, <1>3, NewIsNotOlder DEF Goes, Joins, OnlyRBegins, GetsNothingOlder
<1>5. StoresOK'
  BY <1>1, StoresUnchanged DEF CacheIInv, StoresOK
<1> QED
  BY <1>1, <1>4, <1>5, OneGoes

\* A request that finds nothing in Redis joins the build under way or begins one.
LEMMA TakeNothingKeeps ==
    ASSUME CacheIInv, NEW r \in Requests, Take(r), load[r].got = Absent PROVE CacheIInv'
<1> DEFINE q == load[r]
<1>1. q.pc = "take" /\ q.got = Absent /\ UNCHANGED <<useRedis, redis, events, memory>>
  BY DEF Take
<1>2. /\ Shaped(q) /\ Aged(q) /\ q.at \in Processes /\ q.layer \in Layers /\ StoresOK
      /\ q.value \in Values \cup {Absent}
  BY <1>1, LoadsTyped DEF CacheIInv
<1>3. CASE building[q.at][q.layer] # Absent
  <2>1. PICK z \in Requests : z = building[q.at][q.layer]
    BY <1>2, <1>3 DEF StoresOK
  <2> DEFINE y == [q EXCEPT !.pc = "wait", !.of = z]
  <2>2. load' = [load EXCEPT ![r] = y] /\ building' = building
    BY <1>3, <2>1 DEF Take
  <2>3. /\ Shaped(y) /\ Aged(y) /\ y.pc = "wait" /\ y.builds = q.builds /\ y.at = q.at
        /\ y.of = z /\ y.layer = q.layer /\ y.value = q.value /\ y.got = Absent
        /\ y.cleared = q.cleared /\ y.excused = q.excused
    BY <1>1, <1>2, JoinsKeeps
  <2> HIDE DEF y
  <2>4. Goes(r, y)
    BY <1>1, <2>1, <2>2, <2>3, NewIsNotOlder DEF Goes, Joins, OnlyRBegins, GetsNothingOlder
  <2>5. StoresOK'
    BY <1>1, <1>2, <2>2, StoresUnchanged DEF StoresOK
  <2> QED
    BY <1>1, <2>4, <2>5, OneGoes
<1>4. CASE building[q.at][q.layer] = Absent
  <2> DEFINE y == [q EXCEPT !.pc = "build", !.builds = @ \cup {q.layer}]
  <2>1. /\ load' = [load EXCEPT ![r] = y]
        /\ building' = [building EXCEPT ![q.at][q.layer] = r]
    BY <1>4 DEF Take
  <2>2. /\ Shaped(y) /\ Aged(y) /\ y.pc = "build" /\ y.builds = q.builds \cup {q.layer} /\ y.at = q.at
        /\ y.value = q.value /\ y.got = Absent /\ y.cleared = q.cleared /\ y.excused = q.excused
    BY <1>1, <1>2, BuildsKeeps
  <2> HIDE DEF y
  <2>3. q.layer = "complete" => q.value = Absent
    BY <1>1, <1>2 DEF Shaped, IsWhole, InHours
  <2>4. \A p \in Processes, l \in Layers :
           building'[p][l] = IF p = q.at /\ l = q.layer THEN r ELSE building[p][l]
    BY <1>2, <2>1 DEF StoresOK
  <2>5. OnlyRBegins(r, y)
    BY <2>2, <2>3, <2>4 DEF OnlyRBegins
  <2>6. Goes(r, y)
    BY <1>1, <2>1, <2>2, <2>5, NewIsNotOlder DEF Goes, Joins, GetsNothingOlder
  <2>7. StoresOK'
    <3>1. building' \in [Processes -> [Layers -> Requests \cup {Absent}]]
      BY <1>2, <2>1 DEF StoresOK
    <3> QED
      BY <1>1, <1>2, <3>1 DEF StoresOK
  <2> QED
    BY <1>1, <2>6, <2>7, OneGoes
<1> QED
  BY <1>3, <1>4

-----------------------------------------------------------------------------
(* Steps of a request that builds nothing, and of the memory alone.           *)

\* A refresh that goes on, and that nobody has crossed, knows nothing older.
FreshGoesOn(x, p, n, m) ==
    /\ \A y \in Requests : load[y].pc # "idle" /\ load[y].at = p => StaysYoung(y, n, m)
    /\ \A l \in Layers : /\ NewBuildIsEmpty(p, l)
                         /\ EntryNotOlder(memory'[p][l], m) /\ EntryNotOlder(redis'[l], m)
    /\ load'[x].pc # "idle" /\ load'[x].at = p /\ load'[x].cleared = m
    /\ NotOlder(load'[x].value, m) /\ NotOlder(load'[x].got, m)

\* What a step has to show of the requests it leaves watched.
StaysFresh(x) ==
    /\ Watched(load[x])
    /\ \E m \in Nat : FreshGoesOn(x, load[x].at, load[x].cleared, m)

LEMMA StepKeeps ==
    ASSUME CacheIInv, StoresOK', LoadsOK',
           \A x \in Requests : WaitsAsBefore(x),
           \A z \in Requests, l \in Layers : BuildsOn(z, l),
           \A p \in Processes, l \in Layers : SameOrNewBuild(p, l),
           \A x \in Requests : Watched(load[x])' => StaysFresh(x) \/ FreshFor(load[x])'
    PROVE  CacheIInv'
<1>1. StoresOK /\ LoadsOK /\ LinksOK
  BY DEF CacheIInv
<1>2. LinksOK'
  BY <1>1, LinksStay
<1>3. ASSUME NEW x \in Requests, StaysFresh(x) PROVE FreshFor(load[x])'
  <2>1. load[x].pc # "idle" /\ FreshFor(load[x]) /\ load[x].cleared # Absent
    BY <1>3 DEF CacheIInv, StaysFresh, Watched
  <2>2. PICK p \in Processes, n \in Nat : p = load[x].at /\ n = load[x].cleared
    BY <1>1, <2>1, LoadsTyped
  <2>3. PICK m \in Nat : FreshGoesOn(x, p, n, m)
    BY <1>3, <2>2 DEF StaysFresh
  <2>4. KnowsNothingOlder(p, n) /\ (load[x].pc = "wait" => Young(load[x].of, load[x].layer, n))
    BY <2>1, <2>2 DEF FreshFor
  <2> QED
    BY <1>1, <1>2, <2>1, <2>2, <2>3, <2>4, FreshStays DEF FreshGoesOn
<1> QED
  BY <1>2, <1>3 DEF CacheIInv

\* What a watched refresh knows.
LEMMA WatchedKnows ==
    ASSUME CacheIInv, NEW x \in Requests, Watched(load[x])
    PROVE  /\ load[x].pc # "idle" /\ load[x].at \in Processes /\ load[x].cleared \in Nat
           /\ KnowsNothingOlder(load[x].at, load[x].cleared)
           /\ NotOlder(load[x].value, load[x].cleared) /\ NotOlder(load[x].got, load[x].cleared)
           /\ load[x].pc = "wait" => Young(load[x].of, load[x].layer, load[x].cleared)
  BY LoadsTyped DEF CacheIInv, Watched, FreshFor

LEMMA WhomOneWaitsFor ==
    ASSUME LoadsOK, NEW x \in Requests, load[x].pc = "wait"
    PROVE  load[x].of \in Requests
  BY LoadsTyped DEF Shaped

LEMMA BeginsOrEnds ==
    ASSUME CacheIInv, StoresOK', UNCHANGED <<memory, redis, building>>,
           NEW r \in Requests, \A l \in Layers : ~Has(load[r], l),
           NEW y, load' = [load EXCEPT ![r] = y], y = Idle \/ (Shaped(y) /\ Aged(y)),
           y.pc # "wait", ~Watched(y)
    PROVE  CacheIInv'
<1>1. /\ StoresOK /\ LoadsOK /\ LoadsOK' /\ load'[r] = y
      /\ \A x \in Requests \ {r} : load'[x] = load[x]
  BY LoadBecomes DEF CacheIInv
<1>2. \A x \in Requests : WaitsAsBefore(x)
  BY <1>1, WhomOneWaitsFor DEF WaitsAsBefore
<1>3. \A z \in Requests, l \in Layers : BuildsOn(z, l)
  BY <1>1 DEF BuildsOn
<1>4. \A p \in Processes, l \in Layers : SameOrNewBuild(p, l) /\ NewBuildIsEmpty(p, l)
  BY DEF SameOrNewBuild, NewBuildIsEmpty
<1>5. ASSUME NEW x \in Requests, Watched(load[x])' PROVE StaysFresh(x)
  <2>1. load'[x] = load[x] /\ Watched(load[x])
    BY <1>1, <1>5
  <2>2. PICK p \in Processes, n \in Nat : p = load[x].at /\ n = load[x].cleared
    BY <2>1, WatchedKnows
  <2>3. ASSUME NEW z \in Requests PROVE StaysYoung(z, n, n)
    BY <1>1 DEF StaysYoung, YoungComplete, Has, Layers
  <2>4. FreshGoesOn(x, p, n, n)
    BY <1>4, <2>1, <2>2, <2>3, WatchedKnows DEF FreshGoesOn, KnowsNothingOlder
  <2> QED
    BY <2>1, <2>2, <2>4 DEF StaysFresh
<1> QED
  BY <1>1, <1>2, <1>3, <1>4, <1>5, StepKeeps

LEMMA BeginKeeps ==
    ASSUME CacheIInv, NEW r \in Requests, NEW kind \in Layers \cup {"refresh"}, NEW p \in Processes,
           Begin(r, kind, p)
    PROVE  CacheIInv'
<1> DEFINE y == IF kind = "refresh" THEN [Looks(kind, p) EXCEPT !.pc = "clear"] ELSE Looks(kind, p)
<1>1. /\ load[r].pc = "idle" /\ load' = [load EXCEPT ![r] = y] /\ Counts(1)
      /\ UNCHANGED <<useRedis, memory, redis, building>>
  BY DEF Begin
<1>2. /\ Shaped(y) /\ Aged(y) /\ y.pc \in {"look", "clear"} /\ (y.pc # "clear" => y.cleared = Absent)
  BY BeginsKeeps
<1> HIDE DEF y
<1>3. ~Watched(y) /\ \A l \in Layers : ~Has(load[r], l)
  BY <1>1, <1>2 DEF Watched, Has
<1>4. StoresOK'
  BY <1>1, CountsTyped, StoresUnchanged DEF CacheIInv, StoresOK
<1> QED
  BY <1>1, <1>2, <1>3, <1>4, BeginsOrEnds

LEMMA ReleaseKeeps ==
    ASSUME CacheIInv, NEW r \in Requests, Release(r) PROVE CacheIInv'
<1>1. /\ load[r].pc = "answered" /\ load' = [load EXCEPT ![r] = Idle]
      /\ UNCHANGED <<useRedis, memory, redis, building, events>>
  BY DEF Release
<1>2. Shaped(load[r])
  BY <1>1, LoadsTyped DEF CacheIInv
<1>3. \A l \in Layers : ~Has(load[r], l)
  BY <1>1, <1>2 DEF Has, Shaped, BuildsOf, Under
<1>4. StoresOK'
  BY <1>1, StoresUnchanged DEF CacheIInv, StoresOK
<1>5. ~Watched(Idle) /\ Idle.pc # "wait"
  BY DEF Watched, Idle
<1> QED
  BY <1>1, <1>3, <1>4, <1>5, BeginsOrEnds

LEMMA EvictKeeps ==
    ASSUME CacheIInv, NEW p \in Processes, NEW l \in Layers, Evict(p, l) PROVE CacheIInv'
<1>1. /\ memory' = [memory EXCEPT ![p][l] = Absent] /\ Counts(1)
      /\ UNCHANGED <<useRedis, redis, building, load>>
  BY DEF Evict
<1>2. StoresOK /\ LoadsOK /\ LoadsOK'
  BY <1>1 DEF CacheIInv, LoadsOK
<1>3. \A z \in Processes, k \in Layers :
         memory'[z][k] = IF z = p /\ k = l THEN Absent ELSE memory[z][k]
  BY <1>1, <1>2 DEF StoresOK
<1>4. StoresOK'
  <2>1. memory' \in [Processes -> [Layers -> Entries \cup {Absent}]] /\ events' \in 0..MaxEvents
    BY <1>1, <1>2, CountsTyped DEF StoresOK
  <2>2. \A z \in Processes, k \in Layers : EntryOK(memory'[z][k], k, InMemoryAtMost(k))
    BY <1>2, <1>3 DEF StoresOK, EntryOK
  <2> QED
    BY <1>1, <1>2, <2>1, <2>2 DEF StoresOK
<1>5. \A x \in Requests : WaitsAsBefore(x)
  BY <1>1, <1>2, WhomOneWaitsFor DEF WaitsAsBefore
<1>6. \A z \in Requests, k \in Layers : BuildsOn(z, k)
  BY <1>1 DEF BuildsOn
<1>7. \A z \in Processes, k \in Layers : SameOrNewBuild(z, k) /\ NewBuildIsEmpty(z, k)
  BY <1>1 DEF SameOrNewBuild, NewBuildIsEmpty
<1>8. ASSUME NEW x \in Requests, Watched(load[x])' PROVE StaysFresh(x)
  <2>1. load'[x] = load[x] /\ Watched(load[x])
    BY <1>1, <1>8
  <2>2. PICK z \in Processes, n \in Nat : z = load[x].at /\ n = load[x].cleared
    BY <2>1, WatchedKnows
  <2>3. ASSUME NEW y \in Requests PROVE StaysYoung(y, n, n)
    BY <1>1 DEF StaysYoung, YoungComplete
  <2>4. FreshGoesOn(x, z, n, n)
    BY <1>1, <1>3, <1>7, <2>1, <2>2, <2>3, WatchedKnows DEF FreshGoesOn, KnowsNothingOlder, EntryNotOlder
  <2> QED
    BY <2>1, <2>2, <2>4 DEF StaysFresh
<1> QED
  BY <1>2, <1>4, <1>5, <1>6, <1>7, <1>8, StepKeeps

\* A refresh clears both layers, or is excused: a DEL was lost.
LEMMA ClearKeeps ==
    ASSUME CacheIInv, NEW r \in Requests, Clear(r) PROVE CacheIInv'
<1>1. PICK p : p = load[r].at
  OBVIOUS
<1>2. load[r].pc = "clear"
  BY DEF Clear
<1>3. /\ StoresOK /\ LoadsOK /\ Shaped(load[r]) /\ Aged(load[r]) /\ p \in Processes
  BY <1>1, <1>2, LoadsTyped DEF CacheIInv
<1>4. /\ memory' = [memory EXCEPT ![p] = [l \in Layers |-> Absent]]
      /\ building' = [building EXCEPT ![p] = [l \in Layers |-> Absent]] /\ useRedis' = useRedis
  BY <1>1 DEF Clear, ForgetBuilds
<1>5. PICK lost \in SUBSET {l \in Layers : redis[l] # Absent} :
         /\ Counts(Cardinality(lost))
         /\ redis' = [l \in Layers |-> IF l \in lost THEN redis[l] ELSE Absent]
         /\ load' = [load EXCEPT ![r].pc = "look", ![r].cleared = 0, ![r].excused = lost # {}]
  BY DEF Clear
<1>6. PICK e \in BOOLEAN : e = (lost # {})
  OBVIOUS
<1>7. PICK q : q = load[r]
  OBVIOUS
<1> DEFINE y == [q EXCEPT !.pc = "look", !.cleared = 0, !.excused = e]
<1>8. load' = [load EXCEPT ![r] = y]
  BY <1>5, <1>6, <1>7
<1>9. /\ Shaped(y) /\ Aged(y) /\ y.pc = "look" /\ y.builds = {} /\ y.at = p
      /\ y.value = Absent /\ y.got = Absent /\ y.cleared = 0 /\ y.excused = e
  <2>1. Shaped(q) /\ Aged(q) /\ q.pc = "clear" /\ q.at = p
    BY <1>1, <1>2, <1>3, <1>7
  <2> QED
    BY <2>1, ClearsKeeps
<1> HIDE DEF y
<1>10. LoadsOK' /\ load'[r] = y /\ \A x \in Requests \ {r} : load'[x] = load[x]
  BY <1>3, <1>8, <1>9, LoadBecomes
<1>11. \A z \in Processes, l \in Layers :
          /\ memory'[z][l] = IF z = p THEN Absent ELSE memory[z][l]
          /\ building'[z][l] = IF z = p THEN Absent ELSE building[z][l]
  BY <1>3, <1>4 DEF StoresOK
<1>12. \A l \in Layers : redis'[l] = IF l \in lost THEN redis[l] ELSE Absent
  BY <1>5
<1>13. StoresOK'
  <2>1. Cardinality(lost) \in Nat
    <3>1. IsFiniteSet({} \cup {"complete"}) /\ IsFiniteSet(({} \cup {"complete"}) \cup {"hours"})
      BY FS_EmptySet, FS_AddElement
    <3>2. Layers = ({} \cup {"complete"}) \cup {"hours"} /\ lost \subseteq Layers
      BY DEF Layers
    <3> QED
      BY <3>1, <3>2, FS_Subset, FS_CardinalityType
  <2>2. events' \in 0..MaxEvents
    BY <1>3, <1>5, <2>1, CountsTyped DEF StoresOK
  <2>3. /\ memory' \in [Processes -> [Layers -> Entries \cup {Absent}]]
        /\ building' \in [Processes -> [Layers -> Requests \cup {Absent}]]
        /\ redis' \in [Layers -> Entries \cup {Absent}]
    BY <1>3, <1>4, <1>5 DEF StoresOK
  <2>4. \A l \in Layers : /\ EntryOK(redis'[l], l, InRedisAtMost(l))
                          /\ redis'[l] # Absent => useRedis'
                          /\ \A z \in Processes : EntryOK(memory'[z][l], l, InMemoryAtMost(l))
    BY <1>3, <1>4, <1>11, <1>12 DEF StoresOK, EntryOK
  <2> QED
    BY <1>3, <1>4, <2>2, <2>3, <2>4 DEF StoresOK
<1>14. ~Has(load[r], "hours") /\ ~Has(load[r], "complete")
  BY <1>2, <1>3 DEF Has, Shaped, BuildsOf, Under, InHours
<1>15. \A x \in Requests : WaitsAsBefore(x)
  BY <1>3, <1>9, <1>10, WhomOneWaitsFor DEF WaitsAsBefore
<1>16. \A z \in Requests, l \in Layers : BuildsOn(z, l)
  BY <1>10, <1>14 DEF BuildsOn, Layers
<1>17. \A z \in Processes, l \in Layers : SameOrNewBuild(z, l) /\ NewBuildIsEmpty(z, l)
  BY <1>11 DEF SameOrNewBuild, NewBuildIsEmpty
<1>18. ASSUME NEW x \in Requests, Watched(load[x])' PROVE StaysFresh(x) \/ FreshFor(load[x])'
  <2>1. CASE x = r
    <3>1. lost = {} /\ load'[x] = y
      BY <1>6, <1>9, <1>10, <1>18, <2>1 DEF Watched
    <3>2. KnowsNothingOlder(p, 0)'
      BY <1>3, <1>11, <1>12, <3>1 DEF KnowsNothingOlder, EntryNotOlder
    <3>3. NotOlder(y.value, 0) /\ NotOlder(y.got, 0)
      BY <1>9 DEF NotOlder
    <3> QED
      BY <1>9, <3>1, <3>2, <3>3 DEF FreshFor
  <2>2. CASE x # r
    <3>1. load'[x] = load[x] /\ Watched(load[x])
      BY <1>10, <1>18, <2>2
    <3>2. PICK z \in Processes, n \in Nat : z = load[x].at /\ n = load[x].cleared
      BY <3>1, WatchedKnows
    <3>3. ASSUME NEW w \in Requests PROVE StaysYoung(w, n, n)
      BY <1>10, <1>14 DEF StaysYoung, YoungComplete
    <3>4. FreshGoesOn(x, z, n, n)
      BY <1>11, <1>12, <1>17, <3>1, <3>2, <3>3, WatchedKnows DEF FreshGoesOn, KnowsNothingOlder, EntryNotOlder
    <3> QED
      BY <3>1, <3>2, <3>4 DEF StaysFresh
  <2> QED
    BY <2>1, <2>2
<1> QED
  BY <1>10, <1>13, <1>15, <1>16, <1>17, <1>18, StepKeeps

\* A build throws, and with it whoever waits for it.
LEMMA FailKeeps ==
    ASSUME CacheIInv, NEW r \in Requests, Fail(r) PROVE CacheIInv'
<1>1. PICK p, ls : p = load[r].at /\ ls = load[r].builds
  OBVIOUS
<1>2. /\ load[r].pc \in {"build", "rejected"} /\ Counts(IF load[r].pc = "build" THEN 1 ELSE 0)
      /\ building' = [building EXCEPT ![p] = [l \in Layers |-> IF l \in ls THEN Absent ELSE building[p][l]]]
      /\ load' = [x \in Requests |->
            IF x = r THEN Idle
            ELSE IF load[x].pc = "wait" /\ load[x].of = r THEN [load[x] EXCEPT !.pc = "rejected"]
            ELSE load[x]]
      /\ UNCHANGED <<useRedis, memory, redis>>
  BY <1>1 DEF Fail
<1>3. /\ StoresOK /\ LoadsOK /\ Shaped(load[r]) /\ p \in Processes
  BY <1>1, <1>2, LoadsTyped DEF CacheIInv
<1>4. load'[r] = Idle /\ Idle.pc = "idle"
  BY <1>2 DEF Idle
<1>5. ASSUME NEW x \in Requests \ {r}, load[x].pc = "wait", load[x].of = r
      PROVE  /\ load'[x].pc = "rejected" /\ Shaped(load'[x]) /\ Aged(load'[x])
             /\ load'[x].builds = load[x].builds /\ load'[x].at = load[x].at
             /\ load'[x].value = load[x].value /\ load'[x].got = load[x].got
             /\ load'[x].cleared = load[x].cleared /\ load'[x].excused = load[x].excused
  <2>1. PICK z : z = load[x]
    OBVIOUS
  <2>2. Shaped(z) /\ Aged(z) /\ z.pc = "wait"
    BY <1>3, <1>5, <2>1, LoadsTyped
  <2>3. load'[x] = [z EXCEPT !.pc = "rejected"]
    BY <1>2, <1>5, <2>1
  <2> QED
    BY <2>1, <2>2, <2>3, RejectedKeeps
<1>6. \A x \in Requests \ {r} : ~(load[x].pc = "wait" /\ load[x].of = r) => load'[x] = load[x]
  BY <1>2
<1>7. ASSUME NEW x \in Requests \ {r}, load[x].pc # "idle"
      PROVE  /\ load'[x].pc # "idle" /\ load'[x].builds = load[x].builds /\ load'[x].at = load[x].at
             /\ load'[x].value = load[x].value /\ load'[x].got = load[x].got
             /\ load'[x].cleared = load[x].cleared /\ load'[x].excused = load[x].excused
  BY <1>5, <1>6, <1>7
<1>8. LoadsOK'
  <2>1. \A x \in Requests : LoadOK(load'[x])
    BY <1>3, <1>4, <1>5, <1>6 DEF LoadsOK, LoadOK
  <2>2. \A x \in Requests : load'[x] \in Load \cup {Idle}
    BY <2>1 DEF LoadOK, Shaped
  <2> QED
    BY <1>2, <2>1, <2>2 DEF LoadsOK
<1>9. \A z \in Processes, l \in Layers :
         building'[z][l] = IF z = p /\ l \in ls THEN Absent ELSE building[z][l]
  BY <1>2, <1>3 DEF StoresOK
<1>10. StoresOK'
  <2>1. (IF load[r].pc = "build" THEN 1 ELSE 0) \in Nat
    OBVIOUS
  <2>2. building' \in [Processes -> [Layers -> Requests \cup {Absent}]]
    BY <1>2, <1>3 DEF StoresOK
  <2> QED
    BY <1>2, <1>3, <2>1, <2>2, CountsTyped DEF StoresOK
<1>11. ASSUME NEW x \in Requests, load'[x].pc = "wait"
       PROVE  x # r /\ load'[x] = load[x] /\ load[x].of # r
  BY <1>4, <1>5, <1>6, <1>11
<1>12. \A x \in Requests : WaitsAsBefore(x)
  BY <1>3, <1>11, WhomOneWaitsFor DEF WaitsAsBefore
<1>13. ASSUME NEW z \in Requests, NEW l \in Layers, Has(load[z], l) PROVE BuildsOn(z, l)
  <2>1. CASE z = r
    <3>1. building'[load[z].at][l] # z
      BY <1>1, <1>3, <1>9, <1>13, <2>1, AbsentApart DEF Has
    <3> QED
      BY <1>11, <2>1, <3>1 DEF BuildsOn
  <2>2. CASE z # r
    BY <1>7, <1>13, <2>2 DEF BuildsOn, Has
  <2> QED
    BY <2>1, <2>2
<1>14. \A z \in Requests, l \in Layers : BuildsOn(z, l)
  BY <1>13 DEF BuildsOn
<1>15. \A z \in Processes, l \in Layers : SameOrNewBuild(z, l) /\ NewBuildIsEmpty(z, l)
  BY <1>9 DEF SameOrNewBuild, NewBuildIsEmpty
<1>16. ASSUME NEW x \in Requests, Watched(load[x])' PROVE StaysFresh(x)
  <2>1. x # r /\ load[x].pc # "idle"
    BY <1>3, <1>4, <1>6, <1>16 DEF Watched
  <2>2. Watched(load[x])
    BY <1>5, <1>6, <1>16, <2>1 DEF Watched
  <2>3. PICK z \in Processes, n \in Nat : z = load[x].at /\ n = load[x].cleared
    BY <2>2, WatchedKnows
  <2>4. ASSUME NEW y \in Requests, load[y].pc # "idle" PROVE StaysYoung(y, n, n)
    BY <1>4, <1>7, <2>4 DEF StaysYoung, YoungComplete, Has
  <2>5. FreshGoesOn(x, z, n, n)
    BY <1>2, <1>7, <1>15, <2>1, <2>2, <2>3, <2>4, WatchedKnows DEF FreshGoesOn, KnowsNothingOlder
  <2> QED
    BY <2>2, <2>3, <2>5 DEF StaysFresh
<1> QED
  BY <1>8, <1>10, <1>12, <1>14, <1>15, <1>16, StepKeeps

-----------------------------------------------------------------------------
(* Steps that fill the caches.                                                *)

Wakes(x, r) == load[x].pc = "wait" /\ load[x].of = r /\ load[x].layer = load[r].layer

\* Request r, which is z once it builds what it is going to build, has the value
\* v, with those who wait for it, and fills caches with it.
LoadsAfterFill(r, z, v, caches) ==
    /\ load'[r] = Loaded(z, v)
    /\ \A x \in Requests \ {r} :
          \/ Wakes(x, r) /\ load'[x] = Loaded(load[x], v)
          \/ /\ load'[x] = Excused(x, r, v, caches)
             /\ load[x].pc = "wait" /\ load[x].of = r => load[x].layer \in z.builds
StoresAfterFill(z, v, caches) ==
    /\ \A p \in Processes, l \in Layers :
          /\ memory'[p][l] = memory[p][l] \/ (p = z.at /\ memory'[p][l].value = v)
          /\ building'[p][l] \in {Absent, building[p][l]}
    /\ \A l \in Layers : redis'[l] = redis[l] \/ (caches = "all" /\ redis'[l].value = v)
    /\ caches = "all" \/ caches = z.at
FillerOK(r, z, v) ==
    /\ v \in ValuesOf(load[r].layer) /\ Within(v, load[r].layer, InMemoryAtMost(load[r].layer))
    /\ Ready(z) /\ z.at = load[r].at /\ z.layer = load[r].layer /\ z.value = load[r].value
    /\ z.cleared = load[r].cleared /\ z.excused = load[r].excused /\ z.builds \subseteq load[r].builds
    /\ \A l \in load[r].builds \ z.builds : building'[z.at][l] = Absent
    /\ \A n \in Nat : NotOlder(load[r].value, n) /\ NotOlder(load[r].got, n) => NotOlder(v, n)
    /\ \A n \in Nat, l \in load[r].builds : Young(r, l, n) => NotOlder(v, n)

\* Who is not excused has not been crossed.
LEMMA NotExcused ==
    ASSUME LoadsOK, NEW r \in Requests, NEW x \in Requests, x # r, NEW v \in Values, NEW caches,
           load'[x] = Excused(x, r, v, caches)
    PROVE  /\ load'[x] = load[x] \/ load'[x] = [load[x] EXCEPT !.excused = TRUE]
           /\ Watched(load'[x]) =>
                 /\ load'[x] = load[x] /\ Watched(load[x])
                 /\ \/ NotOlder(v, load[x].cleared)
                    \/ load[x].pc = "wait" /\ load[x].of = r
                    \/ caches # "all" /\ caches # load[x].at
<1>1. load'[x] = load[x] \/ load'[x] = [load[x] EXCEPT !.excused = TRUE]
  BY DEF Excused
<1>2. ASSUME Watched(load'[x])
      PROVE  load'[x] = load[x]
  <2> SUFFICES ASSUME load'[x] # load[x] PROVE FALSE
    OBVIOUS
  <2>1. load'[x] = [load[x] EXCEPT !.excused = TRUE] /\ load[x].pc # "idle"
    BY <1>1 DEF Excused
  <2>2. load[x] \in Load
    BY <2>1, LoadsTyped
  <2>3. load'[x].excused
    BY <2>1, <2>2 DEF Load
  <2> QED
    BY <1>2, <2>3 DEF Watched
<1>3. ASSUME Watched(load'[x]), ~(load[x].pc = "wait" /\ load[x].of = r),
             caches = "all" \/ caches = load[x].at
      PROVE  NotOlder(v, load[x].cleared)
  <2>1. load'[x] = load[x] /\ Watched(load[x])
    BY <1>2, <1>3
  <2>2. load[x] \in Load /\ load[x].cleared \in Nat
    BY <2>1, LoadsTyped DEF Watched
  <2>3. ~IsOlder(v, load[x])
    <3> SUFFICES ASSUME IsOlder(v, load[x]) PROVE FALSE
      OBVIOUS
    <3>1. load'[x] = [load[x] EXCEPT !.excused = TRUE]
      BY <1>3, <2>1 DEF Excused, Watched
    <3>2. load'[x].excused
      BY <2>2, <3>1 DEF Load
    <3> QED
      BY <1>3, <3>2 DEF Watched
  <2> QED
    BY <2>2, <2>3, Parts DEF IsOlder, NotOlder
<1> QED
  BY <1>1, <1>2, <1>3

\* What becomes of the request, of those it wakes and of the others.
LEMMA FillerFilled ==
    ASSUME NEW r \in Requests, NEW z, NEW v, NEW caches, FillerOK(r, z, v), LoadsAfterFill(r, z, v, caches)
    PROVE  /\ Shaped(load'[r]) /\ Aged(load'[r]) /\ load'[r].pc \in {"store", "answered"}
           /\ load'[r].builds = z.builds /\ load'[r].at = load[r].at /\ load'[r].got = Absent
           /\ load'[r].cleared = load[r].cleared /\ load'[r].excused = load[r].excused
           /\ \A n \in Nat : NotOlder(load[r].value, n) /\ NotOlder(v, n) => NotOlder(load'[r].value, n)
<1>1. PICK y : y = Loaded(z, v)
  OBVIOUS
<1>2. /\ v \in ValuesOf(z.layer) /\ Within(v, z.layer, InMemoryAtMost(z.layer)) /\ Ready(z)
      /\ z.at = load[r].at /\ z.cleared = load[r].cleared /\ z.excused = load[r].excused
      /\ z.value = load[r].value
  BY DEF FillerOK
<1>3. /\ Shaped(y) /\ Aged(y) /\ y.pc \in {"store", "answered"} /\ y.builds = z.builds
      /\ y.at = z.at /\ y.got = Absent /\ y.cleared = z.cleared /\ y.excused = z.excused
  BY <1>1, <1>2, LoadedKeeps
<1>4. ASSUME NEW n \in Nat, NotOlder(z.value, n), NotOlder(v, n) PROVE NotOlder(y.value, n)
  BY <1>1, <1>2, <1>4, LoadedNotOlder
<1>5. load'[r] = y
  BY <1>1 DEF LoadsAfterFill
<1> QED
  BY <1>2, <1>3, <1>4, <1>5

LEMMA WokenFilled ==
    ASSUME LoadsOK, NEW r \in Requests, NEW z, NEW v, FillerOK(r, z, v),
           NEW x \in Requests, Wakes(x, r), load'[x] = Loaded(load[x], v)
    PROVE  /\ Shaped(load'[x]) /\ Aged(load'[x]) /\ load'[x].pc \in {"store", "answered"}
           /\ load'[x].builds = load[x].builds /\ load'[x].at = load[x].at /\ load'[x].got = Absent
           /\ load'[x].cleared = load[x].cleared /\ load'[x].excused = load[x].excused
           /\ \A n \in Nat : NotOlder(load[x].value, n) /\ NotOlder(v, n) => NotOlder(load'[x].value, n)
<1>1. PICK q, y : q = load[x] /\ y = Loaded(q, v)
  OBVIOUS
<1>2. q.pc = "wait" /\ q.layer = load[r].layer /\ load'[x] = y
  BY <1>1 DEF Wakes
<1>3. Shaped(q) /\ Aged(q)
  BY <1>1, <1>2, LoadsTyped
<1>4. Ready(q) /\ v \in ValuesOf(q.layer) /\ Within(v, q.layer, InMemoryAtMost(q.layer))
  BY <1>2, <1>3, AsksIsReady DEF FillerOK
<1>5. /\ Shaped(y) /\ Aged(y) /\ y.pc \in {"store", "answered"} /\ y.builds = q.builds
      /\ y.at = q.at /\ y.got = Absent /\ y.cleared = q.cleared /\ y.excused = q.excused
  BY <1>1, <1>4, LoadedKeeps
<1>6. ASSUME NEW n \in Nat, NotOlder(q.value, n), NotOlder(v, n) PROVE NotOlder(y.value, n)
  BY <1>1, <1>4, <1>6, LoadedNotOlder
<1> QED
  BY <1>1, <1>2, <1>5, <1>6

LEMMA LeftFilled ==
    ASSUME LoadsOK, NEW r \in Requests, NEW x \in Requests, x # r, load[x].pc # "idle", NEW v, NEW caches,
           load'[x] = Excused(x, r, v, caches)
    PROVE  /\ Shaped(load'[x]) /\ Aged(load'[x]) /\ load'[x].pc = load[x].pc
           /\ load'[x].builds = load[x].builds /\ load'[x].at = load[x].at /\ load'[x].of = load[x].of
           /\ load'[x].layer = load[x].layer /\ load'[x].value = load[x].value /\ load'[x].got = load[x].got
<1>1. PICK q, y : q = load[x] /\ y = [q EXCEPT !.excused = TRUE]
  OBVIOUS
<1>2. load'[x] = q \/ load'[x] = y
  BY <1>1 DEF Excused
<1>3. Shaped(q) /\ Aged(q)
  BY <1>1, LoadsTyped
<1>4. /\ Shaped(y) /\ Aged(y) /\ y.pc = q.pc /\ y.builds = q.builds /\ y.at = q.at
      /\ y.of = q.of /\ y.layer = q.layer /\ y.value = q.value /\ y.got = q.got
  BY <1>1, <1>3, ExcusedKeeps
<1> QED
  BY <1>1, <1>2, <1>3, <1>4

LEMMA OneFills ==
    ASSUME CacheIInv, StoresOK', NEW r \in Requests, load[r].pc \in {"take", "store"}, NEW z, NEW v, NEW caches,
           FillerOK(r, z, v), LoadsAfterFill(r, z, v, caches), StoresAfterFill(z, v, caches),
           load' = [x \in Requests |-> load'[x]]
    PROVE  CacheIInv'
<1>1. /\ StoresOK /\ LoadsOK /\ LinksOK /\ Shaped(load[r]) /\ load[r].at \in Processes
      /\ load[r].layer \in Layers
  BY LoadsTyped DEF CacheIInv
<1>2. v \in Values
  BY <1>1, AbsentApart DEF FillerOK
<1>3. /\ Shaped(load'[r]) /\ Aged(load'[r]) /\ load'[r].pc \in {"store", "answered"}
      /\ load'[r].builds = z.builds /\ load'[r].at = load[r].at /\ load'[r].got = Absent
      /\ load'[r].cleared = load[r].cleared /\ load'[r].excused = load[r].excused
      /\ \A n \in Nat : NotOlder(load[r].value, n) /\ NotOlder(v, n) => NotOlder(load'[r].value, n)
  BY FillerFilled
<1> DEFINE Woken(x) == Wakes(x, r) /\ load'[x] = Loaded(load[x], v)
           Left(x) == /\ load'[x] = Excused(x, r, v, caches)
                      /\ load[x].pc = "wait" /\ load[x].of = r => load[x].layer \in z.builds
<1>4. \A x \in Requests \ {r} : Woken(x) \/ Left(x)
  BY DEF LoadsAfterFill
<1>5. ASSUME NEW x \in Requests, Woken(x)
      PROVE  /\ load[x].pc = "wait" /\ load[x].of = r /\ load[x].layer = load[r].layer
             /\ Shaped(load'[x]) /\ Aged(load'[x]) /\ load'[x].pc \in {"store", "answered"}
             /\ load'[x].builds = load[x].builds /\ load'[x].at = load[x].at /\ load'[x].got = Absent
             /\ load'[x].cleared = load[x].cleared /\ load'[x].excused = load[x].excused
             /\ \A n \in Nat : NotOlder(load[x].value, n) /\ NotOlder(v, n) => NotOlder(load'[x].value, n)
  BY <1>1, <1>5, WokenFilled DEF Wakes
<1>6. ASSUME NEW x \in Requests \ {r}, Left(x), load[x].pc # "idle"
      PROVE  /\ Shaped(load'[x]) /\ Aged(load'[x]) /\ load'[x].pc = load[x].pc
             /\ load'[x].builds = load[x].builds /\ load'[x].at = load[x].at /\ load'[x].of = load[x].of
             /\ load'[x].layer = load[x].layer /\ load'[x].value = load[x].value
             /\ load'[x].got = load[x].got
             /\ load[x].pc = "wait" /\ load[x].of = r => load[x].layer \in z.builds
  BY <1>1, <1>6, LeftFilled
<1>7. ASSUME NEW x \in Requests \ {r}, Left(x), load[x].pc = "idle" PROVE load'[x] = load[x]
  BY <1>7 DEF Excused
<1>8. ASSUME NEW x \in Requests \ {r}, Left(x), Watched(load'[x])
      PROVE  /\ load'[x] = load[x] /\ Watched(load[x])
             /\ \/ NotOlder(v, load[x].cleared)
                \/ load[x].pc = "wait" /\ load[x].of = r
                \/ caches # "all" /\ caches # load[x].at
  BY <1>1, <1>2, <1>8, NotExcused
<1> HIDE DEF Woken, Left
<1>9. LoadsOK'
  <2>1. ASSUME NEW x \in Requests PROVE LoadOK(load'[x])
    <3>1. CASE x = r
      BY <1>3, <3>1 DEF LoadOK
    <3>2. CASE x # r /\ Woken(x)
      BY <1>5, <3>2 DEF LoadOK
    <3>3. CASE x # r /\ Left(x) /\ load[x].pc # "idle"
      BY <1>6, <3>3 DEF LoadOK
    <3>4. CASE x # r /\ Left(x) /\ load[x].pc = "idle"
      BY <1>1, <1>7, <3>4 DEF LoadsOK
    <3> QED
      BY <1>4, <3>1, <3>2, <3>3, <3>4
  <2>2. \A x \in Requests : load'[x] \in Load \cup {Idle}
    BY <2>1 DEF LoadOK, Shaped
  <2> QED
    BY <2>1, <2>2 DEF LoadsOK
<1>10. ASSUME NEW x \in Requests, load'[x].pc = "wait"
       PROVE  /\ x # r /\ Left(x) /\ load[x].pc = "wait" /\ load'[x].of = load[x].of
              /\ load'[x].layer = load[x].layer /\ load'[x].at = load[x].at
              /\ load[x].of = r => load[x].layer \in z.builds
  BY <1>3, <1>4, <1>5, <1>6, <1>7, <1>10
<1>11. \A x \in Requests : WaitsAsBefore(x)
  BY <1>1, <1>10, WhomOneWaitsFor DEF WaitsAsBefore
<1>12. ASSUME NEW y \in Requests, NEW l \in Layers, Has(load[y], l) PROVE BuildsOn(y, l)
  <2>1. CASE y = r /\ l \in z.builds
    BY <1>3, <2>1 DEF BuildsOn, Has
  <2>2. CASE y = r /\ l \notin z.builds
    <3>1. building'[load[y].at][l] # y
      BY <1>12, <2>2, AbsentApart DEF FillerOK, Has
    <3>2. \A x \in Requests : load'[x].pc = "wait" /\ load'[x].layer = l => load'[x].of # y
      BY <1>10, <2>2
    <3> QED
      BY <3>1, <3>2 DEF BuildsOn
  <2>3. CASE y # r /\ Woken(y)
    BY <1>5, <1>12, <2>3 DEF BuildsOn, Has
  <2>4. CASE y # r /\ Left(y)
    BY <1>6, <1>12, <2>4 DEF BuildsOn, Has
  <2> QED
    BY <1>4, <2>1, <2>2, <2>3, <2>4
<1>13. \A y \in Requests, l \in Layers : BuildsOn(y, l)
  BY <1>12 DEF BuildsOn
<1>14. \A p \in Processes, l \in Layers : SameOrNewBuild(p, l) /\ NewBuildIsEmpty(p, l)
  BY DEF StoresAfterFill, SameOrNewBuild, NewBuildIsEmpty
<1>15. ASSUME NEW n \in Nat, NEW y \in Requests, load[y].pc # "idle" PROVE StaysYoung(y, n, n)
  <2>1. CASE y = r
    <3>1. NotOlder(load'[r].got, n)
      BY <1>3, NewIsNotOlder
    <3>2. ASSUME Has(load[r], "complete"), YoungComplete(r, n) PROVE NotOlder(load'[r].value, n)
      <4>1. Young(r, "complete", n) /\ "complete" \in load[r].builds
        BY <3>2 DEF Young, Has
      <4>2. NotOlder(v, n)
        BY <4>1 DEF FillerOK
      <4> QED
        BY <1>3, <3>2, <4>2 DEF YoungComplete
    <3> QED
      BY <2>1, <3>1, <3>2 DEF StaysYoung
  <2>2. CASE y # r /\ Woken(y)
    <3>1. NotOlder(load'[y].got, n)
      BY <1>5, <2>2, NewIsNotOlder
    <3>2. ASSUME Has(load[y], "complete"), YoungComplete(y, n) PROVE NotOlder(load'[y].value, n)
      <4>1. load[y].pc = "wait" /\ load[y].of = r /\ Shaped(load[y])
        BY <1>1, <1>5, <2>2, LoadsTyped
      <4>2. load[y].layer = "hours"
        BY <3>2, <4>1 DEF Has, Shaped, BuildsOf, Under, InHours
      <4>3. Has(load[r], "hours") /\ Young(r, "hours", n)
        BY <1>1, <3>2, <4>1, <4>2 DEF LinksOK, WaiterOK, YoungComplete, Young
      <4>4. NotOlder(v, n)
        BY <4>3 DEF FillerOK, Has
      <4> QED
        BY <1>5, <2>2, <3>2, <4>4 DEF YoungComplete
    <3> QED
      BY <3>1, <3>2 DEF StaysYoung
  <2>3. CASE y # r /\ Left(y)
    BY <1>6, <1>15, <2>3 DEF StaysYoung, YoungComplete
  <2> QED
    BY <1>4, <2>1, <2>2, <2>3
<1>16. ASSUME NEW x \in Requests, Watched(load[x])' PROVE StaysFresh(x)
  <2>1. /\ Watched(load[x]) /\ load'[x].at = load[x].at /\ load'[x].cleared = load[x].cleared
        /\ load'[x].pc # "idle"
    <3>1. load'[x].pc # "idle" /\ load'[x].cleared # Absent /\ ~load'[x].excused
      BY <1>16 DEF Watched
    <3>2. CASE x = r
      BY <1>3, <3>1, <3>2 DEF Watched
    <3>3. CASE x # r /\ Woken(x)
      BY <1>5, <3>1, <3>3 DEF Watched
    <3>4. CASE x # r /\ Left(x)
      BY <1>8, <1>16, <3>1, <3>4
    <3> QED
      BY <1>4, <3>2, <3>3, <3>4
  <2>2. PICK p \in Processes, n \in Nat : p = load[x].at /\ n = load[x].cleared
    BY <2>1, WatchedKnows
  <2>3. /\ KnowsNothingOlder(p, n) /\ NotOlder(load[x].value, n) /\ NotOlder(load[x].got, n)
        /\ load[x].pc = "wait" => Young(load[x].of, load[x].layer, n)
    BY <2>1, <2>2, WatchedKnows
  <2>4. ASSUME load[x].pc = "wait", load[x].of = r PROVE NotOlder(v, n)
    <3>1. load[x].layer \in load[r].builds
      BY <1>1, <2>4 DEF LinksOK, WaiterOK, Has
    <3>2. load[x].layer \in Layers
      BY <1>1, <2>1, LoadsTyped DEF Watched
    <3> QED
      BY <2>3, <2>4, <3>1 DEF FillerOK
  <2>5. /\ NotOlder(v, n) \/ (caches # "all" /\ p # z.at)
        /\ NotOlder(load'[x].value, n) /\ NotOlder(load'[x].got, n)
    <3>1. CASE x = r
      <4>1. NotOlder(v, n)
        BY <2>3, <3>1 DEF FillerOK
      <4> QED
        BY <1>3, <2>3, <3>1, <4>1, NewIsNotOlder
    <3>2. CASE x # r /\ Woken(x)
      <4>1. NotOlder(v, n)
        BY <1>5, <2>4, <3>2
      <4> QED
        BY <1>5, <2>3, <3>2, <4>1, NewIsNotOlder
    <3>3. CASE x # r /\ Left(x)
      <4>1. load'[x] = load[x] /\ (NotOlder(v, n) \/ (caches # "all" /\ caches # p))
        BY <1>8, <1>16, <2>2, <2>4, <3>3
      <4>2. caches = "all" \/ caches = z.at
        BY DEF StoresAfterFill
      <4> QED
        BY <2>3, <4>1, <4>2
    <3> QED
      BY <1>4, <3>1, <3>2, <3>3
  <2>6. ASSUME NEW l \in Layers
        PROVE  EntryNotOlder(memory'[p][l], n) /\ EntryNotOlder(redis'[l], n)
    <3>1. memory'[p][l] = memory[p][l] \/ (p = z.at /\ memory'[p][l].value = v)
      BY DEF StoresAfterFill
    <3>2. redis'[l] = redis[l] \/ (caches = "all" /\ redis'[l].value = v)
      BY DEF StoresAfterFill
    <3> QED
      BY <2>3, <2>5, <3>1, <3>2 DEF EntryNotOlder, KnowsNothingOlder
  <2>7. FreshGoesOn(x, p, n, n)
    BY <1>14, <1>15, <2>1, <2>2, <2>5, <2>6 DEF FreshGoesOn
  <2> QED
    BY <2>1, <2>2, <2>7 DEF StaysFresh
<1> QED
  BY <1>9, <1>11, <1>13, <1>14, <1>16, StepKeeps

\* A new entry.
LEMMA NewEntryOK ==
    ASSUME NEW l \in Layers, NEW v \in ValuesOf(l), NEW ttl \in {BuiltTtl(l), DefaultTtl(l)},
           NEW n \in Nat, NEW k \in Int, k <= n + 1 - ttl, Within(v, l, k)
    PROVE  /\ EntryOK(Entry(v, ttl), l, n) /\ Entry(v, ttl) \in Entries
           /\ Entry(v, ttl).value = v
<1>1. v \in Values /\ ttl \in Nat \ {0} /\ n + 1 - ttl \in Int
  BY AbsentApart, TimesTyped
<1>2. Within(v, l, n + 1 - ttl)
  BY <1>1, WithinMore
<1>3. ttl \in 1..LongestTtl
  BY TimesTyped
<1>4. /\ Entry(v, ttl) \in [value: ValuesOf(l), left: 1..LongestTtl]
      /\ Entry(v, ttl).value = v /\ Entry(v, ttl).left = ttl
  BY <1>3 DEF Entry
<1>5. Entry(v, ttl) \in Entries
  BY <1>1 DEF Entry, Entries
<1> QED
  BY <1>2, <1>4, <1>5 DEF EntryOK

\* Memory after one entry of it is written.
LEMMA MemoryWritten ==
    ASSUME StoresOK, NEW p \in Processes, NEW l \in Layers, NEW e \in Entries,
           EntryOK(e, l, InMemoryAtMost(l)), memory' = [memory EXCEPT ![p][l] = e]
    PROVE  /\ memory' \in [Processes -> [Layers -> Entries \cup {Absent}]]
           /\ \A z \in Processes, k \in Layers :
                 /\ memory'[z][k] = IF z = p /\ k = l THEN e ELSE memory[z][k]
                 /\ EntryOK(memory'[z][k], k, InMemoryAtMost(k))
<1>1. memory' \in [Processes -> [Layers -> Entries \cup {Absent}]]
  BY DEF StoresOK
<1>2. \A z \in Processes, k \in Layers :
         memory'[z][k] = IF z = p /\ k = l THEN e ELSE memory[z][k]
  BY DEF StoresOK
<1>3. \A z \in Processes, k \in Layers : EntryOK(memory'[z][k], k, InMemoryAtMost(k))
  BY <1>2 DEF StoresOK
<1> QED
  BY <1>1, <1>2, <1>3

\* What Redis had is put into memory.
LEMMA TakeFoundKeeps ==
    ASSUME CacheIInv, NEW r \in Requests, Take(r), load[r].got # Absent PROVE CacheIInv'
<1>1. PICK q, p, l, v : q = load[r] /\ p = q.at /\ l = q.layer /\ v = q.got
  OBVIOUS
<1>2. /\ q.pc = "take" /\ v # Absent
      /\ memory' = [memory EXCEPT ![p][l] = Entry(v, DefaultTtl(l))]
      /\ load' = [x \in Requests |-> IF x = r THEN Loaded(q, v) ELSE Excused(x, r, v, p)]
      /\ building' = building
      /\ UNCHANGED <<useRedis, redis, events>>
  BY <1>1 DEF Take
<1>3. /\ StoresOK /\ LoadsOK /\ LinksOK /\ Shaped(q) /\ Aged(q) /\ q \in Load
      /\ p \in Processes /\ l \in Layers /\ q.age \in 0..MaxBuild
  BY <1>1, <1>2, LoadsTyped, LoadFields DEF CacheIInv
<1>4. Ready(q)
  BY <1>2, <1>3, AsksIsReady
<1>5. v \in ValuesOf(l) /\ v \in Values
  BY <1>1, <1>2, <1>3, AbsentApart DEF Shaped
<1> DEFINE k == InRedisAtMost(l) + q.age
<1>6. /\ k \in Int /\ k <= InMemoryAtMost(l) + 1 - DefaultTtl(l) /\ k <= InMemoryAtMost(l)
      /\ InMemoryAtMost(l) \in Nat /\ DefaultTtl(l) \in {BuiltTtl(l), DefaultTtl(l)}
  BY <1>3, TimesTyped DEF InMemoryAtMost
<1>7. Within(v, l, k)
  BY <1>1, <1>2, <1>3 DEF Aged
<1> HIDE DEF k
<1>8. Within(v, l, InMemoryAtMost(l))
  BY <1>3, <1>5, <1>6, <1>7, WithinMore
<1>9. PICK e : e = Entry(v, DefaultTtl(l))
  OBVIOUS
<1>10. EntryOK(e, l, InMemoryAtMost(l)) /\ e \in Entries /\ e.value = v
  BY <1>3, <1>5, <1>6, <1>7, <1>9, NewEntryOK
<1>11. /\ memory' \in [Processes -> [Layers -> Entries \cup {Absent}]]
       /\ \A z \in Processes, m \in Layers :
             /\ memory'[z][m] = IF z = p /\ m = l THEN e ELSE memory[z][m]
             /\ EntryOK(memory'[z][m], m, InMemoryAtMost(m))
  BY <1>2, <1>3, <1>9, <1>10, MemoryWritten
<1>12. StoresOK'
  BY <1>2, <1>3, <1>11 DEF StoresOK
<1>13. q.builds = Under(q)
  BY <1>4 DEF Ready
<1>14. FillerOK(r, q, v)
  <2>1. ASSUME NEW n \in Nat, NEW m \in q.builds, Young(r, m, n) PROVE NotOlder(v, n)
    <3>1. m = "complete"
      BY <1>13, <2>1 DEF Under
    <3> QED
      BY <1>1, <2>1, <3>1 DEF Young, YoungComplete
  <2> QED
    BY <1>1, <1>4, <1>5, <1>8, <2>1 DEF FillerOK
<1>15. LoadsAfterFill(r, q, v, p)
  <2>1. ASSUME NEW x \in Requests, load[x].pc = "wait", load[x].of = r
        PROVE  load[x].layer \in q.builds
    BY <1>1, <1>3, <2>1 DEF LinksOK, WaiterOK, Has
  <2> QED
    BY <1>2, <2>1 DEF LoadsAfterFill
<1>16. StoresAfterFill(q, v, p)
  BY <1>1, <1>2, <1>10, <1>11 DEF StoresAfterFill
<1>17. load' = [x \in Requests |-> load'[x]]
  BY <1>2
<1> QED
  BY <1>1, <1>2, <1>12, <1>14, <1>15, <1>16, <1>17, OneFills

LEMMA TakeKeeps ==
    ASSUME CacheIInv, NEW r \in Requests, Take(r) PROVE CacheIInv'
  BY TakeFoundKeeps, TakeNothingKeeps

\* A build is stored, and whoever waits for it has the value.
LEMMA StoreKeeps ==
    ASSUME CacheIInv, NEW r \in Requests, Store(r) PROVE CacheIInv'
<1>1. PICK q, p, l, v, z, caches :
         /\ q = load[r] /\ p = q.at /\ l = q.layer /\ v = Stored(q) /\ z = Built(q)
         /\ caches = IF useRedis THEN "all" ELSE p
  OBVIOUS
<1>2. PICK e : e = Entry(v, BuiltTtl(l))
  OBVIOUS
<1>3. /\ q.pc = "store" /\ memory' = [memory EXCEPT ![p][l] = e]
      /\ \/ useRedis /\ redis' = [redis EXCEPT ![l] = e] /\ Counts(0)
         \/ redis' = redis /\ Counts(IF useRedis THEN 1 ELSE 0)
      /\ building' = [building EXCEPT ![p][l] = Absent]
      /\ useRedis' = useRedis
  BY <1>1, <1>2 DEF Store, Stored
<1>4. load' = [x \in Requests |->
                  IF x = r THEN Loaded(z, v)
                  ELSE IF load[x].pc = "wait" /\ load[x].of = r /\ load[x].layer = l
                       THEN Loaded(load[x], v)
                       ELSE Excused(x, r, v, caches)]
  BY <1>1 DEF Store, Stored, Built
<1>5. /\ StoresOK /\ LoadsOK /\ LinksOK /\ Shaped(q) /\ Aged(q) /\ p \in Processes /\ l \in Layers
  BY <1>1, <1>3, LoadsTyped DEF CacheIInv
<1>6. /\ v \in ValuesOf(l) /\ Within(v, l, MaxBuild) /\ Ready(z) /\ z.layer = l /\ z.at = p
      /\ z.builds = q.builds \ {l} /\ z.cleared = q.cleared /\ z.excused = q.excused
      /\ z.value = q.value
  BY <1>1, <1>3, <1>5, StoresAValue
<1>7. v \in Values
  BY <1>5, <1>6, AbsentApart
<1>8. /\ MaxBuild \in Int /\ MaxBuild <= InMemoryAtMost(l) + 1 - BuiltTtl(l)
      /\ MaxBuild <= InRedisAtMost(l) + 1 - BuiltTtl(l) /\ MaxBuild <= InMemoryAtMost(l)
      /\ InMemoryAtMost(l) \in Nat /\ InRedisAtMost(l) \in Nat
      /\ BuiltTtl(l) \in {BuiltTtl(l), DefaultTtl(l)}
  BY <1>5, TimesTyped DEF InMemoryAtMost, InRedisAtMost
<1>9. Within(v, l, InMemoryAtMost(l))
  BY <1>5, <1>6, <1>7, <1>8, WithinMore
<1>10. /\ EntryOK(e, l, InMemoryAtMost(l)) /\ EntryOK(e, l, InRedisAtMost(l)) /\ e \in Entries
       /\ e.value = v
  BY <1>2, <1>5, <1>6, <1>8, NewEntryOK
<1>11. /\ memory' \in [Processes -> [Layers -> Entries \cup {Absent}]]
       /\ \A y \in Processes, m \in Layers :
             /\ memory'[y][m] = IF y = p /\ m = l THEN e ELSE memory[y][m]
             /\ EntryOK(memory'[y][m], m, InMemoryAtMost(m))
  BY <1>3, <1>5, <1>10, MemoryWritten
<1>12. /\ redis' \in [Layers -> Entries \cup {Absent}]
       /\ \A m \in Layers : /\ redis'[m] = redis[m] \/ (m = l /\ useRedis /\ redis'[m] = e)
                            /\ EntryOK(redis'[m], m, InRedisAtMost(m))
                            /\ redis'[m] # Absent => useRedis
  <2>1. CASE redis' = redis
    BY <1>5, <2>1 DEF StoresOK
  <2>2. CASE useRedis /\ redis' = [redis EXCEPT ![l] = e]
    BY <1>5, <1>10, <2>2 DEF StoresOK
  <2> QED
    BY <1>3, <2>1, <2>2
<1>13. /\ building' \in [Processes -> [Layers -> Requests \cup {Absent}]]
       /\ \A y \in Processes, m \in Layers :
             building'[y][m] = IF y = p /\ m = l THEN Absent ELSE building[y][m]
  BY <1>3, <1>5 DEF StoresOK
<1>14. StoresOK'
  <2>1. (IF useRedis THEN 1 ELSE 0) \in Nat
    OBVIOUS
  <2>2. events' \in 0..MaxEvents
    BY <1>3, <1>5, <2>1, CountsTyped DEF StoresOK
  <2> QED
    BY <1>3, <1>5, <1>11, <1>12, <1>13, <2>2 DEF StoresOK
<1>15. q.builds = Under(q) \cup {l} /\ l \in q.builds
  BY <1>1, <1>3, <1>5 DEF Shaped, BuildsOf
<1>16. FillerOK(r, z, v)
  <2>1. ASSUME NEW n \in Nat, NotOlder(q.value, n), NotOlder(q.got, n) PROVE NotOlder(v, n)
    BY <1>1, <2>1 DEF Stored
  <2>2. ASSUME NEW n \in Nat, NEW m \in q.builds, Young(r, m, n) PROVE NotOlder(v, n)
    <3>1. CASE l = "hours"
      BY <1>1, <2>2, <3>1 DEF Young, YoungHours, YoungComplete, Stored
    <3>2. CASE l = "complete"
      <4>1. m = "complete"
        BY <1>1, <1>15, <2>2, <3>2 DEF Under
      <4> QED
        BY <1>1, <2>2, <3>2, <4>1 DEF Young, YoungComplete, Stored
    <3> QED
      BY <1>5, <3>1, <3>2 DEF Layers
  <2>3. \A m \in q.builds \ z.builds : building'[p][m] = Absent
    BY <1>5, <1>6, <1>13
  <2> QED
    BY <1>1, <1>6, <1>9, <2>1, <2>2, <2>3 DEF FillerOK
<1>17. LoadsAfterFill(r, z, v, caches)
  <2>1. ASSUME NEW x \in Requests, load[x].pc = "wait", load[x].of = r, load[x].layer # l
        PROVE  load[x].layer \in z.builds
    BY <1>1, <1>5, <1>6, <2>1 DEF LinksOK, WaiterOK, Has
  <2> QED
    BY <1>1, <1>4, <2>1 DEF LoadsAfterFill, Wakes
<1>18. StoresAfterFill(z, v, caches)
  <2>1. \A y \in Processes, m \in Layers :
           /\ memory'[y][m] = memory[y][m] \/ (y = z.at /\ memory'[y][m].value = v)
           /\ building'[y][m] \in {Absent, building[y][m]}
    BY <1>6, <1>10, <1>11, <1>13
  <2>2. \A m \in Layers : redis'[m] = redis[m] \/ (caches = "all" /\ redis'[m].value = v)
    BY <1>1, <1>10, <1>12
  <2> QED
    BY <1>1, <1>6, <2>1, <2>2 DEF StoresAfterFill
<1>19. load' = [x \in Requests |-> load'[x]]
  BY <1>4
<1> QED
  BY <1>1, <1>3, <1>14, <1>16, <1>17, <1>18, <1>19, OneFills

-----------------------------------------------------------------------------
(* Time, the initial state and the theorems.                                  *)

\* An entry after some time.
LEMMA OlderEntryOK ==
    ASSUME NEW l \in Layers, NEW n \in Nat, NEW e \in Entries \cup {Absent}, EntryOK(e, l, n)
    PROVE  /\ EntryOK(OlderEntry(e), l, n) /\ OlderEntry(e) \in Entries \cup {Absent}
           /\ OlderEntry(e) # Absent => e # Absent
           /\ \A m \in Nat : EntryNotOlder(e, m) => EntryNotOlder(OlderEntry(e), m + 1)
<1>1. CASE e = Absent \/ e.left = 1
  BY <1>1 DEF OlderEntry, EntryOK, EntryNotOlder
<1>2. CASE e # Absent /\ e.left # 1
  <2>1. PICK v, k : v = e.value /\ k = e.left
    OBVIOUS
  <2>2. /\ v \in ValuesOf(l) /\ k \in 1..LongestTtl /\ Within(v, l, n + 1 - k)
    BY <1>2, <2>1 DEF EntryOK
  <2>3. /\ v \in Values /\ v # Absent /\ k \in Nat /\ k - 1 \in 1..LongestTtl
        /\ n + 1 - k \in Int /\ (n + 1 - k) + 1 = n + 1 - (k - 1) /\ k - 1 \in Nat
    BY <1>2, <2>1, <2>2, AbsentApart, TimesTyped
  <2>4. PICK w : w = Older(v)
    OBVIOUS
  <2>5. /\ w \in ValuesOf(l) /\ w \in Values /\ Within(w, l, (n + 1 - k) + 1)
        /\ \A m \in Int : (\A part \in DOMAIN v : v[part] <= m)
                             => \A part \in DOMAIN w : w[part] <= m + 1
    BY <2>2, <2>3, <2>4, OlderValue
  <2>6. PICK d : d = OlderEntry(e)
    OBVIOUS
  <2>7. d = [value |-> w, left |-> k - 1]
    BY <1>2, <2>1, <2>4, <2>6 DEF OlderEntry, Entry
  <2>8. d \in Entries /\ d \in [value: ValuesOf(l), left: 1..LongestTtl]
    BY <2>3, <2>5, <2>7 DEF Entries
  <2>9. d.value = w /\ d.left = k - 1
    BY <2>7
  <2>10. EntryOK(d, l, n)
    BY <2>3, <2>5, <2>8, <2>9 DEF EntryOK
  <2>11. \A m \in Nat : EntryNotOlder(e, m) => EntryNotOlder(d, m + 1)
    BY <1>2, <2>1, <2>3, <2>5, <2>9 DEF EntryNotOlder, NotOlder
  <2> QED
    BY <1>2, <2>6, <2>8, <2>10, <2>11
<1> QED
  BY <1>1, <1>2

LEMMA OlderNotOlder ==
    ASSUME NEW v \in Values \cup {Absent}, NEW n \in Nat, NotOlder(v, n)
    PROVE  NotOlder(Older(v), n + 1)
<1>1. CASE v = Absent
  BY <1>1 DEF Older, NotOlder
<1>2. CASE v # Absent
  BY <1>2, OlderValue DEF NotOlder
<1> QED
  BY <1>1, <1>2

LEMMA TimePassesKeeps ==
    ASSUME CacheIInv, TimePasses PROVE CacheIInv'
<1>1. /\ \A r \in Requests : load[r].pc # "idle" => load[r].pc # "answered" /\ load[r].age < MaxBuild
      /\ memory' = [p \in Processes |-> [l \in Layers |-> OlderEntry(memory[p][l])]]
      /\ redis' = [l \in Layers |-> OlderEntry(redis[l])]
      /\ load' = [r \in Requests |-> OlderLoad(load[r])]
      /\ UNCHANGED <<useRedis, building, events>>
  BY DEF TimePasses
<1>2. StoresOK /\ LoadsOK /\ LinksOK
  BY DEF CacheIInv
<1>3. /\ \A p \in Processes, l \in Layers :
            /\ memory'[p][l] = OlderEntry(memory[p][l])
            /\ memory[p][l] \in Entries \cup {Absent} /\ EntryOK(memory[p][l], l, InMemoryAtMost(l))
      /\ \A l \in Layers :
            /\ redis'[l] = OlderEntry(redis[l])
            /\ redis[l] \in Entries \cup {Absent} /\ EntryOK(redis[l], l, InRedisAtMost(l))
  BY <1>1, <1>2 DEF StoresOK
<1>4. ASSUME NEW l \in Layers
      PROVE  /\ EntryOK(redis'[l], l, InRedisAtMost(l)) /\ redis'[l] \in Entries \cup {Absent}
             /\ redis'[l] # Absent => redis[l] # Absent
             /\ \A m \in Nat : EntryNotOlder(redis[l], m) => EntryNotOlder(redis'[l], m + 1)
  BY <1>3, OlderEntryOK, TimesTyped
<1>5. ASSUME NEW p \in Processes, NEW l \in Layers
      PROVE  /\ EntryOK(memory'[p][l], l, InMemoryAtMost(l)) /\ memory'[p][l] \in Entries \cup {Absent}
             /\ \A m \in Nat : EntryNotOlder(memory[p][l], m) => EntryNotOlder(memory'[p][l], m + 1)
  BY <1>3, OlderEntryOK, TimesTyped
<1>6. StoresOK'
  <2>1. memory' \in [Processes -> [Layers -> Entries \cup {Absent}]]
    BY <1>1, <1>3, <1>5
  <2>2. redis' \in [Layers -> Entries \cup {Absent}]
    BY <1>1, <1>3, <1>4
  <2> QED
    BY <1>1, <1>2, <1>4, <1>5, <2>1, <2>2 DEF StoresOK
<1>7. ASSUME NEW x \in Requests, load[x].pc = "idle" PROVE load'[x] = load[x]
  BY <1>1, <1>7 DEF OlderLoad
<1>8. ASSUME NEW x \in Requests, load[x].pc # "idle"
      PROVE  /\ Shaped(load'[x]) /\ Aged(load'[x]) /\ load'[x].pc = load[x].pc
             /\ load'[x].builds = load[x].builds /\ load'[x].at = load[x].at
             /\ load'[x].of = load[x].of /\ load'[x].layer = load[x].layer
             /\ load'[x].value = Older(load[x].value) /\ load'[x].got = Older(load[x].got)
             /\ load'[x].cleared = (IF load[x].cleared = Absent THEN Absent ELSE load[x].cleared + 1)
             /\ load'[x].excused = load[x].excused
             /\ load'[x].pc # "idle"
             /\ load[x].value \in Values \cup {Absent} /\ load[x].got \in Values \cup {Absent}
  <2>1. PICK q, y : q = load[x] /\ y = OlderLoad(q)
    OBVIOUS
  <2>2. Shaped(q) /\ Aged(q) /\ q.pc # "answered" /\ q.age < MaxBuild
    BY <1>1, <1>2, <1>8, <2>1, LoadsTyped
  <2>3. /\ Shaped(y) /\ Aged(y) /\ y.pc = q.pc /\ y.builds = q.builds /\ y.at = q.at
        /\ y.of = q.of /\ y.layer = q.layer /\ y.value = Older(q.value) /\ y.got = Older(q.got)
        /\ y.cleared = (IF q.cleared = Absent THEN Absent ELSE q.cleared + 1)
        /\ y.excused = q.excused
    BY <2>1, <2>2, OlderLoadKeeps
  <2>4. load'[x] = y
    BY <1>1, <2>1
  <2>5. load[x].value \in Values \cup {Absent} /\ load[x].got \in Values \cup {Absent}
    BY <1>2, <1>8, LoadsTyped
  <2> QED
    BY <1>8, <2>1, <2>3, <2>4, <2>5
<1>9. LoadsOK'
  <2>1. \A x \in Requests : LoadOK(load'[x])
    BY <1>2, <1>7, <1>8 DEF LoadsOK, LoadOK
  <2>2. \A x \in Requests : load'[x] \in Load \cup {Idle}
    BY <2>1 DEF LoadOK, Shaped
  <2> QED
    BY <1>1, <2>1, <2>2 DEF LoadsOK
<1>10. \A x \in Requests : WaitsAsBefore(x)
  BY <1>2, <1>7, <1>8, WhomOneWaitsFor DEF WaitsAsBefore
<1>11. \A z \in Requests, l \in Layers : BuildsOn(z, l)
  BY <1>8 DEF BuildsOn, Has
<1>12. \A p \in Processes, l \in Layers : SameOrNewBuild(p, l) /\ NewBuildIsEmpty(p, l)
  BY <1>1 DEF SameOrNewBuild, NewBuildIsEmpty
<1>13. ASSUME NEW n \in Nat, NEW y \in Requests, load[y].pc # "idle" PROVE StaysYoung(y, n, n + 1)
  <2>1. NotOlder(load[y].got, n) => NotOlder(load'[y].got, n + 1)
    BY <1>8, <1>13, OlderNotOlder
  <2>2. NotOlder(load[y].value, n) => NotOlder(load'[y].value, n + 1)
    BY <1>8, <1>13, OlderNotOlder
  <2> QED
    BY <2>1, <2>2 DEF StaysYoung, YoungComplete
<1>14. ASSUME NEW x \in Requests, Watched(load[x])' PROVE StaysFresh(x)
  <2>1. Watched(load[x])
    BY <1>7, <1>8, <1>14 DEF Watched
  <2>2. PICK p \in Processes, n \in Nat : p = load[x].at /\ n = load[x].cleared
    BY <2>1, WatchedKnows
  <2>3. /\ KnowsNothingOlder(p, n) /\ NotOlder(load[x].value, n) /\ NotOlder(load[x].got, n)
        /\ load[x].pc # "idle"
    BY <2>1, <2>2, WatchedKnows
  <2>4. load'[x].pc # "idle" /\ load'[x].at = p /\ load'[x].cleared = n + 1
    BY <1>8, <2>2, <2>3, AbsentApart
  <2>5. NotOlder(load'[x].value, n + 1) /\ NotOlder(load'[x].got, n + 1)
    BY <1>8, <2>3, OlderNotOlder
  <2>6. \A l \in Layers : EntryNotOlder(memory'[p][l], n + 1) /\ EntryNotOlder(redis'[l], n + 1)
    BY <1>4, <1>5, <2>3 DEF KnowsNothingOlder
  <2>7. FreshGoesOn(x, p, n, n + 1)
    BY <1>12, <1>13, <2>4, <2>5, <2>6 DEF FreshGoesOn
  <2> QED
    BY <2>1, <2>2, <2>7 DEF StaysFresh
<1> QED
  BY <1>6, <1>9, <1>10, <1>11, <1>12, <1>14, StepKeeps

LEMMA CacheInitIInv ==
    ASSUME CacheInit PROVE CacheIInv
<1>1. /\ useRedis \in BOOLEAN /\ memory = [p \in Processes |-> [l \in Layers |-> Absent]]
      /\ redis = [l \in Layers |-> Absent] /\ building = [p \in Processes |-> [l \in Layers |-> Absent]]
      /\ load = [r \in Requests |-> Idle] /\ events = 0
  BY DEF CacheInit
<1>2. Idle.pc = "idle"
  BY DEF Idle
<1>3. StoresOK
  BY <1>1, CacheAssumption DEF StoresOK, EntryOK
<1>4. LoadsOK
  BY <1>1 DEF LoadsOK, LoadOK
<1>5. LinksOK
  BY <1>1, <1>2 DEF LinksOK, BuilderOK, WaiterOK
<1>6. \A r \in Requests : ~Watched(load[r])
  BY <1>1, <1>2 DEF Watched
<1> QED
  BY <1>3, <1>4, <1>5, <1>6 DEF CacheIInv

LEMMA CacheStepKeeps ==
    ASSUME CacheIInv, [CacheNext]_cacheVars PROVE CacheIInv'
<1>1. CASE UNCHANGED cacheVars
  <2>1. UNCHANGED <<useRedis, memory, redis, building, load, events>>
    BY <1>1 DEF cacheVars
  <2>2. StoresOK' /\ LoadsOK' /\ LinksOK'
    BY <2>1 DEF CacheIInv, StoresOK, LoadsOK, LinksOK, BuilderOK, WaiterOK
  <2>3. ASSUME NEW r \in Requests, Watched(load[r])' PROVE FreshFor(load[r])'
    BY <2>1, <2>3 DEF CacheIInv, FreshFor, KnowsNothingOlder, Young, YoungHours, YoungComplete
  <2> QED
    BY <2>2, <2>3 DEF CacheIInv
<1>2. CASE TimePasses
  BY <1>2, TimePassesKeeps
<1>3. CASE \E r \in Requests, kind \in {"complete", "hours", "refresh"}, p \in Processes : Begin(r, kind, p)
  BY <1>3, BeginKeeps DEF Layers
<1>4. CASE \E r \in Requests : Clear(r)
  BY <1>4, ClearKeeps
<1>5. CASE \E r \in Requests : Look(r)
  BY <1>5, LookKeeps
<1>6. CASE \E r \in Requests : Take(r)
  BY <1>6, TakeKeeps
<1>7. CASE \E r \in Requests : ReadTickets(r)
  BY <1>7, ReadTicketsKeeps
<1>8. CASE \E r \in Requests : ReadHours(r)
  BY <1>8, ReadHoursKeeps
<1>9. CASE \E r \in Requests : Store(r)
  BY <1>9, StoreKeeps
<1>10. CASE \E r \in Requests : Fail(r)
  BY <1>10, FailKeeps
<1>11. CASE \E r \in Requests : Release(r)
  BY <1>11, ReleaseKeeps
<1>12. CASE \E p \in Processes, l \in Layers : Evict(p, l)
  BY <1>12, EvictKeeps
<1> QED
  BY <1>1, <1>2, <1>3, <1>4, <1>5, <1>6, <1>7, <1>8, <1>9, <1>10, <1>11, <1>12 DEF CacheNext

\* An answer is within its bounds, and that of a refresh nobody has crossed is
\* not from before it.
LEMMA CacheIInvIsFresh ==
    ASSUME CacheIInv PROVE AnswersAreFresh
<1>1. ASSUME NEW r \in Requests, IsAnswered(r)
      PROVE  /\ load[r].kind = "hours" => load[r].value.hours <= OldestHours
             /\ load[r].kind # "hours" => /\ load[r].value.tickets <= OldestTickets
                                          /\ load[r].value.hours <= OldestHours + OldestTickets
  <2>1. PICK q, v : q = load[r] /\ v = q.value
    OBVIOUS
  <2>2. q.pc = "answered" /\ Shaped(q) /\ Aged(q) /\ q.layer \in Layers
    BY <1>1, <2>1, LoadsTyped DEF CacheIInv, IsAnswered
  <2>3. v \in ValuesOf(q.layer) /\ Within(v, q.layer, InMemoryAtMost(q.layer))
    BY <2>1, <2>2 DEF Shaped, IsWhole, Aged
  <2>4. (q.kind = "hours" => q.layer = "hours") /\ (q.kind # "hours" => q.layer = "complete")
    BY <2>2 DEF Shaped, InHours, Layers
  <2>5. OldestTickets = InMemoryAtMost("complete") /\ OldestHours = InMemoryAtMost("hours")
    BY CacheAssumption DEF OldestTickets, OldestHours, InMemoryAtMost, InRedisAtMost, BuiltTtl, DefaultTtl
  <2>6. OldestTickets \in Nat /\ OldestHours \in Nat
    BY <2>5, TimesTyped DEF Layers
  <2>7. CASE q.layer = "hours"
    <3>1. "hours" \in DOMAIN v /\ v["hours"] \in Nat
      BY <2>3, <2>7 DEF ValuesOf
    <3>2. v["hours"] <= OldestHours + 0
      BY <2>3, <2>5, <2>7, <3>1 DEF Within
    <3> QED
      BY <2>1, <2>4, <2>6, <2>7, <3>1, <3>2
  <2>8. CASE q.layer = "complete"
    <3>1. /\ "hours" \in DOMAIN v /\ v["hours"] \in Nat
          /\ "tickets" \in DOMAIN v /\ v["tickets"] \in Nat
      BY <2>3, <2>8 DEF ValuesOf
    <3>2. v["hours"] <= OldestTickets + OldestHours /\ v["tickets"] <= OldestTickets + 0
      BY <2>3, <2>5, <2>8, <3>1 DEF Within
    <3> QED
      BY <2>1, <2>4, <2>6, <2>8, <3>1, <3>2
  <2> QED
    BY <2>2, <2>7, <2>8 DEF Layers
<1>2. AgesAreBounded
  BY <1>1 DEF AgesAreBounded
<1>3. ASSUME NEW r \in Requests, IsAnswered(r), load[r].kind = "refresh", ~load[r].excused
      PROVE  ~IsOlder(load[r].value, load[r])
  <2>1. Shaped(load[r]) /\ load[r].layer \in Layers /\ load[r].pc = "answered"
    BY <1>3, LoadsTyped DEF CacheIInv, IsAnswered
  <2>2. load[r].cleared # Absent /\ load[r].value \in ValuesOf(load[r].layer)
    BY <1>3, <2>1 DEF Shaped, IsWhole
  <2>3. NotOlder(load[r].value, load[r].cleared) /\ load[r].cleared \in Nat
    BY <1>3, <2>1, <2>2, WatchedKnows DEF Watched
  <2>4. load[r].value \in Values /\ load[r].value # Absent
    BY <2>1, <2>2, AbsentApart
  <2> QED
    BY <2>3, <2>4, Parts DEF NotOlder, IsOlder
<1> QED
  BY <1>2, <1>3 DEF AnswersAreFresh, RefreshIsFresh

LEMMA CacheInvariant == CacheSpec => []CacheIInv
  BY CacheInitIInv, CacheStepKeeps, PTL DEF CacheSpec

\* Nobody is shown data of the dashboard that is older than the caches on its
\* way may make it, however many processes and requests fill them from one
\* another; and the answer of a forced refresh is from after the refresh, unless
\* somebody has crossed it (refreshCompleteDashboard, getCachedResponseAsync,
\* setCachedResponse and the builds that are shared).
THEOREM AnswersStayFresh == CacheSpec => []AnswersAreFresh
  BY CacheInvariant, CacheIInvIsFresh, PTL

LEMMA CacheIInvIsTyped ==
    ASSUME CacheIInv PROVE CacheTypeOK
<1> DEFINE Aging(l) == [IF l = "hours" THEN {"hours"} ELSE {"tickets", "hours"} -> Ages]
           EntriesOf(l) == {Absent} \cup [value: Aging(l), left: 1..LongestTtl]
<1>1. StoresOK /\ LoadsOK /\ LinksOK
  BY DEF CacheIInv
<1>2. /\ MaxBuild \in Nat /\ CompleteTtl \in Nat \ {0} /\ PeriodTtl \in Nat \ {0} /\ HoursTtl \in Nat \ {0}
  BY CacheAssumption
<1>3. ASSUME NEW l \in Layers
      PROVE  /\ InMemoryAtMost(l) \in Nat /\ InRedisAtMost(l) \in Nat
             /\ InRedisAtMost(l) <= InMemoryAtMost(l)
             /\ InMemoryAtMost(l) + (IF l = "complete" THEN OldestHours ELSE 0)
                   <= 4 * MaxBuild + PeriodTtl + CompleteTtl + 2 * HoursTtl
  BY <1>2 DEF Layers, InMemoryAtMost, InRedisAtMost, OldestHours, BuiltTtl, DefaultTtl
<1>4. ASSUME NEW l \in Layers, NEW v \in ValuesOf(l), NEW n \in Nat, n <= InMemoryAtMost(l), Within(v, l, n)
      PROVE  v \in Aging(l)
  <2>1. v \in Values /\ OldestHours \in Nat
    BY AbsentApart, TimesTyped
  <2>2. \A part \in DOMAIN v : v[part] \in Nat /\ v[part] <= n + IF l = "complete" THEN OldestHours ELSE 0
    BY <1>4, <2>1, Parts DEF Within
  <2>3. \A part \in DOMAIN v : v[part] \in Ages
    BY <1>2, <1>3, <1>4, <2>1, <2>2 DEF Ages
  <2> QED
    BY <2>3 DEF ValuesOf
<1>5. ASSUME NEW l \in Layers, NEW n \in Nat, n <= InMemoryAtMost(l), NEW e, EntryOK(e, l, n)
      PROVE  e \in EntriesOf(l)
  <2> SUFFICES ASSUME e # Absent PROVE e \in [value: Aging(l), left: 1..LongestTtl]
    OBVIOUS
  <2>1. e \in [value: ValuesOf(l), left: 1..LongestTtl] /\ Within(e.value, l, n)
    BY <1>5, EntryValue DEF EntryOK
  <2>2. e.value \in Aging(l)
    BY <1>4, <1>5, <2>1
  <2> HIDE DEF Aging
  <2> QED
    BY <2>1, <2>2
<1> HIDE DEF Aging
<1>6. /\ \A l \in Layers : redis[l] \in EntriesOf(l) /\ (redis[l] # Absent => useRedis)
      /\ \A p \in Processes, l \in Layers :
            memory[p][l] \in EntriesOf(l) /\ building[p][l] \in Requests \cup {Absent}
  BY <1>1, <1>3, <1>5 DEF StoresOK
<1>7. ASSUME NEW r \in Requests, load[r] # Idle
      PROVE  /\ load[r].pc \in {"clear", "look", "take", "build", "wait", "store", "answered", "rejected"}
             /\ load[r].kind \in Layers \cup {"refresh"} /\ load[r].age \in 0..MaxBuild
             /\ load[r].layer \in Layers /\ load[r].builds \subseteq Layers
             /\ load[r].pc = "wait" => load[r].of \in Requests \ {r}
             /\ load[r].pc = "answered" => load[r].value \in Aging(load[r].layer)
  <2>1. load[r] \in Load /\ Shaped(load[r]) /\ Aged(load[r]) /\ load[r].pc # "idle"
    BY <1>1, <1>7, IdleApart DEF LoadsOK
  <2>2. ASSUME load[r].pc = "wait" PROVE load[r].of \in Requests \ {r}
    <3>1. load[r].of \in Requests
      BY <1>1, <2>2, WhomOneWaitsFor
    <3>2. load[r].layer \notin load[r].builds
      BY <2>1, <2>2 DEF Shaped, BuildsOf, Under, InHours
    <3>3. load[r].layer \in load[load[r].of].builds
      BY <1>1, <2>2 DEF LinksOK, WaiterOK, Has
    <3> QED
      BY <3>1, <3>2, <3>3
  <2>3. ASSUME load[r].pc = "answered" PROVE load[r].value \in Aging(load[r].layer)
    <3>1. /\ load[r].layer \in Layers /\ load[r].value \in ValuesOf(load[r].layer)
          /\ Within(load[r].value, load[r].layer, InMemoryAtMost(load[r].layer))
      BY <2>1, <2>3 DEF Shaped, IsWhole, Aged, Load
    <3> QED
      BY <1>3, <1>4, <3>1
  <2> QED
    BY <2>1, <2>2, <2>3 DEF Load, LoadPCs
<1> QED
  BY <1>1, <1>6, <1>7 DEF CacheTypeOK, StoresOK, LongestTtl, Aging

\* The caches, the builds and the requests are of their types, and nobody waits
\* for himself.
THEOREM CacheTypes == CacheSpec => []CacheTypeOK
  BY CacheInvariant, CacheIInvIsTyped, PTL
=============================================================================
