---------------------------- MODULE TicketNumbers ----------------------------
(***************************************************************************)
(* How a portal ticket gets its number: allocatePortalTicketNumber and the *)
(* upsert of its two callers (tickets.service.ts create, pre-tickets       *)
(* openAsTicket), translated from tickets-portal-store.service.ts.         *)
(*                                                                         *)
(* An allocation reads MAX(ticket_number)+1, draws from a database         *)
(* sequence, realigns the sequence when the value drawn is unusable, looks *)
(* for a row with the number, moves the sequence to the number and only    *)
(* then does the caller write the row.  Each step is a query of its own,   *)
(* and allocations run concurrently.                                       *)
(***************************************************************************)
EXTENDS Naturals, FiniteSets

CONSTANTS
    Openings,       \* the tickets to open, one allocation each
    Cutover,        \* numbers from here on are legacy (1000000000)
    MaxNumber,      \* bound: the largest number considered (INT4)
    MaxChecks,      \* look-ups of the number before it is taken anyway (20)
    MaxMirrored,    \* bound: tickets numbered by TiFlux written meanwhile
    HighestMirrored, \* bound: TiFlux numbers stay well below the cutover
    MaxFailures,    \* bound: queries on the sequence that fail
    InitialTables,  \* the sets of numbers portal_tickets may start with
    InitialSeqs,    \* the states the sequence may start in
    NoRow,          \* portal_tickets has no row with the number
    Earlier,        \* the row was there before the openings
    Mirrored        \* the row carries a number given by TiFlux

ASSUME BoundsAssumption ==
    /\ Cutover \in Nat \ {0} /\ MaxNumber \in Nat /\ Cutover <= MaxNumber
    /\ MaxChecks \in Nat \ {0} /\ MaxMirrored \in Nat /\ MaxFailures \in Nat
    /\ HighestMirrored \in Nat /\ HighestMirrored < Cutover
ASSUME SentinelsAssumption ==
    /\ {NoRow, Earlier, Mirrored} \cap Openings = {}
    /\ NoRow # Earlier /\ NoRow # Mirrored

VARIABLES
    table,      \* portal_tickets: who wrote the row of each number last
    seq,        \* portal_ticket_number_seq
    op,         \* the openings
    mirrored,   \* numbers written on behalf of TiFlux so far
    failures    \* queries on the sequence that failed so far

vars == <<table, seq, op, mirrored, failures>>

Numbers == 1..MaxNumber

\* The tries of the loop that draws from the sequence.
MaxAttempts == 3

PCs == {"idle", "nextval", "realign", "exists", "setval", "insert", "done", "failed"}

Opening == [pc: PCs, floor: Nat, next: Nat, attempt: Nat, checks: Nat,
            older: SUBSET Numbers]

\* A PostgreSQL sequence: the last value, never below its minimum of 1, and
\* whether it has been given out.
Sequence == [last: Nat \ {0}, called: BOOLEAN]

ASSUME InitialAssumption ==
    InitialTables \subseteq SUBSET Numbers /\ InitialSeqs \subseteq Sequence

TypeOK ==
    /\ table \in [Numbers -> Openings \cup {NoRow, Earlier, Mirrored}]
    /\ seq \in Sequence
    /\ op \in [Openings -> Opening]
    /\ mirrored \in Nat
    /\ failures \in Nat

-----------------------------------------------------------------------------
Taken == {n \in Numbers : table[n] # NoRow}

\* MAX(ticket_number) below the cutover, 0 without any.
IsHighestTaken(m) ==
    /\ m = 0 \/ (m \in Taken /\ m < Cutover)
    /\ \A n \in Taken : n < Cutover => n <= m

NextInSeq == IF seq.called THEN seq.last + 1 ELSE seq.last

Setval(n) == [last |-> n, called |-> TRUE]

Init ==
    /\ \E T \in InitialTables :
          table = [n \in Numbers |-> IF n \in T THEN Earlier ELSE NoRow]
    /\ seq \in InitialSeqs
    /\ op = [o \in Openings |-> [pc |-> "idle", floor |-> 0, next |-> 0,
                                 attempt |-> 0, checks |-> 0, older |-> {}]]
    /\ mirrored = 0
    /\ failures = 0

\* SELECT MAX + 1.  `older' remembers, for the properties, the rows there.
ReadMax(o) ==
    /\ op[o].pc = "idle"
    /\ \E m \in Numbers \cup {0} :
          /\ IsHighestTaken(m)
          /\ op' = [op EXCEPT ![o].pc = "nextval", ![o].floor = m + 1,
                              ![o].next = m + 1, ![o].older = Taken]
    /\ UNCHANGED <<table, seq, mirrored, failures>>

\* Mutant: any value of the sequence is taken.
Usable_Behind(n, floor) == n < Cutover

\* The value drawn is above every ticket and below the legacy range.
Usable(n, floor) == n >= floor /\ n < Cutover

Nextval(o) ==
    /\ op[o].pc = "nextval"
    /\ seq' = [last |-> NextInSeq, called |-> TRUE]
    /\ op' = IF Usable(NextInSeq, op[o].floor)
             THEN [op EXCEPT ![o].pc = "exists", ![o].next = NextInSeq]
             ELSE [op EXCEPT ![o].pc = "realign"]
    /\ UNCHANGED <<table, mirrored, failures>>

\* Mutant: setval accepts 0.
CanSetTo_Zero(n) == n >= 0

\* The values setval accepts; any other is an error.
CanSetTo(n) == n >= 1

\* setval(floor - 1).  An error ends the loop and the number is MAX + 1.
Realign(o) ==
    /\ op[o].pc = "realign"
    /\ IF CanSetTo(op[o].floor - 1)
       THEN /\ seq' = Setval(op[o].floor - 1)
            /\ op' = [op EXCEPT ![o].attempt = @ + 1,
                          ![o].pc = IF op[o].attempt + 1 < MaxAttempts
                                    THEN "nextval" ELSE "exists"]
       ELSE /\ op' = [op EXCEPT ![o].pc = "exists"]
            /\ UNCHANGED seq
    /\ UNCHANGED <<table, mirrored, failures>>

\* One look-up of the number; the next one is tried when it is taken.
CheckExists(o) ==
    /\ op[o].pc = "exists"
    /\ op' = IF op[o].next \in Taken
             THEN [op EXCEPT ![o].next = @ + 1, ![o].checks = @ + 1,
                             ![o].pc = IF op[o].checks + 1 < MaxChecks
                                       THEN "exists" ELSE "setval"]
             ELSE [op EXCEPT ![o].pc = "setval"]
    /\ UNCHANGED <<table, seq, mirrored, failures>>

\* The range check, which throws, and setval(next).
MoveSequence(o) ==
    /\ op[o].pc = "setval"
    /\ IF op[o].next \in Numbers
       THEN /\ seq' = Setval(op[o].next)
            /\ op' = [op EXCEPT ![o].pc = "insert"]
       ELSE /\ op' = [op EXCEPT ![o].pc = "failed"]
            /\ UNCHANGED seq
    /\ UNCHANGED <<table, mirrored, failures>>

\* A query on the sequence fails: nextval and the realignment fall back to
\* MAX + 1, the last setval is skipped.
SequenceFails(o) ==
    /\ failures < MaxFailures
    /\ failures' = failures + 1
    /\ \/ /\ op[o].pc \in {"nextval", "realign"}
          /\ op' = [op EXCEPT ![o].pc = "exists"]
       \/ /\ op[o].pc = "setval"
          /\ op[o].next \in Numbers
          /\ op' = [op EXCEPT ![o].pc = "insert"]
    /\ UNCHANGED <<table, seq, mirrored>>

\* upsertByTicketNumber: a row with the number is overwritten.
Insert(o) ==
    /\ op[o].pc = "insert"
    /\ table' = [table EXCEPT ![op[o].next] = o]
    /\ op' = [op EXCEPT ![o].pc = "done"]
    /\ UNCHANGED <<seq, mirrored, failures>>

\* A ticket numbered by TiFlux is written: the sequence is not consulted.
Mirror(n) ==
    /\ mirrored < MaxMirrored
    /\ n <= HighestMirrored
    /\ table[n] = NoRow
    /\ table' = [table EXCEPT ![n] = Mirrored]
    /\ mirrored' = mirrored + 1
    /\ UNCHANGED <<seq, op, failures>>

Step(o) ==
    \/ ReadMax(o)
    \/ Nextval(o)
    \/ Realign(o)
    \/ CheckExists(o)
    \/ MoveSequence(o)
    \/ SequenceFails(o)
    \/ Insert(o)

Next == (\E o \in Openings : Step(o)) \/ (\E n \in Numbers : Mirror(n))

Spec == Init /\ [][Next]_vars

-----------------------------------------------------------------------------
\* Properties

\* The number drawn and not yet written, or written.
HasNumber(o) == op[o].pc \in {"insert", "done"}

\* A ticket that was there when an opening began is never overwritten by it,
\* whatever the sequence holds and whoever else writes
\* (allocatePortalTicketNumber starts above the highest ticket).
OlderTicketsSurvive ==
    \A o \in Openings : HasNumber(o) =>
        op[o].next \notin {n \in op[o].older : n < Cutover}

\* Two openings get different numbers
\* (tickets-portal-store.service.ts:60-61, `nextval' is atomic).
DistinctNumbers ==
    \A o1, o2 \in Openings :
        o1 # o2 /\ HasNumber(o1) /\ HasNumber(o2) => op[o1].next # op[o2].next

=============================================================================
