------------------------------- MODULE IoRing -------------------------------
(***************************************************************************)
(* The two rings of io_uring that src/src/uring.rs and                     *)
(* src/examples/phase_uring.rs map into their memory, and the kernel on    *)
(* the other side, as these programs rely on it: io_uring_enter takes      *)
(* submissions in order before it returns, but perhaps not all of them;    *)
(* what was taken completes in any order; a completion that finds the ring *)
(* full is kept back, and then io_uring_enter may return an error.         *)
(*                                                                         *)
(* Ring counters are words of CounterBits bits and wrap; a slot is the     *)
(* counter modulo the size of its ring.                                    *)
(***************************************************************************)
EXTENDS Integers, Sequences, FiniteSets

CONSTANTS CounterBits, MaxFaults

Counters == 2 ^ CounterBits
Minus(x, y) == (x - y) % Counters

(* Mutant: counters are added without wrapping. *)
PlusMutant(x, n) == x + n

Plus(x, n) == (x + n) % Counters

VARIABLES size,        \* entries of the submission ring
          sqTail, sqHead, sqes,
          inflight,    \* operations the kernel has taken
          cqTail, cqHead, cqes,
          kept,        \* completions that found the ring full
          faults       \* how often the kernel has taken less than offered

ringVars == <<size, sqTail, sqHead, sqes, inflight, cqTail, cqHead, cqes, kept, faults>>

CqSize == 2 * size
NoOp   == [tag |-> 0, iov |-> 0]

(* Rings of the size asked for, with nothing in them. The counters start at  *)
(* 0; starting from a later value c shortens the way to their wrap-around.   *)
RingInit(n, c) ==
  /\ size = n
  /\ sqTail = c /\ sqHead = c /\ sqes = [i \in 0 .. n - 1 |-> NoOp]
  /\ inflight = {}
  /\ cqTail = c /\ cqHead = c /\ cqes = [i \in 0 .. 2 * n - 1 |-> [tag |-> 0, res |-> 0]]
  /\ kept = 0 /\ faults = 0

(* Submissions waiting in the ring, and the operation at a counter value. *)
Offered   == Minus(sqTail, sqHead)
Taken(k)  == {[at |-> Plus(sqHead, i), op |-> sqes[Plus(sqHead, i) % size]] : i \in 0 .. k - 1}

(* io_uring_enter(n): what it returns, -1 for an error. *)
Enter(n, r) ==
  LET most == IF n < Offered THEN n ELSE Offered
  IN  /\ \/ r = most
         \/ r \in 0 .. most - 1 /\ faults < MaxFaults
         \/ r = -1 /\ kept > 0
      /\ LET k == IF r < 0 THEN 0 ELSE r
         IN  /\ inflight' = inflight \union Taken(k)
             /\ sqHead' = Plus(sqHead, k)
      /\ faults' = IF r \in 0 .. most - 1 THEN faults + 1 ELSE faults
      /\ UNCHANGED <<size, sqes, cqTail, cqHead, cqes, kept>>

(* One operation ends with a result. *)
Complete(o, res) ==
  /\ o \in inflight
  /\ inflight' = inflight \ {o}
  /\ IF Minus(cqTail, cqHead) < CqSize
     THEN /\ cqes' = [cqes EXCEPT ![cqTail % CqSize] = [tag |-> o.op.tag, res |-> res]]
          /\ cqTail' = Plus(cqTail, 1)
          /\ UNCHANGED kept
     ELSE kept' = kept + 1 /\ UNCHANGED <<cqes, cqTail>>
  /\ UNCHANGED <<size, sqTail, sqHead, sqes, cqHead, faults>>

(* Everything a program has put into the submission ring is sent by one       *)
(* io_uring_enter (uring.rs 183, phase_uring.rs 4), so that nothing is        *)
(* written over before the kernel took it. It does not hold: the callers do  *)
(* not look at how much was taken.                                           *)
SubmissionsFit == Offered <= size

(* One call that takes less does no harm: the ring has room for what is left  *)
(* behind, and the next calls take as much as they add (phase_uring.rs        *)
(* 157-172 and 234, uring.rs 160-193).                                       *)
OneShortCallFits == faults < 2 => SubmissionsFit

-----------------------------------------------------------------------------
(***************************************************************************)
(* The event loop of src/examples/phase_uring.rs: batches of no-operations *)
(* are submitted with one call each, and reap collects their completions.  *)
(***************************************************************************)
CONSTANTS Events,  \* n: events in all
          Batch    \* the ring has twice as many entries

VARIABLES nopAt, submitted, take

nopVars == <<nopAt, submitted, take>>

(* Mutant: the ring has room for one batch. *)
RingEntriesMutant == Batch

RingEntries == 2 * Batch

(* The size of a ring is a power of two, and so is the range of its counters. *)
ASSUME RingAssumption ==
  /\ MaxFaults \in Nat /\ Events \in Nat /\ Batch \in Nat \ {0}
  /\ Counters \in Nat /\ \E m \in 1 .. Counters : Counters = m * (2 * RingEntries)

NopsStart == nopAt = "write" /\ submitted = 0 /\ take = 0

(* submit_nops up to the store of the tail *)
WriteNops ==
  /\ nopAt = "write" /\ submitted < Events
  /\ take' = IF Events - submitted < Batch THEN Events - submitted ELSE Batch
  /\ LET slots == {(sqTail + i) % size : i \in 0 .. take' - 1}
     IN  sqes' = [i \in DOMAIN sqes |-> IF i \in slots THEN [tag |-> i + 1, iov |-> 0]
                                       ELSE sqes[i]]
  /\ sqTail' = Plus(sqTail, take')
  /\ nopAt' = "enter"
  /\ UNCHANGED <<submitted, size, sqHead, inflight, cqTail, cqHead, cqes, kept, faults>>

EnterNops ==
  /\ nopAt = "enter"
  /\ \E r \in -1 .. take : /\ Enter(take, r)
                           /\ nopAt' = IF r < 0 THEN "panic" ELSE "reap"
  /\ UNCHANGED <<submitted, take, sqTail>>

(* The turn of reap that finds the ring not empty: the inner loop counts the *)
(* completion at head until it has enough, and head stays where it is.       *)
Reap ==
  /\ nopAt = "reap"
  /\ cqHead # cqTail
  /\ submitted' = submitted + take
  /\ nopAt' = "write"
  /\ UNCHANGED <<take, ringVars>>

(* Mutant: the wait spins without a limit. *)
GiveUpReapMutant == FALSE

GiveUpReap ==
  /\ nopAt = "reap"
  /\ nopAt' = "panic"
  /\ UNCHANGED <<submitted, take, ringVars>>

EndOfEvents ==
  /\ nopAt = "write" /\ submitted = Events
  /\ nopAt' = "done"
  /\ UNCHANGED <<submitted, take, ringVars>>

(* No-operations end in the order they were taken. *)
KernelNops ==
  \E o \in inflight :
    /\ \A other \in inflight : Minus(sqHead, o.at) >= Minus(sqHead, other.at)
    /\ Complete(o, 0)
    /\ UNCHANGED nopVars

NopsMain == WriteNops \/ EnterNops \/ Reap \/ EndOfEvents
=============================================================================
