---------------------------- MODULE ConcurrencyGate ----------------------------
(***************************************************************************)
(* The gate in front of Suno: at most so many jobs at once, and at most so *)
(* many of one owner; the others wait in the order they came.  The gate    *)
(* keeps counts, not the jobs it admitted: who holds a slot is known only  *)
(* to the callers that must give it back.                                  *)
(***************************************************************************)
EXTENDS Integers, Sequences, SequencesExt

CONSTANTS
  Jobs,       \* what asks for a slot
  Owner,      \* the user of each job
  MaxSlots,   \* max(): pool size times concurrentPerAccount
  UserCap,    \* sunoUserCap of each user
  MaxQueue    \* maxQueueLimit(), 0 for no bound

ASSUME GateAssumption ==
  MaxSlots \in Nat \ {0} /\ UserCap \in [{Owner[j] : j \in Jobs} -> Nat \ {0}] /\ MaxQueue \in Nat

Owners == {Owner[j] : j \in Jobs}

EmptyGate == [active |-> 0, owned |-> [o \in Owners |-> 0], waiting |-> << >>]

CanStart(gate, j) == gate.active < MaxSlots /\ gate.owned[Owner[j]] < UserCap[Owner[j]]

StartIn(gate, j) ==
  [gate EXCEPT !.active = @ + 1, !.owned[Owner[j]] = @ + 1]

QueueFull(gate) == MaxQueue > 0 /\ Len(gate.waiting) >= MaxQueue

Enqueued(gate, j) == [gate EXCEPT !.waiting = Append(@, j)]

Waiting(gate) == ToSet(gate.waiting)

(* pump: the waiting jobs in arrival order, each admitted if it can start now. *)
Pump(gate) ==
  FoldLeft(LAMBDA g, j : IF CanStart(g, j) THEN StartIn(g, j) ELSE Enqueued(g, j),
           [gate EXCEPT !.waiting = << >>], gate.waiting)

Less(n) == IF n > 0 THEN n - 1 ELSE 0

GivenBack(gate, j) ==
  [gate EXCEPT !.active = Less(@), !.owned[Owner[j]] = Less(@)]

(* Mutant: a slot is given back and nobody is woken. *)
Unpumped(gate, j) == GivenBack(gate, j)

Release(gate, j) == Pump(GivenBack(gate, j))

(* No job waits that could start: the admission never leaves a slot unused. *)
WorkConserving(gate) == \A j \in Waiting(gate) : ~CanStart(gate, j)
===============================================================================
