----------------------------- MODULE Semaphore -----------------------------
(***************************************************************************)
(* What proc_limit promises: at most Max of the callers hold a slot at any *)
(* time, and a slot that is given back can be taken again.                 *)
(***************************************************************************)
EXTENDS Naturals, FiniteSets

CONSTANTS Callers,   \* the clients that compete for a slot
          Max        \* number of slots

VARIABLE holders     \* the callers that hold a slot

Init == holders = {}

Acquire(c) == /\ c \notin holders
              /\ Cardinality(holders) < Max
              /\ holders' = holders \cup {c}

Release(c) == /\ c \in holders
              /\ holders' = holders \ {c}

Next == \E c \in Callers : Acquire(c) \/ Release(c)

Spec == Init /\ [][Next]_holders
=============================================================================
