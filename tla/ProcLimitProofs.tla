-------------------------- MODULE ProcLimitProofs --------------------------
(***************************************************************************)
(* Proofs about ProcLimit, for any finite set of callers and any limit:    *)
(* the counter is exact, the limit is respected, and proc_limit implements *)
(* the abstract semaphore.  The argument is the usual one of a critical    *)
(* section: a caller between its comparison and its INC holds the mutex,   *)
(* so nobody else can INC meanwhile, and the DECs outside the mutex only   *)
(* make more room.                                                         *)
(***************************************************************************)
EXTENDS ProcLimit, FiniteSetTheorems, TLAPS

InSection(c) == pc[c] \in {"locked", "inc", "unlock"}

(* The callers inside is_need_wait are those that hold the mutex. *)
SectionLocked == \A c \in Callers : InSection(c) <=> c \in m_mutex
MutexExclusive == \A c, d \in m_mutex : c = d

(* b_ret is set by the comparison only. *)
NoAnswerYet == \A c \in Callers : pc[c] \in {"locked", "inc"} => ~b_ret[c]

(* What the comparison established still holds when INC runs. *)
RoomForInc == \A c \in Callers : pc[c] = "inc" => Cardinality(holders) < max_proc

IInv == /\ TypeOK
        /\ SectionLocked
        /\ MutexExclusive
        /\ NoAnswerYet
        /\ CountExact
        /\ LimitRespected
        /\ RoomForInc

----------------------------------------------------------------------------

(* The holders are finitely many. *)
LEMMA HoldersFinite == IsFiniteSet(holders) /\ Cardinality(holders) \in Nat
BY CallersAssumption, FS_Subset, FS_CardinalityType DEF holders

(* Nobody holds a slot at first. *)
LEMMA InitInv == Init => IInv
<1> SUFFICES ASSUME Init PROVE IInv
    OBVIOUS
<1>1. holders = {}
    BY DEF Init, holders, Counted
<1>2. Cardinality(holders) = 0
    BY <1>1, FS_EmptySet
<1> QED
    BY <1>2, MaxProcAssumption
    DEF Init, IInv, TypeOK, PC, SectionLocked, InSection, MutexExclusive,
        NoAnswerYet, CountExact, LimitRespected, RoomForInc

(* How each step changes the set of holders: only INC and DEC do. *)
LEMMA HoldersStep ==
  ASSUME IInv, NEW c \in Callers
  PROVE  /\ Lock(c) \/ Compare(c) \/ Unlock(c) => holders' = holders
         /\ INC(c) => c \notin holders /\ holders' = holders \cup {c}
         /\ DEC(c) => c \in holders /\ holders' = holders \ {c}
<1>1. ASSUME Lock(c) PROVE holders' = holders
    BY <1>1 DEF IInv, TypeOK, Lock, Goto, holders, Counted
<1>2. ASSUME Compare(c) PROVE holders' = holders
    BY <1>2 DEF IInv, TypeOK, Compare, Goto, holders, Counted
<1>3. ASSUME Unlock(c) PROVE holders' = holders
  <2>1. CASE b_ret[c]
      BY <1>3, <2>1 DEF IInv, TypeOK, Unlock, Goto, holders, Counted
  <2>2. CASE ~b_ret[c]
      BY <1>3, <2>2 DEF IInv, TypeOK, Unlock, Goto, holders, Counted
  <2> QED
      BY <2>1, <2>2
<1>4. ASSUME INC(c) PROVE c \notin holders /\ holders' = holders \cup {c}
    BY <1>4 DEF IInv, TypeOK, NoAnswerYet, INC, Goto, holders, Counted
<1>5. ASSUME DEC(c) PROVE c \in holders /\ holders' = holders \ {c}
    BY <1>5 DEF IInv, TypeOK, DEC, Goto, holders, Counted
<1> QED
    BY <1>1, <1>2, <1>3, <1>4, <1>5

(* Every step keeps the inductive invariant. *)
LEMMA StepInv == IInv /\ [Next]_vars => IInv'
<1> SUFFICES ASSUME IInv, [Next]_vars PROVE IInv'
    OBVIOUS
<1> USE CallersAssumption, MaxProcAssumption, HoldersFinite
<1>1. ASSUME NEW c \in Callers, Lock(c) PROVE IInv'
  <2>1. holders' = holders
      BY <1>1, HoldersStep
  <2> QED
      BY <1>1, <2>1
      DEF IInv, Lock, Goto, TypeOK, PC, SectionLocked, InSection, MutexExclusive,
          NoAnswerYet, CountExact, LimitRespected, RoomForInc
<1>2. ASSUME NEW c \in Callers, Compare(c) PROVE IInv'
  <2>1. holders' = holders
      BY <1>2, HoldersStep
  <2> QED
      BY <1>2, <2>1
      DEF IInv, Compare, Goto, TypeOK, PC, SectionLocked, InSection, MutexExclusive,
          NoAnswerYet, CountExact, LimitRespected, RoomForInc
<1>3. ASSUME NEW c \in Callers, INC(c) PROVE IInv'
  <2>1. c \notin holders /\ holders' = holders \cup {c}
      BY <1>3, HoldersStep
  <2>2. Cardinality(holders') = Cardinality(holders) + 1
      BY <2>1, FS_AddElement
  <2>3. Cardinality(holders) < max_proc
      BY <1>3 DEF IInv, RoomForInc, INC, Goto
  <2>4. \A d \in Callers : pc'[d] # "inc"
      BY <1>3 DEF IInv, TypeOK, SectionLocked, InSection, MutexExclusive, INC, Goto
  <2>5. TypeOK' /\ SectionLocked' /\ MutexExclusive' /\ NoAnswerYet'
      BY <1>3 DEF IInv, TypeOK, PC, SectionLocked, InSection, MutexExclusive,
                  NoAnswerYet, INC, Goto
  <2>6. CountExact' /\ LimitRespected' /\ RoomForInc'
      BY <1>3, <2>2, <2>3, <2>4 DEF IInv, CountExact, LimitRespected, RoomForInc, INC
  <2> QED
      BY <2>5, <2>6 DEF IInv
<1>4. ASSUME NEW c \in Callers, Unlock(c) PROVE IInv'
  <2>1. holders' = holders
      BY <1>4, HoldersStep
  <2>2. pc' = [pc EXCEPT ![c] = IF b_ret[c] THEN "idle" ELSE "holding"] /\ pc[c] = "unlock"
      BY <1>4 DEF Unlock, Goto
  <2>3. (IF b_ret[c] THEN "idle" ELSE "holding") \in {"idle", "holding"}
      OBVIOUS
  <2> QED
      BY <1>4, <2>1, <2>2, <2>3
      DEF IInv, Unlock, TypeOK, PC, SectionLocked, InSection, MutexExclusive,
          NoAnswerYet, CountExact, LimitRespected, RoomForInc
<1>5. ASSUME NEW c \in Callers, DEC(c) PROVE IInv'
  <2>1. c \in holders /\ holders' = holders \ {c}
      BY <1>5, HoldersStep
  <2>2. Cardinality(holders') = Cardinality(holders) - 1 /\ Cardinality(holders') \in Nat
      BY <2>1, FS_RemoveElement, FS_CardinalityType
  <2> QED
      BY <1>5, <2>2
      DEF IInv, DEC, Goto, TypeOK, PC, SectionLocked, InSection, MutexExclusive,
          NoAnswerYet, CountExact, LimitRespected, RoomForInc
<1>6. ASSUME UNCHANGED vars PROVE IInv'
    BY <1>6
    DEF vars, IInv, TypeOK, SectionLocked, InSection, MutexExclusive, NoAnswerYet,
        CountExact, LimitRespected, RoomForInc, holders, Counted
<1> QED
    BY <1>1, <1>2, <1>3, <1>4, <1>5, <1>6 DEF Next

LEMMA SpecInv == Spec => []IInv
BY InitInv, StepInv, PTL DEF Spec

----------------------------------------------------------------------------

(* TypeOK: the counter of proc_limit never goes below zero, though DEC     *)
(* does not test it.                                                       *)
THEOREM TypeCorrect == Spec => []TypeOK
<1>1. IInv => TypeOK
    BY DEF IInv
<1> QED
    BY <1>1, SpecInv, PTL

(* CountExact: no INC or DEC is lost to the DECs made without the mutex.   *)
THEOREM CountIsExact == Spec => []CountExact
<1>1. IInv => CountExact
    BY DEF IInv
<1> QED
    BY <1>1, SpecInv, PTL

(* LimitRespected: is_need_wait never lets more than max_proc callers      *)
(* through, for any number of callers.                                     *)
THEOREM LimitHolds == Spec => []LimitRespected
<1>1. IInv => LimitRespected
    BY DEF IInv
<1> QED
    BY <1>1, SpecInv, PTL

(* ImplementsSemaphore: INC is the acquire and DEC the release of the      *)
(* abstract semaphore, and every other step of proc_limit is invisible.    *)
THEOREM RefinesSemaphore == Spec => ImplementsSemaphore
<1>1. Init => Sem!Init
    BY DEF Init, Sem!Init, holders, Counted
<1>2. IInv /\ [Next]_vars => [Sem!Next]_holders
  <2> SUFFICES ASSUME IInv, [Next]_vars PROVE [Sem!Next]_holders
      OBVIOUS
  <2>1. ASSUME NEW c \in Callers, Lock(c) \/ Compare(c) \/ Unlock(c)
        PROVE  holders' = holders
      BY <2>1, HoldersStep
  <2>2. ASSUME NEW c \in Callers, INC(c) PROVE Sem!Acquire(c)
    <3>1. Cardinality(holders) < max_proc
        BY <2>2 DEF IInv, RoomForInc, INC, Goto
    <3> QED
        BY <2>2, <3>1, HoldersStep DEF Sem!Acquire, Sem!Cardinality, Cardinality
  <2>3. ASSUME NEW c \in Callers, DEC(c) PROVE Sem!Release(c)
      BY <2>3, HoldersStep DEF Sem!Release
  <2>4. ASSUME UNCHANGED vars PROVE holders' = holders
      BY <2>4 DEF vars, holders, Counted
  <2> QED
      BY <2>1, <2>2, <2>3, <2>4 DEF Next, Sem!Next
<1> QED
    BY <1>1, <1>2, SpecInv, PTL DEF Spec, ImplementsSemaphore, Sem!Spec
=============================================================================
