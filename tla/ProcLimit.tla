----------------------------- MODULE ProcLimit -----------------------------
(***************************************************************************)
(* proc_limit (proc_limit.cpp): the counter of spamd connections in use.   *)
(*                                                                         *)
(* is_need_wait locks m_mutex, compares m_proc_num with the limit and      *)
(* increments it; DEC decrements it without taking the mutex.  Each caller *)
(* is one async_spamd_client; its program counter names the next step, so  *)
(* every interleaving of the compare, the INC and other callers' DEC is a  *)
(* behaviour.                                                              *)
(***************************************************************************)
EXTENDS Integers, FiniteSets

CONSTANTS Callers,    \* the spamd clients that share the limit
          max_proc    \* the argument of is_need_wait: conf_spamd_max_session

ASSUME CallersAssumption == IsFiniteSet(Callers)
ASSUME MaxProcAssumption == max_proc \in Nat

VARIABLES
  m_proc_num,   \* std::atomic<int>
  m_mutex,      \* the set of callers that hold the mutex
  b_ret,        \* the local of is_need_wait: TRUE when the caller must wait
  pc            \* where each caller is

vars == <<m_proc_num, m_mutex, b_ret, pc>>

PC == {"idle", "locked", "inc", "unlock", "holding"}

Goto(c, from, to) == /\ pc[c] = from
                     /\ pc' = [pc EXCEPT ![c] = to]

Init == /\ m_proc_num = 0
        /\ m_mutex = {}
        /\ b_ret = [c \in Callers |-> FALSE]
        /\ pc = [c \in Callers |-> "idle"]

(* Mutants of Lock: is_need_wait without its mutex. *)
LockWithoutMutex(c) == /\ Goto(c, "idle", "locked")
                       /\ b_ret' = [b_ret EXCEPT ![c] = FALSE]
                       /\ UNCHANGED <<m_mutex, m_proc_num>>

(* b_ret keeps the answer of the previous poll. *)
LockKeepsAnswer(c) == /\ Goto(c, "idle", "locked")
                      /\ m_mutex = {}
                      /\ m_mutex' = {c}
                      /\ UNCHANGED <<b_ret, m_proc_num>>

(* is_need_wait, first step: m_mutex.lock(). *)
Lock(c) == /\ Goto(c, "idle", "locked")
           /\ m_mutex = {}
           /\ m_mutex' = {c}
           /\ b_ret' = [b_ret EXCEPT ![c] = FALSE]
           /\ UNCHANGED m_proc_num

(* Mutant: the comparison admits one caller too many. *)
CompareOffByOne(c) ==
  /\ \/ /\ max_proc >= m_proc_num
        /\ Goto(c, "locked", "inc")
        /\ UNCHANGED b_ret
     \/ /\ max_proc < m_proc_num
        /\ Goto(c, "locked", "unlock")
        /\ b_ret' = [b_ret EXCEPT ![c] = TRUE]
  /\ UNCHANGED <<m_proc_num, m_mutex>>

(* The comparison with the limit reads the atomic once. *)
Compare(c) ==
  /\ \/ /\ max_proc > m_proc_num
        /\ Goto(c, "locked", "inc")
        /\ UNCHANGED b_ret
     \/ /\ max_proc <= m_proc_num
        /\ Goto(c, "locked", "unlock")
        /\ b_ret' = [b_ret EXCEPT ![c] = TRUE]
  /\ UNCHANGED <<m_proc_num, m_mutex>>

INC(c) == /\ Goto(c, "inc", "unlock")
          /\ m_proc_num' = m_proc_num + 1
          /\ UNCHANGED <<m_mutex, b_ret>>

(* Mutant: a refused caller gives back a slot it does not have. *)
UnlockGivesBack(c) == /\ Goto(c, "unlock", IF b_ret[c] THEN "idle" ELSE "holding")
                      /\ m_mutex' = m_mutex \ {c}
                      /\ m_proc_num' = m_proc_num - (IF b_ret[c] THEN 1 ELSE 0)
                      /\ UNCHANGED b_ret

(* m_mutex.unlock() and return: the caller holds a slot or polls again. *)
Unlock(c) == /\ Goto(c, "unlock", IF b_ret[c] THEN "idle" ELSE "holding")
             /\ m_mutex' = m_mutex \ {c}
             /\ UNCHANGED <<m_proc_num, b_ret>>

(* async_spamd_client::handle_protocol_closed gives the slot back; the     *)
(* mutex is not taken.                                                     *)
DEC(c) == /\ Goto(c, "holding", "idle")
          /\ m_proc_num' = m_proc_num - 1
          /\ UNCHANGED <<m_mutex, b_ret>>

Next == \E c \in Callers : Lock(c) \/ Compare(c) \/ INC(c) \/ Unlock(c) \/ DEC(c)

(* A thread inside is_need_wait keeps running, and a client that holds a   *)
(* slot is closed some day (SpamdClient checks that it is).                *)
Fairness == \A c \in Callers :
              /\ WF_vars(Compare(c) \/ INC(c) \/ Unlock(c))
              /\ WF_vars(DEC(c))

Spec == Init /\ [][Next]_vars /\ Fairness

----------------------------------------------------------------------------

TypeOK == /\ m_proc_num \in Nat
          /\ m_mutex \in SUBSET Callers
          /\ b_ret \in [Callers -> BOOLEAN]
          /\ pc \in [Callers -> PC]

(* The callers whose INC is not yet matched by a DEC. *)
Counted(c) == pc[c] = "holding" \/ (pc[c] = "unlock" /\ ~b_ret[c])
holders == {c \in Callers : Counted(c)}

(* The counter equals the number of callers between their INC and their    *)
(* DEC, whatever the interleaving of INC under the mutex and DEC outside.  *)
CountExact == m_proc_num = Cardinality(holders)

(* No interleaving of the check and the increment admits more callers than *)
(* the limit given to is_need_wait.                                        *)
LimitRespected == Cardinality(holders) <= max_proc

(* proc_limit implements the abstract semaphore. *)
Sem == INSTANCE Semaphore WITH Max <- max_proc
ImplementsSemaphore == Sem!Spec
=============================================================================
