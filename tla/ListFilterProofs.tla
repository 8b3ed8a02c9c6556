-------------------------- MODULE ListFilterProofs --------------------------
(***************************************************************************)
(* Proofs about ListFilter, for any number of sessions, any values and any *)
(* options: is_will_discard and push are not one step, and still a filter  *)
(* lets at most one mail of each session through too many.  A session that *)
(* has asked and not yet pushed is counted together with the mails that    *)
(* passed: asking is allowed only while the list itself keeps the limit,   *)
(* and pushing turns one such session into one such mail.                  *)
(***************************************************************************)
EXTENDS ListFilter, FiniteSetTheorems, SequenceTheorems, TLAPS

Entry == [value : Values \cup {NoIp}, passed : BOOLEAN]

(* The entries of a list that passed with a value. *)
PassedIn(list, v) == {i \in DOMAIN list : list[i].value = v /\ list[i].passed}

(* The sessions that may let one more mail with that value through. *)
Judging(f, v) ==
  {s \in Sessions : at[s] = f /\ judged[s] /\ ~b_discard[s] /\ mail[s][f] = v}

(* A session without a mail has not asked about one. *)
JudgedAtFilter == \A s \in Sessions : judged[s] => at[s] # "none"

(* PassedBounded with the mails that are on their way. *)
PassedOrJudging ==
  \A f \in Filters, v \in Values :
    conf_max_list_size[f] > conf_max_dup_num[f]
      => Cardinality(Passed(f, v)) + Cardinality(Judging(f, v))
           <= conf_max_dup_num[f] + Cardinality(Sessions)

IInv == TypeOK /\ JudgedAtFilter /\ PassedOrJudging

----------------------------------------------------------------------------

(* The passed entries of a list are finitely many. *)
LEMMA PassedInFinite ==
  ASSUME NEW T, NEW list \in Seq(T), NEW v
  PROVE  /\ IsFiniteSet(PassedIn(list, v))
         /\ Cardinality(PassedIn(list, v)) \in Nat
         /\ PassedIn(list, v) \subseteq 1 .. Len(list)
<1>1. DOMAIN list = 1 .. Len(list) /\ Len(list) \in Nat
    OBVIOUS
<1>2. PassedIn(list, v) \subseteq 1 .. Len(list)
    BY <1>1 DEF PassedIn
<1>3. IsFiniteSet(1 .. Len(list))
    BY <1>1, FS_Interval
<1> QED
    BY <1>2, <1>3, FS_Subset, FS_CardinalityType

(* A new entry adds one passed mail at most, and none when it did not pass *)
(* or has another value.                                                   *)
LEMMA PassedInAppend ==
  ASSUME NEW T, NEW list \in Seq(T), NEW e \in T, NEW v
  PROVE  /\ Cardinality(PassedIn(Append(list, e), v))
              <= Cardinality(PassedIn(list, v)) + 1
         /\ ~(e.value = v /\ e.passed)
              => Cardinality(PassedIn(Append(list, e), v))
                   <= Cardinality(PassedIn(list, v))
<1> DEFINE P == PassedIn(list, v)
           Q == PassedIn(Append(list, e), v)
<1>1. /\ Append(list, e) \in Seq(T)
      /\ Len(Append(list, e)) = Len(list) + 1
      /\ \A i \in 1 .. Len(list) : Append(list, e)[i] = list[i]
      /\ Append(list, e)[Len(list) + 1] = e
      /\ Len(list) \in Nat
    BY AppendProperties
<1>2. /\ DOMAIN list = 1 .. Len(list)
      /\ DOMAIN Append(list, e) = (1 .. Len(list)) \cup {Len(list) + 1}
    BY <1>1
<1>3. Q \subseteq P \cup {Len(list) + 1}
    BY <1>1, <1>2 DEF PassedIn
<1>4. ~(e.value = v /\ e.passed) => Q \subseteq P
    BY <1>1, <1>2 DEF PassedIn
<1>5. IsFiniteSet(P) /\ IsFiniteSet(Q) /\ Cardinality(P) \in Nat /\ Cardinality(Q) \in Nat
    BY <1>1, PassedInFinite
<1> HIDE DEF P, Q
<1>6. /\ IsFiniteSet(P \cup {Len(list) + 1})
      /\ Cardinality(P \cup {Len(list) + 1}) <= Cardinality(P) + 1
      /\ Cardinality(P \cup {Len(list) + 1}) \in Nat
  <2> DEFINE x == Len(list) + 1
  <2> HIDE DEF x
  <2>1. /\ IsFiniteSet(P \cup {x})
        /\ Cardinality(P \cup {x}) = IF x \in P THEN Cardinality(P)
                                               ELSE Cardinality(P) + 1
      BY <1>5, FS_AddElement, Zenon
  <2>2. Cardinality(P \cup {x}) <= Cardinality(P) + 1
        /\ Cardinality(P \cup {x}) \in Nat
      BY <1>5, <2>1
  <2> QED
      BY <2>1, <2>2 DEF x
<1>7. Cardinality(Q) <= Cardinality(P \cup {Len(list) + 1})
    BY <1>3, <1>6, FS_Subset
<1>8. ~(e.value = v /\ e.passed) => Cardinality(Q) <= Cardinality(P)
    BY <1>4, <1>5, FS_Subset
<1> QED
    BY <1>5, <1>6, <1>7, <1>8 DEF P, Q

(* To drop the oldest entry adds no passed mail. *)
LEMMA PassedInTail ==
  ASSUME NEW T, NEW list \in Seq(T), list # <<>>, NEW v
  PROVE  Cardinality(PassedIn(Tail(list), v)) <= Cardinality(PassedIn(list, v))
<1> DEFINE P == PassedIn(list, v)
           Q == PassedIn(Tail(list), v)
           h == [i \in Q |-> i + 1]
<1>1. /\ Tail(list) \in Seq(T)
      /\ Len(Tail(list)) = Len(list) - 1
      /\ \A i \in 1 .. Len(Tail(list)) : Tail(list)[i] = list[i + 1]
      /\ Len(list) \in Nat \ {0}
    BY HeadTailProperties, EmptySeq
<1>2. /\ DOMAIN list = 1 .. Len(list)
      /\ DOMAIN Tail(list) = 1 .. Len(list) - 1
    BY <1>1
<1>3. IsFiniteSet(P) /\ Q \subseteq Nat
  <2>1. IsFiniteSet(P)
      BY PassedInFinite
  <2>2. Q \subseteq DOMAIN Tail(list)
      BY DEF PassedIn
  <2> QED
      BY <1>1, <1>2, <2>1, <2>2
<1>4. \A i \in Q : i + 1 \in P
    BY <1>1, <1>2 DEF PassedIn
<1>5. h \in Injection(Q, P)
    BY <1>3, <1>4 DEF Injection, IsInjective
<1> QED
    BY <1>3, <1>5, FS_Injection

(* What push does to the passed entries of its own list. *)
LEMMA PassedInPushed ==
  ASSUME NEW f \in Filters, NEW e \in Entry, NEW v, TypeOK
  PROVE  /\ Pushed(f, e) \in Seq(Entry)
         /\ Len(Pushed(f, e)) <= conf_max_list_size[f]
         /\ Cardinality(PassedIn(Pushed(f, e), v))
              <= Cardinality(PassedIn(m_filter_list[f], v)) + 1
         /\ ~(e.value = v /\ e.passed)
              => Cardinality(PassedIn(Pushed(f, e), v))
                   <= Cardinality(PassedIn(m_filter_list[f], v))
<1> DEFINE list == m_filter_list[f]
<1>1. /\ list \in Seq(Entry) /\ Len(list) \in Nat
      /\ Len(list) <= conf_max_list_size[f]
      /\ conf_max_list_size[f] \in Nat \ {0}
  <2>1. list \in Seq(Entry) /\ Len(list) <= conf_max_list_size[f]
      BY DEF TypeOK, Entry
  <2>2. conf_max_list_size[f] \in Nat \ {0}
      BY ListSizeAssumption
  <2> QED
      BY <2>1, <2>2, LenProperties
<1>2. CASE Len(list) < conf_max_list_size[f]
  <2>1. Pushed(f, e) = Append(list, e)
      BY <1>2 DEF Pushed
  <2>2. Append(list, e) \in Seq(Entry) /\ Len(Append(list, e)) = Len(list) + 1
      BY <1>1, AppendProperties
  <2> QED
      BY <1>1, <1>2, <2>1, <2>2, PassedInAppend
<1>3. CASE ~(Len(list) < conf_max_list_size[f])
  <2>1. Pushed(f, e) = Append(Tail(list), e)
      BY <1>3 DEF Pushed
  <2>2. list # <<>>
      BY <1>1, <1>3
  <2>3. Tail(list) \in Seq(Entry) /\ Len(Tail(list)) = Len(list) - 1
      BY <1>1, <2>2, HeadTailProperties
  <2>4. Append(Tail(list), e) \in Seq(Entry)
        /\ Len(Append(Tail(list), e)) = Len(list)
      BY <1>1, <2>3, AppendProperties
  <2>5. Cardinality(PassedIn(Tail(list), v)) <= Cardinality(PassedIn(list, v))
      BY <1>1, <2>2, PassedInTail
  <2>6. /\ Cardinality(PassedIn(Append(Tail(list), e), v))
             <= Cardinality(PassedIn(Tail(list), v)) + 1
        /\ ~(e.value = v /\ e.passed)
             => Cardinality(PassedIn(Append(Tail(list), e), v))
                  <= Cardinality(PassedIn(Tail(list), v))
      BY <2>3, PassedInAppend
  <2>7. /\ Cardinality(PassedIn(list, v)) \in Nat
        /\ Cardinality(PassedIn(Tail(list), v)) \in Nat
        /\ Cardinality(PassedIn(Append(Tail(list), e), v)) \in Nat
      BY <1>1, <2>3, <2>4, PassedInFinite
  <2> QED
      BY <1>1, <2>1, <2>4, <2>5, <2>6, <2>7
<1> QED
    BY <1>2, <1>3

(* Passed is PassedIn of the filter's list, also after a step. *)
LEMMA PassedIsIn ==
  \A f, v : /\ Passed(f, v) = PassedIn(m_filter_list[f], v)
            /\ Passed(f, v)' = PassedIn(m_filter_list'[f], v)
BY DEF Passed, Entries, PassedIn

(* The sessions that are judging are finitely many, no more than all. *)
LEMMA JudgingFinite ==
  ASSUME NEW f, NEW v
  PROVE  /\ IsFiniteSet(Judging(f, v)) /\ IsFiniteSet(Judging(f, v)')
         /\ Cardinality(Judging(f, v)) \in Nat
         /\ Cardinality(Judging(f, v)') \in Nat
         /\ Cardinality(Judging(f, v)') <= Cardinality(Sessions)
         /\ Cardinality(Sessions) \in Nat
<1>1. Judging(f, v) \subseteq Sessions /\ Judging(f, v)' \subseteq Sessions
    BY DEF Judging
<1> QED
    BY <1>1, SessionsAssumption, FS_Subset, FS_CardinalityType

----------------------------------------------------------------------------

(* The filters start empty and no session judges a mail. *)
LEMMA InitInv == Init => IInv
<1> SUFFICES ASSUME Init PROVE IInv
    OBVIOUS
<1>1. TypeOK
    BY ListSizeAssumption, MaxMailsAssumption DEF Init, TypeOK
<1>2. JudgedAtFilter
    BY DEF Init, JudgedAtFilter
<1>3. ASSUME NEW f \in Filters, NEW v \in Values
      PROVE  Passed(f, v) = {} /\ Judging(f, v) = {}
    BY DEF Init, Passed, Entries, Judging
<1>4. PassedOrJudging
  <2>1. Cardinality(Sessions) \in Nat /\ Cardinality({}) = 0
      BY SessionsAssumption, FS_CardinalityType, FS_EmptySet
  <2>2. \A f \in Filters : conf_max_dup_num[f] \in Nat
      BY DupNumAssumption
  <2>3. ASSUME NEW f \in Filters, NEW v \in Values
        PROVE  Cardinality(Passed(f, v)) + Cardinality(Judging(f, v))
                 <= conf_max_dup_num[f] + Cardinality(Sessions)
    <3>1. Cardinality(Passed(f, v)) = 0 /\ Cardinality(Judging(f, v)) = 0
        BY <1>3, <2>1
    <3> QED
        BY <2>1, <2>2, <3>1
  <2> QED
      BY <2>3 DEF PassedOrJudging
<1> QED
    BY <1>1, <1>2, <1>4 DEF IInv

(* A mail that arrives is judged by nobody yet. *)
LEMMA ArriveInv ==
  ASSUME IInv, NEW s \in Sessions,
         NEW m \in [Filters -> Values \cup {NoIp}], Arrive(s, m)
  PROVE  IInv'
<1>1. TypeOK'
    BY MaxMailsAssumption DEF IInv, TypeOK, Arrive, Filters
<1>2. JudgedAtFilter'
    BY DEF IInv, TypeOK, JudgedAtFilter, Arrive, Filters
<1>3. ASSUME NEW f \in Filters, NEW v \in Values
      PROVE  Judging(f, v)' = Judging(f, v)
    BY DEF IInv, TypeOK, JudgedAtFilter, Arrive, Judging
<1>4. m_filter_list' = m_filter_list
    BY DEF Arrive
<1>5. PassedOrJudging'
    BY <1>3, <1>4, PassedIsIn DEF IInv, PassedOrJudging
<1> QED
    BY <1>1, <1>2, <1>5 DEF IInv

(* A session that is told to go on was told so by a list that keeps the    *)
(* limit: even if every session judges now, the bound holds.               *)
LEMMA JudgeInv ==
  ASSUME IInv, NEW s \in Sessions, Judge(s)
  PROVE  IInv'
<1>1. TypeOK'
    BY DEF IInv, TypeOK, Judge, WillDiscard
<1>2. JudgedAtFilter'
    BY DEF IInv, TypeOK, JudgedAtFilter, Judge
<1>3. m_filter_list' = m_filter_list
    BY DEF Judge
<1>4. ASSUME NEW f \in Filters, NEW v \in Values,
             conf_max_list_size[f] > conf_max_dup_num[f]
      PROVE  Cardinality(Passed(f, v)') + Cardinality(Judging(f, v)')
               <= conf_max_dup_num[f] + Cardinality(Sessions)
  <2> DEFINE list == m_filter_list[f]
  <2>1. /\ list \in Seq(Entry) /\ conf_max_dup_num[f] \in Nat
        /\ Passed(f, v)' = Passed(f, v) /\ Passed(f, v) = PassedIn(list, v)
      BY <1>3, PassedIsIn, DupNumAssumption DEF IInv, TypeOK, Entry
  <2>2. CASE at[s] = f /\ mail[s][f] = v /\ ~WillDiscard(f, v)
    <3>1. ~(Cardinality(Entries(list, v)) > conf_max_dup_num[f])
        BY <1>4, <2>2 DEF WillDiscard
    <3>2. /\ IsFiniteSet(DOMAIN list) /\ Entries(list, v) \subseteq DOMAIN list
          /\ Passed(f, v) \subseteq Entries(list, v)
      <4>1. DOMAIN list = 1 .. Len(list) /\ Len(list) \in Nat
          BY <2>1
      <4>2. IsFiniteSet(DOMAIN list)
          BY <4>1, FS_Interval
      <4> QED
          BY <4>2 DEF Entries, Passed
    <3>3. /\ Cardinality(Passed(f, v)) <= Cardinality(Entries(list, v))
          /\ Cardinality(Entries(list, v)) \in Nat
          /\ Cardinality(Passed(f, v)) \in Nat
        BY <3>2, FS_Subset, FS_CardinalityType
    <3> QED
        BY <2>1, <3>1, <3>3, JudgingFinite
  <2>3. CASE ~(at[s] = f /\ mail[s][f] = v /\ ~WillDiscard(f, v))
    <3>1. Judging(f, v)' = Judging(f, v)
        BY <2>3 DEF IInv, TypeOK, Judge, Judging
    <3> QED
        BY <1>4, <2>1, <3>1 DEF IInv, PassedOrJudging
  <2> QED
      BY <2>2, <2>3
<1>5. PassedOrJudging'
    BY <1>4 DEF PassedOrJudging
<1> QED
    BY <1>1, <1>2, <1>5 DEF IInv

(* A push turns a session that was told to go on into a mail that passed,  *)
(* and adds no such mail for a session that was told to discard.           *)
LEMMA PushInv ==
  ASSUME IInv, NEW s \in Sessions, Push(s)
  PROVE  IInv'
<1> DEFINE g == at[s]
           e == [value |-> mail[s][g], passed |-> ~b_discard[s]]
<1>1. g \in Filters /\ e \in Entry
    BY DEF IInv, TypeOK, JudgedAtFilter, Push, Entry
<1>2. /\ m_filter_list' = [m_filter_list EXCEPT ![g] = Pushed(g, e)]
      /\ m_filter_list'[g] = Pushed(g, e)
      /\ \A f \in Filters \ {g} : m_filter_list'[f] = m_filter_list[f]
    BY <1>1 DEF IInv, TypeOK, Push
<1>3. TypeOK'
  <2>1. /\ m_filter_list' \in [Filters -> Seq(Entry)]
        /\ \A f \in Filters : Len(m_filter_list'[f]) <= conf_max_list_size[f]
      BY <1>1, <1>2, PassedInPushed DEF IInv, TypeOK, Entry
  <2>2. /\ at' \in [Sessions -> Filters \cup {"none"}]
        /\ judged' \in [Sessions -> BOOLEAN]
        /\ UNCHANGED <<mail, b_discard, mails>>
      BY DEF IInv, TypeOK, Push, Filters
  <2> QED
      BY <2>1, <2>2 DEF IInv, TypeOK, Entry
<1>4. JudgedAtFilter'
    BY DEF IInv, TypeOK, JudgedAtFilter, Push
<1>5. ASSUME NEW f \in Filters, NEW v \in Values,
             conf_max_list_size[f] > conf_max_dup_num[f]
      PROVE  Cardinality(Passed(f, v)') + Cardinality(Judging(f, v)')
               <= conf_max_dup_num[f] + Cardinality(Sessions)
  <2> DEFINE p == Cardinality(PassedIn(m_filter_list[f], v))
             q == Cardinality(PassedIn(m_filter_list'[f], v))
  <2>1. p + Cardinality(Judging(f, v)) <= conf_max_dup_num[f] + Cardinality(Sessions)
      BY <1>5, PassedIsIn DEF IInv, PassedOrJudging
  <2>2. /\ p \in Nat /\ q \in Nat /\ conf_max_dup_num[f] \in Nat
        /\ Passed(f, v)' = PassedIn(m_filter_list'[f], v)
      BY <1>3, PassedInFinite, PassedIsIn, DupNumAssumption DEF IInv, TypeOK
  <2>3. Judging(f, v)' = Judging(f, v) \ {s}
      BY DEF IInv, TypeOK, Push, Judging
  <2>4. CASE s \in Judging(f, v)
    <3>1. q <= p + 1
        BY <1>1, <1>2, <2>4, PassedInPushed DEF IInv, Judging
    <3>2. Cardinality(Judging(f, v)') = Cardinality(Judging(f, v)) - 1
        BY <2>3, <2>4, JudgingFinite, FS_RemoveElement
    <3> QED
        BY <2>1, <2>2, <3>1, <3>2, JudgingFinite
  <2>5. CASE s \notin Judging(f, v)
    <3>1. Judging(f, v)' = Judging(f, v)
        BY <2>3, <2>5
    <3>2. f = g => ~(e.value = v /\ e.passed)
        BY <2>5 DEF Push, Judging
    <3>3. q <= p
      <4>1. CASE f = g
          BY <1>1, <1>2, <3>2, <4>1, PassedInPushed DEF IInv
      <4>2. CASE f # g
          BY <1>2, <2>2, <4>2
      <4> QED
          BY <4>1, <4>2
    <3> QED
        BY <2>1, <2>2, <3>1, <3>3, JudgingFinite
  <2> QED
      BY <2>4, <2>5
<1>6. PassedOrJudging'
    BY <1>5 DEF PassedOrJudging
<1> QED
    BY <1>3, <1>4, <1>6 DEF IInv

(* Every step keeps the inductive invariant. *)
LEMMA StepInv == IInv /\ [Next]_vars => IInv'
<1> SUFFICES ASSUME IInv, [Next]_vars PROVE IInv'
    OBVIOUS
<1>1. ASSUME NEW s \in Sessions,
             \E m \in [Filters -> Values \cup {NoIp}] :
               m["size"] # NoIp /\ Arrive(s, m)
      PROVE  IInv'
    BY <1>1, ArriveInv
<1>2. ASSUME NEW s \in Sessions, Judge(s) PROVE IInv'
    BY <1>2, JudgeInv
<1>3. ASSUME NEW s \in Sessions, Push(s) PROVE IInv'
    BY <1>3, PushInv
<1>4. ASSUME UNCHANGED vars PROVE IInv'
    BY <1>4 DEF vars, IInv, TypeOK, JudgedAtFilter, PassedOrJudging,
                Passed, Entries, Judging
<1> QED
    BY <1>1, <1>2, <1>3, <1>4 DEF Next

(* The inductive invariant implies the bound that the run checks. *)
LEMMA InvBounded == IInv => PassedBounded
<1> SUFFICES ASSUME IInv, NEW f \in Filters, NEW v \in Values,
                    conf_max_list_size[f] > conf_max_dup_num[f]
             PROVE  Cardinality(Passed(f, v))
                      <= conf_max_dup_num[f] + Cardinality(Sessions)
    BY DEF PassedBounded
<1>1. Cardinality(Passed(f, v)) + Cardinality(Judging(f, v))
        <= conf_max_dup_num[f] + Cardinality(Sessions)
    BY DEF IInv, PassedOrJudging
<1>2. Cardinality(Passed(f, v)) \in Nat /\ conf_max_dup_num[f] \in Nat
    BY PassedInFinite, PassedIsIn, DupNumAssumption DEF IInv, TypeOK
<1> QED
    BY <1>1, <1>2, JudgingFinite

(* The variables of the two filters keep their types, and neither list     *)
(* grows beyond conf_max_list_size: push makes room before it appends.     *)
THEOREM TypeCorrect == Spec => []TypeOK
<1>1. IInv => TypeOK
    BY DEF IInv
<1> QED
    BY <1>1, InitInv, StepInv, PTL DEF Spec

(* The check and the push of handle_protocol_read are two critical         *)
(* sections of the filter's mutex, so sessions can all be told to go on    *)
(* before one of them pushes: the mails of one value that a list remembers *)
(* as passed exceed conf_max_dup_num by at most one for each session.      *)
THEOREM BoundHolds == Spec => []PassedBounded
BY InvBounded, InitInv, StepInv, PTL DEF Spec
=============================================================================
