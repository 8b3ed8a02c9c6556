----------------------------- MODULE ListFilter -----------------------------
(***************************************************************************)
(* ip_list_filter and data_size_list_filter as handle_protocol_read uses   *)
(* them: a mail that repeats the address or the size of too many recent    *)
(* mails is discarded.  The two classes differ in the type of their values *)
(* only.  Every session asks is_will_discard and then calls push; each     *)
(* call holds the filter's mutex, the pair does not.                       *)
(***************************************************************************)
EXTENDS Naturals, FiniteSets, Sequences, SequencesExt

CONSTANTS Sessions,
          Values,               \* addresses and sizes; NoIp is no address
          NoIp,
          conf_max_list_size,   \* of each filter
          conf_max_dup_num,     \* of each filter
          MaxMails              \* bound: mails judged

Filters == {"ip", "size"}

ASSUME SessionsAssumption == IsFiniteSet(Sessions)
ASSUME ListSizeAssumption == conf_max_list_size \in [Filters -> Nat \ {0}]
ASSUME DupNumAssumption == conf_max_dup_num \in [Filters -> Nat]
ASSUME MaxMailsAssumption == MaxMails \in Nat

VARIABLES
  m_filter_list,   \* of each filter; passed is the verdict on that mail
  at,              \* the filter each session is at, or "none"
  judged,          \* is_will_discard has answered, push is to come
  mail,            \* the address and the size each session looks at
  b_discard,
  mails            \* mails so far

vars == <<m_filter_list, at, judged, mail, b_discard, mails>>

Init == /\ m_filter_list = [f \in Filters |-> <<>>]
        /\ at = [s \in Sessions |-> "none"]
        /\ judged = [s \in Sessions |-> FALSE]
        /\ mail \in [Sessions -> [Filters -> {NoIp}]]
        /\ b_discard = [s \in Sessions |-> FALSE]
        /\ mails = 0

----------------------------------------------------------------------------

(* The entries of a list with a value. *)
Entries(list, v) == {i \in DOMAIN list : list[i].value = v}

(* Mutant: one duplicate too many is let through. *)
WillDiscardLate(f, v) ==
  /\ conf_max_list_size[f] > conf_max_dup_num[f]
  /\ Cardinality(Entries(m_filter_list[f], v)) > conf_max_dup_num[f] + 1

(* is_will_discard; a filter whose list is no longer than the duplicates   *)
(* it allows is off.                                                       *)
WillDiscard(f, v) ==
  /\ conf_max_list_size[f] > conf_max_dup_num[f]
  /\ Cardinality(Entries(m_filter_list[f], v)) > conf_max_dup_num[f]

(* Mutant: the list grows one entry beyond its size. *)
PushedOffByOne(f, entry) ==
  IF Len(m_filter_list[f]) <= conf_max_list_size[f]
  THEN Append(m_filter_list[f], entry)
  ELSE Append(Tail(m_filter_list[f]), entry)

(* push: the oldest entry makes room. *)
Pushed(f, entry) ==
  IF Len(m_filter_list[f]) < conf_max_list_size[f]
  THEN Append(m_filter_list[f], entry)
  ELSE Append(Tail(m_filter_list[f]), entry)

(* A complete mail; without an address the first filter is left out. *)
Arrive(s, m) ==
  /\ at[s] = "none"
  /\ mails < MaxMails
  /\ mails' = mails + 1
  /\ mail' = [mail EXCEPT ![s] = m]
  /\ at' = [at EXCEPT ![s] = IF m["ip"] = NoIp THEN "size" ELSE "ip"]
  /\ UNCHANGED <<m_filter_list, judged, b_discard>>

Judge(s) ==
  /\ at[s] # "none"
  /\ ~judged[s]
  /\ judged' = [judged EXCEPT ![s] = TRUE]
  /\ b_discard' = [b_discard EXCEPT ![s] = WillDiscard(at[s], mail[s][at[s]])]
  /\ UNCHANGED <<m_filter_list, at, mail, mails>>

(* A discarded mail is pushed as well; it does not reach the next filter. *)
Push(s) ==
  /\ judged[s]
  /\ judged' = [judged EXCEPT ![s] = FALSE]
  /\ m_filter_list' = [m_filter_list EXCEPT ![at[s]] =
       Pushed(at[s], [value |-> mail[s][at[s]], passed |-> ~b_discard[s]])]
  /\ at' = [at EXCEPT ![s] = IF b_discard[s] \/ @ = "size" THEN "none" ELSE "size"]
  /\ UNCHANGED <<mail, b_discard, mails>>

Next == \E s \in Sessions :
          \/ \E m \in [Filters -> Values \cup {NoIp}] :
               m["size"] # NoIp /\ Arrive(s, m)
          \/ Judge(s)
          \/ Push(s)

Spec == Init /\ [][Next]_vars

----------------------------------------------------------------------------

TypeOK ==
  /\ m_filter_list \in
       [Filters -> Seq([value : Values \cup {NoIp}, passed : BOOLEAN])]
  /\ at \in [Sessions -> Filters \cup {"none"}]
  /\ judged \in [Sessions -> BOOLEAN]
  /\ mail \in [Sessions -> [Filters -> Values \cup {NoIp}]]
  /\ b_discard \in [Sessions -> BOOLEAN]
  /\ \A f \in Filters : Len(m_filter_list[f]) <= conf_max_list_size[f]
  /\ mails \in 0 .. MaxMails

Passed(f, v) == {i \in Entries(m_filter_list[f], v) : m_filter_list[f][i].passed}

(* Sessions that ask before either has pushed let a few mails too many     *)
(* through, but never more than one each: among the mails that a list      *)
(* remembers, at most conf_max_dup_num and one per session passed with the *)
(* same value.                                                             *)
PassedBounded ==
  \A f \in Filters, v \in Values :
    conf_max_list_size[f] > conf_max_dup_num[f]
      => Cardinality(Passed(f, v)) <= conf_max_dup_num[f] + Cardinality(Sessions)
=============================================================================
