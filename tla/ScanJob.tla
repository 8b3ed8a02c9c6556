------------------------------ MODULE ScanJob ------------------------------
(***************************************************************************)
(* What the scanner promises about each mail handed to it: a small mail    *)
(* waits for one of Max slots, is scanned, and leaves the slot with at     *)
(* most one copy relayed, the scanned one; a mail too large to scan is     *)
(* relayed as it came, at once and without a slot.  A scan may fail, and   *)
(* the mail is lost then.                                                  *)
(***************************************************************************)
EXTENDS Naturals, FiniteSets

CONSTANTS Jobs,      \* the mails
          Large,     \* those too large to scan
          Max        \* number of slots

VARIABLES state,     \* "new", "waiting", "scanning" or "finished"
          copies     \* the bodies relayed for each mail

Scanning == {j \in Jobs : state[j] = "scanning"}

Init == /\ state = [j \in Jobs |-> "new"]
        /\ copies = [j \in Jobs |-> {}]

Goto(j, from, to) == /\ state[j] = from
                     /\ state' = [state EXCEPT ![j] = to]

Bypass(j) == /\ j \in Large
             /\ Goto(j, "new", "finished")
             /\ copies' = [copies EXCEPT ![j] = {"raw"}]

Wait(j) == /\ j \notin Large
           /\ Cardinality(Scanning) = Max
           /\ Goto(j, "new", "waiting")
           /\ UNCHANGED copies

Start(j) == /\ j \notin Large
            /\ Cardinality(Scanning) < Max
            /\ Goto(j, "new", "scanning") \/ Goto(j, "waiting", "scanning")
            /\ UNCHANGED copies

Finish(j) == /\ Goto(j, "scanning", "finished")
             /\ \/ copies' = [copies EXCEPT ![j] = {"scanned"}]
                \/ UNCHANGED copies

(* A reply that had already arrived when the scan was given up. *)
RelayLate(j) == /\ state[j] = "finished"
                /\ j \notin Large
                /\ copies[j] = {}
                /\ copies' = [copies EXCEPT ![j] = {"scanned"}]
                /\ UNCHANGED state

Next == \E j \in Jobs :
          Bypass(j) \/ Wait(j) \/ Start(j) \/ Finish(j) \/ RelayLate(j)

Spec == Init /\ [][Next]_<<state, copies>>
=============================================================================
