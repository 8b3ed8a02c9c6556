---------------------------- MODULE MCListFilter ----------------------------
(* Model-checking instance of ListFilter: the list of addresses is long    *)
(* enough for the bound on passed mails to be less than its size, and the  *)
(* other filter is off, as both are with the default options.              *)
EXTENDS ListFilter

MaxListSize == [f \in Filters |-> IF f = "ip" THEN 3 ELSE 2]
MaxDupNum == [f \in Filters |-> IF f = "ip" THEN 0 ELSE 2]
=============================================================================
