----------------------------- MODULE MCScanner -----------------------------
(* Model-checking instance of Scanner. *)
EXTENDS Scanner
=============================================================================
