--------------------------- MODULE MCSpamdClient ---------------------------
(* Model-checking instance of SpamdClient. *)
EXTENDS SpamdClient
=============================================================================
