---------------------------- MODULE MCProcLimit ----------------------------
(* Model-checking instance of ProcLimit. *)
EXTENDS ProcLimit
=============================================================================
