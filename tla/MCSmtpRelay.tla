---------------------------- MODULE MCSmtpRelay ----------------------------
(* Model-checking instance of SmtpRelay. *)
EXTENDS SmtpRelay
=============================================================================
