----------------------- MODULE MCSmtpServerProtocol ------------------------
(* Model-checking instance of SmtpServerProtocol: texts of one and two     *)
(* pieces, and none at all.                                                *)
EXTENDS SmtpServerProtocol

CONSTANTS t1, t2

FullTexts == {<<t1>>, <<t1, t2>>}
AllTexts == FullTexts \cup {<<>>}
=============================================================================
