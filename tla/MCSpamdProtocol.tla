-------------------------- MODULE MCSpamdProtocol --------------------------
EXTENDS SpamdProtocol

(* Mails with blank lines and end flags of their own, and every short one. *)
MCMails ==
  UNION {[1..n -> {CR, LF, 97}] : n \in 0..2}
    \cup {<<97, CR, LF, CR, LF, 97>>, <<LF, CR, LF, 97, LF, CR, LF>>,
          <<CR, LF, CR, LF, LF, CR, LF, CR, LF>>, <<SPAMD, CR, LF, CONTENT_LENGTH, BLANK, ZERO, CR, LF>>}
MCMarks == {<<>>, <<OTHER_WORD, CR, LF, CR, LF>>}
MCGarbage == {-1, 0, 3, 6}
=============================================================================
