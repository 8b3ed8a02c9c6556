\* TCP cuts the end of a text in two.
CONSTANTS t1 = t1
          t2 = t2
          Senders = {a1, a2}
          Recipients = {r1, r2}
          Texts <- FullTexts
          MaxSize = 2
          MaxMails = 2
          MaxRecipients = 2
          PeerResets = TRUE
          WholeTerminator = FALSE
SPECIFICATION Spec
INVARIANTS EndDetected
CHECK_DEADLOCK FALSE
