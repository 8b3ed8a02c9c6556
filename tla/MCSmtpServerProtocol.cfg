\* Two mails in a session whose peer sends RSET between them.
CONSTANTS t1 = t1
          t2 = t2
          Senders = {a1, a2}
          Recipients = {r1, r2}
          Texts <- FullTexts
          MaxSize = 2
          MaxMails = 2
          MaxRecipients = 2
          PeerResets = TRUE
          WholeTerminator = TRUE
SPECIFICATION Spec
INVARIANTS TypeOK
           HandedAsSent
           EndDetected
PROPERTIES SizeDecides
CHECK_DEADLOCK FALSE
