\* One session with three mails and an oversize one, one slot: a mail waits for
\* the clients of the ones before it.
CONSTANTS NoMail = NoMail
          conf_spamd_max_session = 1
          conf_session_timeout = 1
          Sessions = {s1}
          Mails = {m1, m2, m3, m4}
          Oversize = {m3}
SPECIFICATION Spec
INVARIANTS TypeOK
           OneDialogue
           PeerHeldBack
PROPERTIES NothingStalls
           QuitCloses
           ClosedQuiets
CHECK_DEADLOCK FALSE
