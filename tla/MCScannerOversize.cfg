\* One session that hands in an oversize mail.
CONSTANTS NoMail = NoMail
          conf_spamd_max_session = 1
          conf_session_timeout = 1
          Sessions = {s1}
          Mails = {m3}
          Oversize = {m3}
SPECIFICATION Spec
PROPERTIES OversizeAnswered
CHECK_DEADLOCK FALSE
