\* A mail with or without a recipient; replies and commands may be cut anywhere.
CONSTANTS m_timeouts = 2
          ASYNC_CLIENT_DEFAULT_TIMEOUT_SEC = 1
          MaxElapsed = 3
          MaxRecipients = 1
SPECIFICATION Spec
INVARIANTS TypeOK
           OneContinuation
           TextReadAsText
           QuitOnlyWhenTaken
           SmoothDelivered
PROPERTIES RelayEnds
CHECK_DEADLOCK FALSE
