\* Two mails compete for one slot beside an oversize one; spamd may stall at any point.
CONSTANTS Clients = {c1, c2, c3}
          Oversize = {c3}
          conf_spamd_max_session = 1
          m_timeouts = 1
          MaxElapsed = 2
          MaxReports = 1
SPECIFICATION LiveSpec
INVARIANTS TypeOK
           SlotsExact
           SpamdParallel
           OneContinuation
           RelayedOnce
PROPERTIES NoReopen
           ImplementsScanJob
           EveryClientEnds
CHECK_DEADLOCK FALSE
