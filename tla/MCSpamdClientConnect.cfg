\* The operating system never gives up a connection attempt.
CONSTANTS Clients = {c1}
          Oversize = {}
          conf_spamd_max_session = 1
          m_timeouts = 1
          MaxElapsed = 2
          MaxReports = 1
SPECIFICATION Spec
PROPERTIES ConnectTimesOut
CHECK_DEADLOCK FALSE
