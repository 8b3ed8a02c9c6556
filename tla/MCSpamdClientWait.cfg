\* One mail waits while another one holds the only slot.
CONSTANTS Clients = {c1, c2}
          Oversize = {}
          conf_spamd_max_session = 1
          m_timeouts = 1
          MaxElapsed = 2
          MaxReports = 1
SPECIFICATION SafetySpec
PROPERTIES LongWaitDiscarded
CHECK_DEADLOCK FALSE
