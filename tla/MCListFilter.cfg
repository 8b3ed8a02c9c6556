\* Two sessions, two values, five mails.
CONSTANTS Sessions = {s1, s2}
          Values = {v1, v2}
          NoIp = NoIp
          conf_max_list_size <- MaxListSize
          conf_max_dup_num <- MaxDupNum
          MaxMails = 5
SPECIFICATION Spec
INVARIANTS TypeOK
           PassedBounded
CHECK_DEADLOCK FALSE
