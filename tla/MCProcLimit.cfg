\* Four callers and two slots: two holders and two refused callers at once.
CONSTANTS Callers = {c1, c2, c3, c4}
          max_proc = 2
SPECIFICATION Spec
INVARIANTS TypeOK
           CountExact
           LimitRespected
PROPERTIES ImplementsSemaphore
