SPECIFICATION Spec
CONSTANTS
    c1 = c1
    t1 = t1
    t2 = t2
    Clients = {c1}
    Timers = {t1, t2}
    Bad = {1}
    MaxVersions = 1
    MaxSignals = 3
CHECK_DEADLOCK FALSE
INVARIANT RequestsFinished
