SPECIFICATION FairSpec
CONSTANTS
    c1 = c1
    t1 = t1
    t2 = t2
    Clients = {c1}
    Timers = {t1, t2}
    Bad = {}
    MaxVersions = 1
    MaxSignals = 0
CHECK_DEADLOCK FALSE
PROPERTY EveryChangeNoticed
