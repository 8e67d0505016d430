SPECIFICATION FairSpec
CONSTANTS
    c1 = c1
    t1 = t1
    t2 = t2
    Clients = {c1}
    Timers = {t1, t2}
    Bad = {1}
    MaxVersions = 2
    MaxSignals = 3
CHECK_DEADLOCK FALSE
INVARIANTS
    ServesLastLoaded
PROPERTIES
    HupHonoured ChangeNoticed ShutdownExits
