\* A process ends.
SPECIFICATION ComposedFairSpec
CONSTANTS
    a = a
    t1 = t1
    t2 = t2
    c1 = c1
    Names = {a}
    Configs <- MCConfigs
    LabelSets <- MCConfigs
    Reloaders <- MCReloaders
    TargetsOf <- MCTargetsOf
    LabelOf <- MCLabelOf
    Threshold <- MCThreshold
    MaxGens = 3
    MaxProbes = 1
    Clients = {c1}
    Timers = {t1, t2}
    Bad = {1}
    MaxVersions = 2
    MaxSignals = 1
CHECK_DEADLOCK FALSE
PROPERTIES ImplementsProcess ChangeServed
