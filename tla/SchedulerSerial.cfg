SPECIFICATION FairSpec
CONSTANTS
    a = a
    b = b
    old = old
    new = new
    quiet = quiet
    l1 = l1
    l2 = l2
    r1 = r1
    r2 = r2
    Names = {a, b}
    Configs = {old, new}
    LabelSets = {l1, l2}
    Reloaders = {r1}
    TargetsOf <- MCTargetsOf
    LabelOf <- MCLabelOf
    Threshold <- MCThreshold
    MaxGens = 2
    MaxProbes = 2
INVARIANTS
    TypeOK ReloadIsExclusive NoStaleTargets
    SettledAgrees
PROPERTIES
    ServesOneConfig ReloadReturns EveryTargetProbed ShutdownDrains
