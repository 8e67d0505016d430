SPECIFICATION FairSpec
CONSTANTS
    a = a
    b = b
    old = old
    new = new
    quiet = quiet
    l1 = l1
    l2 = l2
    r1 = r1
    r2 = r2
    Names = {a}
    Configs = {old}
    LabelSets = {l1, l2}
    Reloaders = {r1, r2}
    TargetsOf <- MCTargetsOf
    LabelOf <- MCLabelOf
    Threshold <- MCThreshold
    MaxGens = 4
    MaxProbes = 1
PROPERTY LoneStopEnds
