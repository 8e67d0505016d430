SPECIFICATION Spec
CONSTANTS
    a = a
    b = b
    old = old
    new = new
    quiet = quiet
    l1 = l1
    l2 = l2
    r1 = r1
    r2 = r2
    Names = {a}
    Configs = {old, new, quiet}
    LabelSets = {l1, l2}
    Reloaders = {r1}
    TargetsOf <- MCTargetsOf
    LabelOf <- MCLabelOf
    Threshold <- MCThreshold
    MaxGens = 3
    MaxProbes = 5
INVARIANTS
    OneGeneration ViewsAgree CountsAgree AlertsExact PostsConsistent
