SPECIFICATION Spec
CONSTANTS
    Probes <- MCProbes
    MaxProbes = 3
    MaxResets = 1
CHECK_DEADLOCK FALSE
INVARIANTS
    GaugesLatest CountersExact ErrorsWithinDurations SideChannelLatest
