SPECIFICATION Spec
CONSTANTS
    Probes <- OutcomeProbes
    MaxProbes = 3
    MaxResets = 1
CHECK_DEADLOCK FALSE
INVARIANT TokensOfLastProbe
