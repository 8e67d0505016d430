SPECIFICATION Spec
CONSTANTS
    Probes <- SideChannelProbes
    MaxProbes = 2
    MaxResets = 1
CHECK_DEADLOCK FALSE
INVARIANT RateLimitAbsentUnreported
