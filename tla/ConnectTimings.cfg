SPECIFICATION Spec
CONSTANTS
    Routes <- AllRoutes
    Attempts = {1, 2}
    MaxClock = 6
CHECK_DEADLOCK FALSE
INVARIANTS
    SetupTimeExact SetupTimeBounded
