SPECIFICATION Spec
CONSTANTS
    Routes <- AllRoutes
    Attempts = {1, 2}
    MaxClock = 5
CHECK_DEADLOCK FALSE
INVARIANT SetupTimeNotNegative
