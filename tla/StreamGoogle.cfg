SPECIFICATION Spec
CONSTANTS
    Targets <- MCTargets
    Usages <- MCUsages
    Statuses <- MCStatuses
    Words <- MCWords
    Protos = {"google"}
    MaxFrames = 2
CHECK_DEADLOCK FALSE
INVARIANT ValidationHonest
