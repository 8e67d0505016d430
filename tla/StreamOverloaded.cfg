SPECIFICATION Spec
CONSTANTS
    Targets <- MCTargets
    Usages <- MCUsages
    Statuses <- MCStatuses
    Words <- MCWords
    Protos = {"anthropic"}
    MaxFrames = 2
CHECK_DEADLOCK FALSE
INVARIANT OverloadNamed
