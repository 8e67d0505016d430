SPECIFICATION Spec
CONSTANTS
    Targets <- MCTargets
    Usages <- MCUsages
    Statuses <- MCStatuses
    Words <- MCWords
    Protos = {"openai"}
    MaxFrames = 1
CHECK_DEADLOCK FALSE
INVARIANT InterruptionNamed
