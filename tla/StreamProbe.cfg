SPECIFICATION FairSpec
CONSTANTS
    Targets <- MCTargets
    Usages <- MCUsages
    Statuses <- MCStatuses
    Words <- MCWords
    Protos = {"openai", "openai-responses", "anthropic", "google"}
    MaxFrames = 3
CHECK_DEADLOCK FALSE
INVARIANTS
    TypeOK FailuresNamed TextExact UsageExact FailureStands
PROPERTY ProbeEnds
