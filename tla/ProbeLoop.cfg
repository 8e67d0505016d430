\* A load ends, and so does a loop at the bound.
SPECIFICATION Spec
CONSTANTS
    Documents <- MCDocuments
    MaxProbes = 12
CHECK_DEADLOCK FALSE
INVARIANTS
    LoadsExactly Runnable BackoffExact
PROPERTIES
    EveryNthIsFull PromptsRotate
