\* A request ends.
SPECIFICATION Spec
CONSTANTS
    Requests = {r1, r2}
    Documents <- MCDocuments
    Answers <- MCAnswers
CHECK_DEADLOCK FALSE
INVARIANT PatternHonoured
