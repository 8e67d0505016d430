\* A request ends.
SPECIFICATION FairSpec
CONSTANTS
    Requests = {r1, r2}
    Documents <- MCDocuments
    Answers <- MCAnswers
CHECK_DEADLOCK FALSE
INVARIANTS OneConfigPerRequest AnswerIsOwn
PROPERTIES StallEnds HangUpEnds
