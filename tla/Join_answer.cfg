SPECIFICATION FairSpec
CONSTANTS
    p1 = p1
    p2 = p2
    Pledge = {p1, p2}
    Me = me
    Garbage = {0}
    MaxQueries = 3
    MaxSolicit = 1
    MaxWait = 1
    MaxRead = 2
    MayClose = TRUE
INVARIANTS TypeOK AnswerIsToLastQuery RepliesArePolled
PROPERTIES JoinAnswered
CHECK_DEADLOCK FALSE
