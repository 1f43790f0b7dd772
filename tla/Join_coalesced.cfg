SPECIFICATION FairSpec
CONSTANTS
    p1 = p1
    p2 = p2
    Pledge = {p1, p2}
    Me = me
    Garbage = {0}
    MaxQueries = 3
    MaxSolicit = 1
    MaxWait = 0
    MaxRead = 2
    MayClose = FALSE
PROPERTIES ReplySendsValue
CHECK_DEADLOCK FALSE
