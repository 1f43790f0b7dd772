SPECIFICATION FairSpec
CONSTANTS
    Link = {1, 2, 3, 4}
    Lo = 1
    AtStart = {1, 2, 3}
    Dummy = {}
    Ipv6Off = {4}
    Matching = {2, 3}
    Chosen = 2
    Obj = {11, 12, 13, 14}
    Dirty = {4}
    RcvBuf = 1
    MaxChanges = 2
    MaxSignals = 1
    MaxFailures = 1
    MaxAdoptions = 1
INVARIANTS TypeOK KernelFollowed PollWithinArrays ParentIfIsItsLink
PROPERTY EventuallyListening
CHECK_DEADLOCK FALSE
