SPECIFICATION FairSpec
CONSTANTS
    Link = {1, 2, 3}
    Lo = 1
    AtStart = {1, 2}
    Dummy = {}
    Ipv6Off = {}
    Matching = {2, 3}
    Chosen = 0
    Obj = {11, 12, 13}
    Dirty = {}
    RcvBuf = 2
    MaxChanges = 1
    MaxSignals = 0
    MaxFailures = 0
    MaxAdoptions = 0
PROPERTY LinksEnabled
CHECK_DEADLOCK FALSE
