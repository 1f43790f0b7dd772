SPECIFICATION FairSpec
CONSTANTS
    If = {1, 2}
    Peer = {11}
    Node = {1, 2, 11}
    NoNode = 0
    Inst = {1, 2}
    DagId = {"a"}
    Given = {"I", "p", "R", "G", "P", "l", "6", "n", "h", "i"}
    Dtsn = {0, 3}
    SeqMod = 4
    ShortMod = 16
    RankMod = 4
    UINT_MAX = 7
    MaxOptions = 3
    MaxPackets = 3
    MaxDao = 2
    MaxDio = 2
INVARIANTS TypeOK WatchersApart
PROPERTIES NeverOwnParent RootAnnounces
CHECK_DEADLOCK FALSE
