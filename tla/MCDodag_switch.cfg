CONSTANTS
    r = r
    a = a
    b = b
    c = c
    NoNode = NoNode
    Node = {r, a, b}
    Root = r
    Nbr <- Mesh
    SeqMod = 8
    ShortMod = 64
    RankMod = 8
    UINT_MAX = 255
    MaxDio = 2
    MaxDao = 1
SPECIFICATION FairSpec
INVARIANTS TypeOK BestParentsLoopFree RankAtMostNodes ParentHasRoute
PROPERTIES RankNeverRises ImplementsAbs EventuallyCommitted
