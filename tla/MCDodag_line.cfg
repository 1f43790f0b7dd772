CONSTANTS
    r = r
    a = a
    b = b
    c = c
    NoNode = NoNode
    Node = {r, a, b, c}
    Root = r
    Nbr <- Line
    SeqMod = 8
    ShortMod = 64
    RankMod = 8
    UINT_MAX = 255
    MaxDio = 1
    MaxDao = 2
SPECIFICATION Spec
INVARIANTS RoutesDeliver SourceAddressReady GroundedInherited
PROPERTY CommitCoversLastDao
