CONSTANTS
    r = r
    a = a
    b = b
    c = c
    NoNode = NoNode
    Node = {r, a}
    Root = r
    Nbr <- Mesh
    SeqMod = 4
    ShortMod = 16
    RankMod = 8
    UINT_MAX = 255
    MaxDio = 1
    MaxDao = 3
SPECIFICATION Spec
INVARIANT EchoAccepted
