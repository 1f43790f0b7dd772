CONSTANTS
    Addr = {0, 1, 2}
    MaskBits = {127, 128}
    NoKey = NoKey
    MaxEntries = 4
SPECIFICATION Spec
INVARIANT CanBeIterated
