CONSTANTS
    USEC = 8
    MSEC = 2
    UIntMod = 64
    Interval = 7
    MaxTimeout = 5
    MaxPackets = 3
    MaxUnplug = 1
SPECIFICATION FairSpec
INVARIANTS TypeOK Timely
PROPERTIES IntervalKept SignalHandled EventsFire
CHECK_DEADLOCK FALSE
