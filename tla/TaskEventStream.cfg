SPECIFICATION FairSpec
CONSTANTS
    Streams = {s1}
    MaxEvents = 6
    MaxDrops = 2
    MaxFaults = 1
CHECK_DEADLOCK FALSE
INVARIANTS
    DeliveredWithoutGap
    NoLostWakeup
PROPERTIES
    TerminalEndsStreams
