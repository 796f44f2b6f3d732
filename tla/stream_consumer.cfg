SPECIFICATION FairSpec
CONSTANTS
    Length = 3
    Offsets = {"first", "continue", "last", "next", "number", "promoted"}
    Number = 2
    Prefetch = 2
    Buffer = 1
    Jobs = {j1, j2}
    MaxDispatches = 3
    MaxSubs = 2
    Word = 8
    MayReconnect = TRUE
INVARIANTS LatchExact
PROPERTIES ImplementsWindow HandlerEnds
CHECK_DEADLOCK FALSE
