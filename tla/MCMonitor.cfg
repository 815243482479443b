CONSTANTS
    w1 = w1
    MaxSubs = 2
    Watcher = {w1}
    Buffer = 1
    Gated = TRUE
SPECIFICATION FairSpec
INVARIANTS
    NoSendOnClosed
    StopIsFinal
    CloseIsFinal
PROPERTIES
    StopReturns
    CloseReturns
CHECK_DEADLOCK FALSE
