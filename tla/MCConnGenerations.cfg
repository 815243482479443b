CONSTANTS
    s1 = s1
    s2 = s2
    Sender = {s1}
    NIds = 2
    MaxIDAttempts = 2
    MaxTx = 2
    MaxGen = 2
    MaxPool = 2
    WriteChanCap = 1
    SlowFrames = FALSE
SPECIFICATION Spec
INVARIANTS
    NoOrphan
    TeardownComplete
    OnlyOwnFaults
CHECK_DEADLOCK FALSE
