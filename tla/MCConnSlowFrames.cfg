CONSTANTS
    s1 = s1
    s2 = s2
    Sender = {s1, s2}
    NIds = 2
    MaxIDAttempts = 2
    MaxTx = 2
    MaxGen = 1
    MaxPool = 1
    WriteChanCap = 1
    SlowFrames = TRUE
SPECIFICATION Spec
INVARIANT
    Correlated
CHECK_DEADLOCK FALSE
