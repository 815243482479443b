CONSTANTS
    s1 = s1
    s2 = s2
    Sender = {s1}
    NIds = 1
    MaxIDAttempts = 1
    MaxTx = 2
    MaxGen = 1
    MaxPool = 1
    WriteChanCap = 1
    SlowFrames = TRUE
SPECIFICATION FairSpec
PROPERTIES
    AwaitEnds
    LoopsExit
CHECK_DEADLOCK FALSE
