CONSTANTS
    t1 = t1
    t2 = t2
    m = m
    o1 = o1
    Mine = m
    MaxClients = 1
    Thread = {t1, t2}
    Tasks <- MCTasks
    Other = {o1}
    Retries = 1
    Tags = 1
SPECIFICATION FairSpec
INVARIANTS
    RepliesMatched
    BitsLostOnlyByOverlap
    LimitExceededOnlyEarly
    TagsCompleteIfSessionLasted
PROPERTIES
    ImplementsSlot
    StopDrains
CHECK_DEADLOCK FALSE
