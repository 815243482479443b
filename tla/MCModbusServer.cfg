CONSTANTS
    c1 = c1
    c2 = c2
    a1 = a1
    a2 = a2
    Conn = {c1, c2}
    Addr = {a1, a2}
    Injected = {c1}
    MaxClients = 1
    MaxStarts = 2
    MaxFrames = 1
SPECIFICATION FairSpec
INVARIANTS
    TrackedUnlessShared
    LimitKept
    OnlyRacedSurvive
PROPERTY
    LoopsReturn
CHECK_DEADLOCK FALSE
