CONSTANTS
    r1 = r1
    r2 = r2
    Reader = {r1, r2}
    Point <- MCPoint
    KeyOrder <- MCKeyOrder
    MaxPerRead <- MCMaxPerRead
    AddrSpace = 8
    GapThreshold = 1
    Enabled = TRUE
    Caching = TRUE
    MaxPoints = 2
    MaxReq = 2
    MaxGen = 2
SPECIFICATION FairSpec
INVARIANTS
    WrongOnlyFromForeignCache
PROPERTIES
    ReadsReturn
CHECK_DEADLOCK FALSE
