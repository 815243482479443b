CONSTANTS
    MaxOps <- MCMaxOps
    KeyOrder <- MCKeyOrder
    GapThreshold = 1
    MaxPerRead <- MCMaxPerRead
SPECIFICATION Spec
INVARIANTS
    ModbusEndToEnd
    ClusteredReadsAgree
    TagPathsDecode
    ExplicitEndToEnd
    PCCCEndToEnd
    AddressesRoundTrip
CHECK_DEADLOCK FALSE
