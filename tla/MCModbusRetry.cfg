CONSTANTS
    c1 = c1
    c2 = c2
    Caller = {c1, c2}
    MaxDial = 3
    Protocol = "modbus"
    Retries = 1
    MaxOps = 1
SPECIFICATION ClientSpec
INVARIANTS
    OneLiveSession
    AttemptsAreDistinctFaults
PROPERTIES
    HealthySessionsKept
    ImplementsSlot
    OperationsReturn
CHECK_DEADLOCK FALSE
