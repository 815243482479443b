CONSTANTS
    s1 = s1
    s2 = s2
    g1 = g1
    g2 = g2
    g3 = g3
    Scanner = {s1, s2}
    App = {g1, g2, g3}
    Of <- MCOf
    Calls <- MCCalls
    Faulty = {s1}
    OriginatorSN <- MCOriginatorSN
    MaxOpens = 2
SPECIFICATION Spec
INVARIANTS
    ProducersTrackConnections
    ConsumerLostOnlyIfShared
    InputFromOwnConnection
    ShutdownClosesTable
PROPERTY
    CrossTalkOnlyAcrossScanners
CHECK_DEADLOCK FALSE
