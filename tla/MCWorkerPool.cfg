SPECIFICATION Spec
CONSTANTS
    Connections <- MCConnections
    WorkerCount = 2
    QueueCapacity = 1
    MaxRequests = 2
    Drainers = {d1, d2}
INVARIANTS
    TypeOK
    NoSendOnClosedChannel
    GaugeExact
    RegistryExact
    DrainReturnsClean
    ForceCancelReachesAll
PROPERTIES
    NeverReopens
    Dispatch
    DrainTerminates
CHECK_DEADLOCK FALSE
