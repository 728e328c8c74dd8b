SPECIFICATION Spec
CONSTANTS
    Transports = {"tcp", "websocket"}
    Callers = {c1, c2}
    Calls <- MCCalls
    FieldOrder <- MCFieldOrder
    Ages <- MCAges
    MaxInt64 = 2
    MaxCalls = 3
    MaxScrapes = 2
SYMMETRY CallerSymmetry
INVARIANTS
    CountersExact
PROPERTIES
    ExportedCountersMonotone
CHECK_DEADLOCK FALSE
