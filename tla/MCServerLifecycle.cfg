SPECIFICATION Spec
CONSTANTS
    Transports = {tcp, websocket}
    Runners = {r1, r2}
    Stoppers = {s1, s2}
    MaxChanges = 1
INVARIANTS
    ShutdownIsFinal
    StoppedReleasesAll
    RuntimeErrorSurfaces
    RunningConfigFrozen
PROPERTIES
    LifecycleSteps
    StopCompletes
    ShutdownReturnsToAll
CHECK_DEADLOCK FALSE
