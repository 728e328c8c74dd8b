SPECIFICATION Spec
CONSTANTS
    Upgrades = {u1}
    MaxAccepts = 2
    GroupCount = 2
    MaxConnections = 1
INVARIANTS
    CleanShutdownIsComplete
    LimitOvershootBounded
PROPERTIES
    ShutdownNeedsNoTimer
CHECK_DEADLOCK FALSE
