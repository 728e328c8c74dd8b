SPECIFICATION Spec
CONSTANTS
    Events = {e1, e2}
    Handlers = {"recovery", "app"}
    MaxGroups = 2
    MaxOps = 3
    MaxSpare = 1
    MaxNext = 2
    MaxChain = 4
INVARIANTS
    RunsOnceInOrder
    PanicContained
PROPERTIES
    RoutesAsRegistered
CHECK_DEADLOCK FALSE
