SPECIFICATION Spec
CONSTANTS
    Base = 2
    Options <- MCOptions
    MaxStream = 10
    MaxInput = 4
INVARIANTS
    StreamDecoding
    ResidueBounded
    AcceptsExactlyFeasible
PROPERTIES
    EveryFrameTakesBytes
CHECK_DEADLOCK FALSE
