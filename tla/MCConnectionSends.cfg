SPECIFICATION Spec
CONSTANTS
    Kinds = {"tcp"}
    PeerInputs = {"peer"}
    HookPanics = {}
    Senders = {s1, s2}
    WriteBuffer = 1
    MaxLateReads = 1
INVARIANTS
    GracefulDrainWritesAll
PROPERTIES
    BlockedSendReleased
CHECK_DEADLOCK FALSE
