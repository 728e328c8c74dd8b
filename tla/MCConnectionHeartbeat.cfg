SPECIFICATION Spec
CONSTANTS
    Kinds = {"tcp"}
    PeerInputs = {"frames", "silence"}
    HookPanics = {}
    Senders = {}
    WriteBuffer = 1
    MaxLateReads = 1
INVARIANTS
    HeartbeatReported
CHECK_DEADLOCK FALSE
