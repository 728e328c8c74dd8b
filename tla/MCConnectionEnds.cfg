SPECIFICATION Spec
CONSTANTS
    Kinds = {"tcp", "websocket"}
    PeerInputs = {"frames", "bad", "ping", "peer"}
    HookPanics = {}
    Senders = {s1}
    WriteBuffer = 1
    MaxLateReads = 1
PROPERTIES
    CloseCompletes
    ShutdownCompletes
CHECK_DEADLOCK FALSE
