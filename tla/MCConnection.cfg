SPECIFICATION Spec
CONSTANTS
    Kinds = {"tcp", "websocket"}
    PeerInputs = {"frames", "bad", "ping", "eof", "silence"}
    HookPanics = {"open", "close"}
    Senders = {s1}
    WriteBuffer = 1
    MaxLateReads = 1
INVARIANTS
    NoSelfInflictedReport
    HooksOrdered
    WebSocketReportsTheClose
PROPERTIES
    StateMonotone
    NothingAfterDone
    DrainSparedByHeartbeat
CHECK_DEADLOCK FALSE
