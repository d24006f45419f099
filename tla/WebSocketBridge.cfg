SPECIFICATION BridgeSpec
CONSTANTS
    Clients = {c1}
    Destinations = {d1}
    SubIds = {s1}
    Messages = {m1, m2}
    Utf8 = {m1}
    Inputs = {"SEND", "INVALID", "UNSUBSCRIBE", "DISCONNECT", "TODO", "REJECT", "END_OF_STREAM", "MISSED_HEARTBEAT", "SINK_ERROR"}
    MaxFrames = 2
    MaxHeartbeats = 1
    MaxEvents = 1
    MaxPings = 1
INVARIANTS
    BridgeTypeOK
    FramesAreDelivered
PROPERTIES
    PingIsAnswered
    ConnectionEnds
CHECK_DEADLOCK FALSE
