SPECIFICATION Spec
CONSTANTS
    Clients = {c1}
    Destinations = {d1}
    SubIds = {s1}
    Messages = {m1}
    Inputs = {"SUBSCRIBE", "UNSUBSCRIBE", "SEND", "DISCONNECT", "CONNECT", "INVALID", "TODO", "EMPTY_SEND", "REJECT", "END_OF_STREAM", "MISSED_HEARTBEAT", "SINK_ERROR"}
    MaxFrames = 3
    MaxHeartbeats = 1
    MaxEvents = 2
INVARIANTS
    TypeOK
    ErrorMeansClosing
    ChannelClosedWithSession
PROPERTIES
    ErrorEndsSession
    MissedHeartbeatEndsSession
CHECK_DEADLOCK FALSE
