SPECIFICATION TimedSpec
CONSTANTS
    Clients = {c1}
    Destinations = {d1}
    SubIds = {s1}
    Messages = {m1}
    Inputs = {"SEND", "UNSUBSCRIBE", "INVALID", "TODO", "REJECT", "HEARTBEAT", "MISSED_HEARTBEAT", "END_OF_STREAM", "SINK_ERROR"}
    MaxFrames = 2
    MaxHeartbeats = 3
    MaxEvents = 1
    Timers <- MCTimers
    Periods = {0, 2, 6}
    MaxBacklog = 1
    Expected = {0, 2}
    Supplied = {0, 5}
    Word = 4096
    Prompt = TRUE
    MaxCommands = 2
INVARIANTS
    ServerKeepsPromise
    PunctualClientIsKept
    SilentClientIsDropped
    ListenerLeavesNoTask
CHECK_DEADLOCK FALSE
