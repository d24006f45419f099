SPECIFICATION TimedFairSpec
CONSTANTS
    Clients = {c1}
    Destinations = {d1}
    SubIds = {s1}
    Messages = {m1}
    Inputs = {"HEARTBEAT", "MISSED_HEARTBEAT", "END_OF_STREAM"}
    MaxFrames = 0
    MaxHeartbeats = 1
    MaxEvents = 1
    Timers <- MCTimers
    Periods = {0, 1}
    MaxBacklog = 1
    Expected = {1}
    Supplied = {1}
    Word = 4096
    Prompt = FALSE
    MaxCommands = 1
INVARIANTS
    ServerResetSucceeds
PROPERTIES
    SilenceEndsSession
    ListenerEnds
CHECK_DEADLOCK FALSE
