SPECIFICATION Spec
CONSTANTS
    Clients = {c1, c2}
    Destinations = {d1}
    SubIds = {s1}
    Messages = {m1}
    Inputs = {"SUBSCRIBE", "UNSUBSCRIBE", "SEND", "DISCONNECT"}
    MaxFrames = 4
    MaxHeartbeats = 0
    Careful = TRUE
    Closable = {}
INVARIANTS
    CallbackHasClientId
CHECK_DEADLOCK FALSE
