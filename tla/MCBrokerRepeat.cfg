SPECIFICATION Spec
CONSTANTS
    Clients = {c1, c2}
    Destinations = {d1}
    SubIds = {s1}
    Messages = {m1}
    Inputs = {"SUBSCRIBE", "UNSUBSCRIBE"}
    MaxFrames = 3
    MaxHeartbeats = 0
    Careful = FALSE
    Closable = {}
INVARIANTS
    CallbackHasClientId
CHECK_DEADLOCK FALSE
