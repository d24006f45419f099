SPECIFICATION Spec
CONSTANTS
    Clients = {c1, c2}
    Destinations = {d1}
    SubIds = {s1, s2}
    Messages = {m1}
    Inputs = {"SUBSCRIBE", "UNSUBSCRIBE", "SEND", "DISCONNECT"}
    MaxFrames = 3
    MaxHeartbeats = 0
    Careful = TRUE
    Closable = {}
SYMMETRY Relabelling
INVARIANTS
    TableMatchesBackend
    NoOrphans
CHECK_DEADLOCK FALSE
