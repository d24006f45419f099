SPECIFICATION Spec
CONSTANTS
    Clients = {c1}
    Destinations = {d1, d2}
    SubIds = {s1, s2}
    Messages = {m1}
    Inputs = {"SUBSCRIBE", "UNSUBSCRIBE", "SEND", "DISCONNECT"}
    MaxFrames = 4
    MaxHeartbeats = 0
    Careful = FALSE
    Closable = {d1, d2}
SYMMETRY Relabelling
INVARIANTS
    IInv
PROPERTIES
    SubscriberIsHeard
    ImplementsOpenDestination
CHECK_DEADLOCK FALSE
