SPECIFICATION FairSpec
CONSTANTS
    Clients = {c1, c2}
    Destinations = {d1}
    SubIds = {s1}
    Messages = {m1}
    Inputs = {"SUBSCRIBE", "UNSUBSCRIBE", "SEND", "DISCONNECT"}
    MaxFrames = 2
    MaxHeartbeats = 0
    Careful = FALSE
    Closable = {d1}
PROPERTIES
    SubscribeTakesEffect
    UnsubscribeTakesEffect
    ImplementsOpenSession
CHECK_DEADLOCK FALSE
