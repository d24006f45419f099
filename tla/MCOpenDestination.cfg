SPECIFICATION Spec
CONSTANTS
    Clients = {c1, c2}
    Destinations = {d1}
    SubIds = {s1}
    Messages = {m1, m2}
    MaxCalls = 5
SYMMETRY Symmetry
INVARIANTS
    TypeOK
    LogInv
    SubscriptionFollowsLog
PROPERTIES
    LostOnlyForCause
    ImplementsTopics
CHECK_DEADLOCK FALSE
