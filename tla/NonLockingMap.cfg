SPECIFICATION Spec
CONSTANTS
    Callers = {x1, x2, x3}
    Keys = {k1, k2}
    Hasty = {x3}
    Parallel = FALSE
INVARIANTS
    OneValuePerKey
PROPERTIES
    GetResolves
CHECK_DEADLOCK FALSE
