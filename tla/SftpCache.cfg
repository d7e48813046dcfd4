SPECIFICATION MCSpec
CONSTANTS
    Sessions = {s1, s2}
    Ops = {o1, o2, o3}
    None = None
    MaxCache = 1
INVARIANTS
    Consistent
    NeverClosedInUse
    NoOrphan
PROPERTIES
    DeadSessionsClientsClosed
CHECK_DEADLOCK FALSE
