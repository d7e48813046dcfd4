SPECIFICATION MCSpec
CONSTANTS
    Reqs = {q1, q2}
    Servers = {s1, s2}
    None = None
    MaxReloads = 1
INVARIANTS
    Consistent
    AllowedByUser
    LeaverDeniesNobody
PROPERTIES
    EveryRequestAnswered
CHECK_DEADLOCK FALSE
