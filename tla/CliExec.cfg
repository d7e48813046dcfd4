SPECIFICATION Spec
CONSTANTS
    Calls = {c1, c2}
    Conns = {x1, x2, x3}
    None = None
SYMMETRY Symmetry
INVARIANTS
    Consistent
PROPERTIES
    HealthySessionKept
    ImplementsContract
CHECK_DEADLOCK FALSE
