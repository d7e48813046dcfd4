SPECIFICATION MCSpec
CONSTANTS
    Runtimes = {r1, r2}
    Calls = {c1, c2, c3}
    NoCall = NoCall
    MaxSessions = 2
    MaxRecords = 1
INVARIANTS
    Consistent
    OneHandshakePerRuntime
    RegisteredOwnsRecord
PROPERTIES
    ImplementsLease
    CancelReleases
CHECK_DEADLOCK FALSE
