SPECIFICATION Spec
CONSTANTS
    Saved = {a}
    Reconnecting = {a}
    Quick = {q}
    Local = local
    MaxSessions = 2
    MaxCalls = 2
    MaxClosed = 1
    AutoReconnectMax = 1
    MaxMoves = 2
    MaxTurns = 1
INVARIANTS
    Consistent
    OneTabPerSession
    LiveSessionShownLive
PROPERTIES
    FocusKept
CHECK_DEADLOCK FALSE
