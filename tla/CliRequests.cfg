SPECIFICATION MCRetriesSpec
CONSTANTS
    Calls = {c1, c2, c3}
    Ids = {i1, i2}
    Payloads = {p1, p2}
    NoCall = NoCall
    MaxEntries = 1
INVARIANTS
    RetriesConsistent
    AtMostOnce
PROPERTIES
    EveryRequestServed
CHECK_DEADLOCK FALSE
