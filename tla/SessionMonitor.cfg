SPECIFICATION FairSpec
CONSTANTS
    Sessions = {s1}
    Updates = {u1}
    Clicks = {k1}
    Intervals = {0, 2, 5}
    Default = 5
    MaxPollers = 3
INVARIANTS
    Consistent
    StoppedExactlyOnce
PROPERTIES
    DeadSessionsRetired
CHECK_DEADLOCK FALSE
