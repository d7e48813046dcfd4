SPECIFICATION FairSpec
CONSTANTS
    MaxRecordings = 2
INVARIANTS
    Consistent
    NothingLeaks
    TabTellsTruth
PROPERTIES
    TeardownFinishes
    DeadLinkCleaned
CHECK_DEADLOCK FALSE
