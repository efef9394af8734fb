SPECIFICATION FairSpec
CONSTANTS
    e1 = e1
    e2 = e2
    e3 = e3
    Keys <- MCKeys
    Timeout = 2
    MaxSize = 2
    MaxBacklog = 1
INVARIANTS
    ExpiryScheduled
PROPERTIES
    HeardStays
    HeadStable
    SilentForgotten
    Implements
CHECK_DEADLOCK FALSE
