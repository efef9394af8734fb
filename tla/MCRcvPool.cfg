SPECIFICATION FairSpec
CONSTANTS
    Endpoints = {e1, e2}
    MaxProcessQ = 2
    MaxDatagrams = 4
    Idle = Idle
INVARIANTS
    BufferIntact
    NoLeakNoDoubleFree
PROPERTIES
    SentInOrder
    DelayEnds
CHECK_DEADLOCK FALSE
