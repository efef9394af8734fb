SPECIFICATION FairSpec
CONSTANTS
    SeqSize = 18
    SeqMaxQ = 2
    SeqMaxT = 1
    FirstFrames = {0}
    MaxFrames = 3
    Reorders = {2}
    Delays = {2}
    MaxInFlight = 3
    MaxRestarts = 0
    MaxLost = 1
PROPERTIES
    HoldEnds
CHECK_DEADLOCK FALSE
