SPECIFICATION Spec
CONSTANTS
    SeqSize = 30
    SeqMaxQ = 2
    SeqMaxT = 1
    FirstFrames = {3, 27}
    MaxFrames = 7
    Reorders = {2, 3}
    Delays = {1, 2}
    MaxInFlight = 4
    MaxRestarts = 1
    MaxLost = 2
INVARIANTS
    FramesConserved
    WrittenInOrder
    ToleranceKept
CHECK_DEADLOCK FALSE
