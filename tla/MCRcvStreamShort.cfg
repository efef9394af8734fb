CONSTANTS
    Streams <- DNP3Streams
    Counted = 1
    BlockData = 2
    ByteMod = 8
    SizeMod = 65536
    MaxFrame = 8
    Delim <- TheDelim
    MaxParts = 3
SPECIFICATION Spec
CHECK_DEADLOCK FALSE
INVARIANT WaitIsBounded
