SPECIFICATION Spec
CONSTANTS
    HalfMod = 4
    ProgSizes = {1, 4, 5}
    DataSizes = {0, 4}
    StackSize = 9
    Gap = 1
    InstSize = 2
    DoubleSize = 4
    AccessSizes = {1, 2, 4}
    AddrMod = 28
    max_instructions = 2
    MaxRuns = 2
INVARIANTS
    AccessesInBounds
    NoStaleResult
    ArithmeticExact
PROPERTY
    RunEnds
CHECK_DEADLOCK FALSE
