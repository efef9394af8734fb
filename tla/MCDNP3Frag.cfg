SPECIFICATION Spec
CONSTANTS
    Flows = {1, 2}
    SeqCount = 8
    Sizes <- MixedSizes
    Streams <- MCStreams
    MaxReorder = 3
    MaxPosted = 2
    MaxLost = 1
INVARIANTS
    FlowBookkeeping
    FramesConserved
    FlowsInOrder
CHECK_DEADLOCK FALSE
