SPECIFICATION FairSpec
CONSTANTS
    num_ports = 2
    MaxWriteQSz = 1
    MaxMessages = 4
    SeqSize = 22
    SeqMaxQ = 1
    SeqMaxT = 0
    MaxDelay = 1
    MaxBuffers = 2
    MaxNoise = 1
INVARIANTS
    PortsAccountedFor
    DatagramsConserved
PROPERTIES
    DatagramsSettle
    LinkImplements
CHECK_DEADLOCK FALSE
