SPECIFICATION FairSpec
CONSTANTS
    Sockets = {s1, s2}
    NoSocket = NoSocket
    Uses <- AllUses
    PatientUser = TRUE
    IsServer = TRUE
    min_retry_time = 3
    max_retry_time = 5
    RampMod = 8
    Pieces = 2
    MaxResolving = 2
    MaxPosted = 4
INVARIANTS
    KeepsTrying
    OneReader
    PiecesConserved
    HeldOnlyBehindWrite
    SendIsShut
PROPERTIES
    BackoffGrows
    Reconnects
CHECK_DEADLOCK FALSE
