SPECIFICATION Spec
CONSTANTS
    t = t
    p1 = p1
    p2 = p2
    a1 = a1
    a2 = a2
    Endpoints <- MCEndpoints
    NoEndpoint = NoEndpoint
    Modes = {"Hub", "Trunk"}
    TrunkEp = t
    PermaBranches <- MCPerma
    MaxBranchCache = 2
    MaxSwitchCache = 2
    Addrs = {a1, a2}
    NoAddrs = NoAddrs
    Idle = Idle
    Pool = FALSE
    MaxLate = 1
INVARIANTS
    NoDuplicateForward
