SPECIFICATION FairSpec
CONSTANTS
    t = t
    p1 = p1
    p2 = p2
    a1 = a1
    a2 = a2
    Endpoints <- MCEndpoints
    NoEndpoint = NoEndpoint
    Modes = {"Hub", "Trunk", "Prune", "Switch"}
    TrunkEp = t
    PermaBranches <- MCPerma
    MaxBranchCache = 2
    MaxSwitchCache = 1
    Addrs = {a1, a2}
    NoAddrs = NoAddrs
    Idle = Idle
    Pool = TRUE
    MaxLate = 1
INVARIANTS
    PermaCovered
    OverlapIsLate
PROPERTIES
    BroadcastReaches
    PruneOneFlow
    SwitchOneOwner
    UnicastToOwner
    PermaReturns
