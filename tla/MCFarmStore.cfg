CONSTANTS
    Pip = {p1, p2}
    MaxWorkers = 1
    ShiftLease = 1
    MaxTicksPerWork = 1
    Slack = 1
    InOrder = TRUE
    MaxTick = 1
    MaxClock = 3
    r1 = r1
    r2 = r2
    Replica <- MCReplica
    Behind <- MCBehind
    NoCall = NoCall
    Caller = {c1, c2}
    Environment = {"sidecar", "redis_url"}
SPECIFICATION FarmSpec
INVARIANTS
    NeverOverfull
    EveryTickPaidOnce
PROPERTIES
    LeaseHonoured
    GhostsNeverBlock
    FarmImplementsStore
SYMMETRY Symmetric
