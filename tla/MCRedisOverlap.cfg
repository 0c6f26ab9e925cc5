CONSTANTS
    Pip = {p1}
    MaxWorkers = 1
    ShiftLease = 1
    MaxTicksPerWork = 2
    Slack = 1
    InOrder = FALSE
    MaxTick = 2
    MaxClock = 3
    r1 = r1
    r2 = r2
    Replica <- MCReplica
    Behind <- MCBehind
    NoCall = NoCall
SPECIFICATION RedisSpec
INVARIANTS
    NoTickPaidTwice
