SPECIFICATION Spec
CONSTANTS
    p1 = p1 p2 = p2 o1 = o1 o2 = o2 o3 = o3
    N = 2
    MaxWorkers = 1
    Pip = {p1, p2}
    Offer <- MCOffer
    PipOf <- MCPipOf
    Garbled = {o3}
    Replica = {r1, r2}
    Prefetch = 2
    MaxFaults = 1
CHECK_DEADLOCK FALSE
INVARIANTS TypeOK NobodyTurnedAway HiredWhereClaimed EveryShiftAccountedFor
PROPERTY EveryOfferSettled
