CONSTANTS
    Pips = 1
    Workplace = {farm, tavern}
    None = None
    Kind <- MCKind
    MaxWorkers = 1
    ShiftLease = 2
    OfferTTL = 1
    PendingTTL = 2
    HireGrace = 2
    CycleDeadline = 1
    Prefetch = 1
    MaxQueue = 2
    MaxStall = 0
    MaxFaults = 0
SPECIFICATION Spec
PROPERTIES
    NobodyIsEvicted
