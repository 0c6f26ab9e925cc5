CONSTANTS
    Pips = 1
    Workplace = {farm}
    None = None
    Kind <- MCKind
    MaxWorkers = 1
    ShiftLease = 1
    OfferTTL = 1
    PendingTTL = 2
    HireGrace = 3
    CycleDeadline = 1
    Prefetch = 1
    MaxQueue = 2
    MaxStall = 1
    MaxFaults = 2
SPECIFICATION FairSpec
INVARIANTS
    TypeOK
PROPERTIES
    StaleSnapshotsEndNoHire
    DisagreementPasses
