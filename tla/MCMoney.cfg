CONSTANTS
    Pip = {p1}
    Farm = farm
    Treasury = treasury
    Price = 1
    Capital = 2
    MaxTicksPerWork = 2
    Idle = idle
    MaxTick = 4
    MaxQueue = 2
    MaxFaults = 1
SPECIFICATION Spec
INVARIANTS TypeOK BothBooksClosed PoorerInTheCore Reconciled
CHECK_DEADLOCK FALSE
