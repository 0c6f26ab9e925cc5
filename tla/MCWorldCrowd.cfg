CONSTANTS
    MaxPips = 2
    Workplace = {farm}
    Treasury = treasury
    None = None
    Width = 0
    Speed = 1
    MinSpacing = 1
    NeedMax = 3
    Hungry = 1
    Meal = 2
    Newborn = {3}
    Capacity = {1, 2}
    Price = {1}
    Amount = {1}
    NeedDelta <- MCNeedDelta
    MaxIssued = 2
SPECIFICATION Spec
INVARIANTS
    TypeOK
    SupplyClosed
    OccupantsCounted
PROPERTIES
    NobodySqueezesIn
