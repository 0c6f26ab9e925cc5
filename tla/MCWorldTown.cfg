CONSTANTS
    MaxPips = 1
    Workplace = {farm, tavern}
    Treasury = treasury
    None = None
    Width = 1
    Speed = 1
    MinSpacing = 1
    NeedMax = 3
    Hungry = 1
    Meal = 2
    Newborn = {2}
    Capacity = {0, 1}
    Price = {1, 2}
    Amount = {1}
    NeedDelta = {1}
    MaxIssued = 1
SPECIFICATION Spec
INVARIANTS
    InsideForAReason
    PursesNeverNegative
