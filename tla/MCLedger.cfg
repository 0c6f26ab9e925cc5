CONSTANTS
    farm = farm
    p1 = p1
    p2 = p2
    f1 = f1
    f2 = f2
    Treasury = treasury
    Account <- MCAccount
    Tick = {1, 2}
    Transfers <- MCTransfers
    Batches <- MCBatches
    FactId = {f1, f2}
    Facts <- MCFacts
SPECIFICATION Spec
INVARIANTS
    SupplyClosed
    ReplayReconstructs
    BookedExactlyOnce
    CachedAnswerIsFirstAnswer
    OnlyFactsOverdraw
PROPERTY HistoryIsFinal
