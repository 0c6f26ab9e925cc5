CONSTANTS
    farm = farm
    p1 = p1
    p2 = p2
    f1 = f1
    Treasury = treasury
    Account <- MCAccount
    Tick = {1}
    Transfers <- MCTransfers
    Batches <- MCBatches
    FactId = {f1}
    Facts <- MCFacts
    Client = {c1, c2}
    Rank <- MCRank
    MaxDeliveries = 1
SPECIFICATION FairSpec
INVARIANTS
    TypeOK
    FundsCheckStaysValid
    OnlyBatchesDeadlock
    AnswersStand
PROPERTIES
    ImplementsLedger
    EveryCallReturns
