SPECIFICATION FairSpec
CONSTANTS
    c1 = c1
    c2 = c2
    Client = {c1, c2}
    MaxTxn = 2
    Txn = {0, 1}
    Record = {r1, r2}
    Table = {}
    Plan <- TablePlans
INVARIANTS TypeOK Serializable RepeatableReads FinishedHoldNothing ExecutesInGrowingPhase OwnTransaction
PROPERTIES LMSpec 
