SPECIFICATION Spec
CONSTANTS
    c1 = c1
    c2 = c2
    Client = {c1, c2}
    MaxTxn = 2
    Txn = {0, 1}
    Record = {r1}
    Table = {}
    Plan <- TablePlans
INVARIANTS AbortedWritesUndone
