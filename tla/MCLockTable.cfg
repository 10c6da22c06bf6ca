SPECIFICATION LMSpec
CONSTANTS
    t1 = t1
    t2 = t2
    t3 = t3
    Txn = {t1, t2, t3}
    Record = {r1}
    Table = {tab1}
SYMMETRY TxnSymmetry
INVARIANTS LMTypeOK LockCompatibility SummarySound LocksTracked
PROPERTIES TwoPhase
