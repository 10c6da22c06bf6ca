CONSTANTS
    Txn = {t1, t2}
    Record <- Rids
    Table = {}
    num_records_per_page = 2
    MaxPage = 2
    MaxOps = 5
SYMMETRY TxnSymmetry
SPECIFICATION Spec
INVARIANTS TypeOK    ScanMissesNothing
CHECK_DEADLOCK FALSE
