CONSTANTS
    Txn = {t1, t2}
    Record <- Rids
    Table = {}
    num_records_per_page = 2
    MaxPage = 2
    MaxOps = 3
SPECIFICATION Spec
PROPERTY NoPhantoms
CHECK_DEADLOCK FALSE
