CONSTANTS
    pool_size = 2
    Fd = {3, 4, 5, 6}
    MaxPage = 3
    Caller = {c1, c2}
    Value = {v1}
    File = {tab1, tab2}
SPECIFICATION StorageSpec
INVARIANT PointersStayGood
