CONSTANTS
    pool_size = 2
    Fd = {3}
    MaxPage = 3
    Caller = {c1, c2, c3}
    Value = {v1}
SYMMETRY CallerSymmetry
SPECIFICATION Spec
INVARIANTS TypeOK PointersStayGood PinsCounted FramesHandedOutOnce 
 
