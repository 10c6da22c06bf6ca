CONSTANT Conn = {c1, c2}
SPECIFICATION SpecWithAcceptErrors
PROPERTY LoopGoesOn
CHECK_DEADLOCK FALSE
