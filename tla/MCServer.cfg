CONSTANT Conn = {c1, c2, c3}
SPECIFICATION Spec
INVARIANTS TypeOK OwnSocket
PROPERTIES ConnectionsServed ParserNeverLost
CHECK_DEADLOCK FALSE
