SPECIFICATION Spec
CONSTANTS
    Sessions = {s1, s2}
    Entries = {e1, e2, e3}
    Accounts = {1, 2, 3}
    Requests <- AllRequests
    None = None
INVARIANTS VoidedOnce ProbeStillHolds PostsNeverDeadlock
PROPERTIES BookSpec RequestsEnd
CHECK_DEADLOCK FALSE
