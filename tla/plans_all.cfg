SPECIFICATION Spec
CONSTANTS
    Sessions = {s1, s2}
    Plans = {p1, p2, p3}
    Entries = {e1, e2}
    Accounts = {a1, a2}
    Ways = {"form", "skip", "stop", "close", "execute"}
    None = None
INVARIANT ExecutedHasItsEntry
PROPERTY RequestsEnd
CHECK_DEADLOCK FALSE
