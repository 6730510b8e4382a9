SPECIFICATION Spec
CONSTANTS
    Sessions = {s1, s2, s3}
    Plans = {p1, p2, p3, p4}
    Entries = {e1, e2, e3, e4}
    Accounts = {a1}
    Ways = {"form", "stop", "close"}
    None = None
SYMMETRY Symmetry
INVARIANTS PaidOnce OneReminder
CHECK_DEADLOCK FALSE
