SPECIFICATION Spec
CONSTANTS
    Sessions = {s1, s2}
    Installments = {i1, i2}
    Entries = {e1, e2, e3, e4}
    Amount = 3
    Ways = {"quick", "repair", "reverse", "cancel", "delete"}
    None = None
SYMMETRY Symmetry
INVARIANTS RunningTotal SettledWhenPaid
PROPERTY BookSpec
CHECK_DEADLOCK FALSE
