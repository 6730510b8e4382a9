SPECIFICATION Spec
CONSTANTS
    Sessions = {s1, s2}
    Installments = {i1, i2}
    Entries = {e1, e2, e3}
    Amount = 2
    Ways = {"quick", "form", "repair", "cancel"}
    None = None
PROPERTY RequestsEnd
CHECK_DEADLOCK FALSE
