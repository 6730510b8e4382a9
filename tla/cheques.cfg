SPECIFICATION Spec
CONSTANTS
    Sessions = {s1, s2}
    Cheques = {c1, c2}
    Entries = {e1, e2}
    Doors = {"action"}
    None = None
INVARIANTS EntryWithItsCheque ClearedWithItsEntry
PROPERTIES BookSpec RequestsEnd
CHECK_DEADLOCK FALSE
