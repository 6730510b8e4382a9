SPECIFICATION Spec
CONSTANTS
    Sessions = {s1, s2}
    Devices = {d1, d2}
    Messages = {m1, m2}
    Entries = {e1, e2}
    MaxWaiting = 1
    None = None
INVARIANTS OneEntryPerMessage DecidedWithItsText InboxBounded RevokedStaysSilent
PROPERTIES DecisionsStand RecordedOnce RecordedIsMarked
CHECK_DEADLOCK FALSE
