SPECIFICATION Spec
CONSTANTS
    Sessions = {s1, s2}
    Items = {1, 2}
    Vehicles = {1}
    v1 = v1
    v2 = v2
    Versions = {v1, v2}
    Requests <- SentRequests
    MaxFaults = 3
    None = None
INVARIANT CompletedWhole
PROPERTIES NothingAfterwards RecordedOnce SetupCompletes
CHECK_DEADLOCK FALSE
