SPECIFICATION Spec
CONSTANTS
    Gone = Gone
    Entities = {e1}
    Values = {v1}
    Rooms = {r1}
    MaxFails = 1
    MaxPushes = 0
INVARIANTS RefreshNeverWrites
CHECK_DEADLOCK FALSE
