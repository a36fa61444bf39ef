SPECIFICATION Spec
CONSTANTS
    Gone = Gone
    Entities = {e1, e2}
    Values = {v1}
    Rooms = {r1, r2}
    MaxFails = 2
    MaxPushes = 1
SYMMETRY Interchangeable
INVARIANTS TypeOK AwayIsEmpty ShutdownLeavesEmpty InStep
CHECK_DEADLOCK FALSE
