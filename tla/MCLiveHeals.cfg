SPECIFICATION FairSpec
CONSTANTS
    Gone = Gone
    Entities = {e1}
    Values = {v1}
    Rooms = {r1}
    MaxFails = 2
    MaxPushes = 1
PROPERTIES AwayHeals
CHECK_DEADLOCK FALSE
