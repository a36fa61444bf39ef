SPECIFICATION FairSpec
CONSTANTS
    Creds = {c1, c2, bad}
    Good = {c1, c2}
    None = None
    MaxSaves = 1
    MaxFaults = 1
    MaxFails = 1
    MaxRefreshes = 1
INVARIANTS FollowsStored
PROPERTIES ToolsStay NoComeback Converges ToolsReachAlfred
CHECK_DEADLOCK FALSE
