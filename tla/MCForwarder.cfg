SPECIFICATION FairSpec
CONSTANTS
    QueueSize = 2
    MaxEvents = 5
    MaxFaults = 3
INVARIANTS InOrder NothingLost
PROPERTIES Forwards
CHECK_DEADLOCK FALSE
