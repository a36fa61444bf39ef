SPECIFICATION FairSpec
CONSTANTS
    None = None
    Requests = {r1, r2, r3}
    MaxFails = 3
INVARIANTS NothingForgotten RetryIsTracked StopsClean
PROPERTIES Registers
CHECK_DEADLOCK FALSE
