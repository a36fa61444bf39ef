SPECIFICATION Spec
CONSTANTS
    None = None
    Callers = {c1}
    Creds = {good}
    GoodCreds = {good}
    MaxFaults = 1
    MaxChanges = 2
    RefreshMayFail = FALSE
INVARIANTS AuthFailedMeansBadToken
CHECK_DEADLOCK FALSE
