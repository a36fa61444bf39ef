SPECIFICATION Spec
CONSTANTS
    None = None
    Callers = {c1}
    Creds = {good}
    GoodCreds = {good}
    MaxFaults = 1
    MaxChanges = 1
    RefreshMayFail = TRUE
INVARIANTS RegistriesCurrent
CHECK_DEADLOCK FALSE
