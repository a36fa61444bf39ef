SPECIFICATION FairSpec
CONSTANTS
    None = None
    Callers = {c1, c2}
    Creds = {good, bad}
    GoodCreds = {good}
    MaxFaults = 2
    MaxChanges = 2
    RefreshMayFail = FALSE
INVARIANTS RegistriesCurrent
PROPERTIES CallersReturn Settles
CHECK_DEADLOCK FALSE
