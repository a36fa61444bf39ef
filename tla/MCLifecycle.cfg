SPECIFICATION Spec
CONSTANTS
    c1 = c1
    c2 = c2
    c3 = c3
    good = good
    bad = bad
    None = None
    Callers = {c1, c2, c3}
    Creds = {good, bad}
    GoodCreds = {good}
    MaxFaults = 2
    MaxChanges = 1
    RefreshMayFail = TRUE
SYMMETRY CallerSymmetry
INVARIANTS OneConnection AttemptsNest NobodyStranded StateTellsTruth
PROPERTIES ReportsOwnAttempt KeepsContract
CHECK_DEADLOCK FALSE
