SPECIFICATION Spec
CONSTANTS
    None = None
    Callers = {c1}
    Owner = owner
    Users = {own, owner}
    MaxSockets = 2
    MaxChanges = 1
    MaxRefreshes = 1
    MaxIds = 8
INVARIANTS TypeOK AnswersMatch FailsFast CallsAuthenticated StatesCurrent OwnChanges ReportsTruth
CHECK_DEADLOCK FALSE
