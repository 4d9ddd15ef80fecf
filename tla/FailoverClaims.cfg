CONSTANTS
    Requests = {r1, r2}
    HoldTime = 1
    RecoverAfter = 1
    DailyMax = 1
    Scopes = {TRUE, FALSE}
    LastDay = 0
SPECIFICATION FailoverSpec
INVARIANT CapNotPassed
PROPERTY ClosedByProbes
