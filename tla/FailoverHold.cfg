CONSTANTS
    Requests = {r1, r2, r3}
    HoldTime = 2
    RecoverAfter = 2
    DailyMax = 2
    Scopes = {TRUE, FALSE}
    LastDay = 2
SPECIFICATION FailoverFairSpec
INVARIANT OverrunBounded
PROPERTY BreakerImplemented
PROPERTY HoldEnds
