CONSTANTS
    Requests = {r1, r2}
    Configured = TRUE
    OnQuota = TRUE
    MaxTries = 2
SPECIFICATION EdgeSpec
INVARIANT DrainKept
PROPERTY ProbeRoutes
