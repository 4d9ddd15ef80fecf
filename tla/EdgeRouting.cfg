CONSTANTS
    Requests = {r1, r2}
    Configured = TRUE
    OnQuota = TRUE
    MaxTries = 2
SPECIFICATION EdgeSpec
INVARIANT EdgeSound
INVARIANT BillingSwallowed
INVARIANT AnswerKept
