CONSTANTS
    Buckets = {b1, b2}
    LastResort = {}
    Rotatable = {b1, b2}
    Requests = {r1}
    Sessions = {}
    IPs = {ip1}
    NoBucket = NoBucket
    NoKey = NoKey
    NoIp = NoIp
    MaxInflight = 0
    InflightWait = 1
    AffinityTtl = 0
    SoftCordons = {}
    QuotaCordons = {}
    TierCordons = {}
    CooldownS = 1
    CooldownMax = 1
    FailureCap = 1
    Tolerance = 1
    Threshold = 1
    Charges = {1}
    MaxRotations = 2
    RetryCooldown = 1
    MinInterval = 1
    PollTime = 0
    RotateOnHard429 = FALSE
    Rollovers = 1
    Shutdowns = 1
    Crashes = 0
SPECIFICATION RotationSpec
PROPERTY RetryInItsWindow
INVARIANT LatchHasOwner
