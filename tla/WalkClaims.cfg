CONSTANTS
    Buckets = {b1, b2}
    LastResort = {}
    Rotatable = {}
    Requests = {r1, r2}
    Sessions = {}
    IPs = {}
    NoBucket = NoBucket
    NoKey = NoKey
    NoIp = NoIp
    MaxInflight = 1
    InflightWait = 1
    AffinityTtl = 0
    SoftCordons = {}
    QuotaCordons = {1}
    TierCordons = {}
    CooldownS = 1
    CooldownMax = 1
    FailureCap = 1
    Tolerance = 1
    MaxAttempts = 4
    MaxLost = 1
SPECIFICATION WalkSpec
INVARIANT ErrorsReleased
PROPERTY SiblingAlwaysFirst
