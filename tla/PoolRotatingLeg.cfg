CONSTANTS
    Buckets = {b1, b2}
    LastResort = {}
    Rotatable = {b1}
    Requests = {r1}
    Sessions = {}
    IPs = {}
    NoBucket = NoBucket
    NoKey = NoKey
    NoIp = NoIp
    MaxInflight = 0
    InflightWait = 1
    AffinityTtl = 0
    SoftCordons = {}
    QuotaCordons = {}
    TierCordons = {}
    CooldownS = 1
    CooldownMax = 1
    FailureCap = 1
    Tolerance = 1
SPECIFICATION HSpec
PROPERTY RotatingOnlyWhenAlone
