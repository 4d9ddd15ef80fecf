CONSTANTS
    Buckets = {b1}
    LastResort = {}
    Rotatable = {b1}
    Requests = {r1, r2}
    Sessions = {}
    IPs = {ip1, ip2}
    NoBucket = NoBucket
    NoKey = NoKey
    NoIp = NoIp
    MaxInflight = 1
    InflightWait = 1
    AffinityTtl = 0
    SoftCordons = {1, 3}
    QuotaCordons = {2}
    TierCordons = {2}
    CooldownS = 1
    CooldownMax = 2
    FailureCap = 2
    Tolerance = 2
SPECIFICATION HSpec
INVARIANT FreshAddressFreed
INVARIANT HardAnswerPulls
PROPERTY LabelKept
PROPERTY BenchedNeverLeased
