CONSTANTS
    Buckets = {b1, b2}
    LastResort = {}
    Rotatable = {}
    Requests = {r1, r2, r3, r4}
    Sessions = {s1}
    IPs = {}
    NoBucket = NoBucket
    NoKey = NoKey
    NoIp = NoIp
    MaxInflight = 1
    InflightWait = 2
    AffinityTtl = 3
    SoftCordons = {}
    QuotaCordons = {}
    TierCordons = {}
    CooldownS = 1
    CooldownMax = 1
    FailureCap = 1
    Tolerance = 1
SPECIFICATION Spec
PROPERTY MigrationNeedsCause
SYMMETRY RequestSymmetry
