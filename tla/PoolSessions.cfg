CONSTANTS
    Buckets = {b1, b2}
    LastResort = {b2}
    Rotatable = {b1}
    Requests = {r1, r2}
    Sessions = {s1}
    IPs = {}
    NoBucket = NoBucket
    NoKey = NoKey
    NoIp = NoIp
    MaxInflight = 0
    InflightWait = 1
    AffinityTtl = 1
    SoftCordons = {}
    QuotaCordons = {2}
    TierCordons = {}
    CooldownS = 1
    CooldownMax = 1
    FailureCap = 1
    Tolerance = 1
SPECIFICATION FairSpec
PROPERTY BenchedNeverLeased
PROPERTY MigrationNeedsCause
PROPERTY BenchEnds
