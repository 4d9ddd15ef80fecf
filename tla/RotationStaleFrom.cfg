CONSTANTS
    Buckets = {b1}
    LastResort = {}
    Rotatable = {b1}
    Requests = {r1}
    Sessions = {}
    IPs = {ip1, ip2}
    NoBucket = NoBucket
    NoKey = NoKey
    NoIp = NoIp
    MaxInflight = 0
    InflightWait = 1
    AffinityTtl = 0
    SoftCordons = {}
    QuotaCordons = {1}
    TierCordons = {}
    CooldownS = 1
    CooldownMax = 1
    FailureCap = 1
    Tolerance = 1
    Threshold = 1
    Charges = {1}
    MaxRotations = 1
    RetryCooldown = 1
    MinInterval = 1
    PollTime = 1
    RotateOnHard429 = TRUE
    Rollovers = 0
    Shutdowns = 0
    Crashes = 0
SPECIFICATION RotationHSpec
PROPERTY BlamedAddressLeft
