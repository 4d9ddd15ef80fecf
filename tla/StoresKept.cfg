CONSTANTS
    Keys = {k1, k2}
    Ttls = {0, 1}
    MaxNow = 2
    Ids = {m1, m2}
    Relay = {m1}
    Suffixed = {m1}
    Ttl = 3
    Backoff = 1
    Fetching = 1
    Operations = 2
    MaxFile = 2
    Keep = 2
    MaxEvents = 9
SPECIFICATION StoresSpec
CHECK_DEADLOCK FALSE
INVARIANT StoresSound
INVARIANT WordKept
PROPERTY CatalogRecovers
