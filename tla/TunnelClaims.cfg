CONSTANTS
    Clients = {c1}
    Rotations = {r1}
    MaxSessions = 2
    MaxTunnels = 1
SPECIFICATION TunnelSpec
INVARIANT ActiveExact
INVARIANT PeerIsCurrent
INVARIANT HomeHidden
INVARIANT OnlyMifiRebooted
CHECK_DEADLOCK FALSE
