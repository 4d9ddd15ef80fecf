CONSTANTS
    Clients = {c1}
    Rotations = {r1, r2}
    MaxSessions = 1
    MaxTunnels = 1
SPECIFICATION TunnelFairSpec
CHECK_DEADLOCK FALSE
INVARIANT TunnelSound
INVARIANT DataHasOwner
PROPERTY TunnelsEnd
