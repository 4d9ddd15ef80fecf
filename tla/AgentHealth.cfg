CONSTANTS
    Conns = {k1, k2}
    Rotates = {q1}
    IPs = {ip1}
    NoIp = NoIp
    Interval = 2
    Timeout = 1
    Grace = 4
    Attempts = 2
SPECIFICATION AgentFairSpec
CHECK_DEADLOCK FALSE
INVARIANT AgentSound
INVARIANT ReadyIsTrue
PROPERTY AgentMovesOn
