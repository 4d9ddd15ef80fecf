CONSTANTS
    Conns = {k1}
    Rotates = {q1}
    IPs = {ip1}
    NoIp = NoIp
    Interval = 2
    Timeout = 1
    Grace = 4
    Attempts = 2
SPECIFICATION AgentSpec
INVARIANT RefreshedByNextProbe
INVARIANT BackAfterReboot
INVARIANT UpstreamTornDown
CHECK_DEADLOCK FALSE
