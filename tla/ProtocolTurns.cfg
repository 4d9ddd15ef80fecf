CONSTANTS
    Tools = {1, 2}
    MaxItems = 2
    MaxDeltas = 4
    Nameless = FALSE
SPECIFICATION ProtocolsSpec
CHECK_DEADLOCK FALSE
INVARIANT ProtocolsSound
INVARIANT RequestUsable
INVARIANT NothingLost
