CONSTANTS
    Tools = {1, 2}
    MaxItems = 2
    MaxDeltas = 4
    Nameless = TRUE
SPECIFICATION ProtocolsSpec
INVARIANT CutIsShown
INVARIANT ResultsFollowCalls
INVARIANT ResultsHaveIds
INVARIANT BlocksClosed
INVARIANT NullContentDropped
CHECK_DEADLOCK FALSE
