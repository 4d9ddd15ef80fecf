CONSTANTS
    MaxChunks = 3
    Setups <- AllSetups
SPECIFICATION RelayFairSpec
CHECK_DEADLOCK FALSE
INVARIANT RelaySound
INVARIANT WireTerminated
INVARIANT BlameIsFair
PROPERTY LeaseComesBack
