CONSTANTS
    MaxChunks = 1
    Setups <- AllSetups
SPECIFICATION RelayFairSpec
INVARIANT StallBlamed
INVARIANT BreakBlamed
INVARIANT FinishedIsCompleted
PROPERTY ClosedNotCollected
PROPERTY HookFires
CHECK_DEADLOCK FALSE
