SPECIFICATION Spec
CONSTANTS
    Listed <- MCListed
    Samples <- MCSamples
    GBps <- MCGBps
    DurationMs = 500
    Limit = 2
    HistoryLen = 2
INVARIANTS
    SmoothedIsRecent
    GPUBarIsRecent
    
    IdleRowsDisappear
