SPECIFICATION Spec
CONSTANTS
    Readings <- MCReadings
    ANENames <- MCANENames
    GPUNames <- MCGPUNames
    MaxChannels = 2
    DurationMs = 500
    IntervalMs = 500
    BucketPct <- MCBucketPct
    PagePct <- MCPagePct
    PctUnit = 10
    MaxRows = 2
INVARIANTS
    RateCountsInterrupts
