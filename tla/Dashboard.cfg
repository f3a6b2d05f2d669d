SPECIFICATION FairSpec
CONSTANTS
    MaxConns = 2
    MaxPublished = 4
    Window = 2
    Channels = {ch}
    HistoryLen = 2
INVARIANTS
    HistoriesInOrder
    NoGapSinceConnected
    ChartEndsAtDelta
    DotIsRight
PROPERTY
    LostIsShown
