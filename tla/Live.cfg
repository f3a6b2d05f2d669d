SPECIFICATION FairSpec
CONSTANTS
    Intervals = {0, 1}
    HistoryLen = 2
    Cycle = 5
INVARIANTS
    CleanExit
    HistoryIsRecent
PROPERTY
    CtrlCStops
