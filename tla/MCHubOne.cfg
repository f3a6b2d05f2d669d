SPECIFICATION Spec
CONSTANTS
    Clients = {c1}
    ChanCap = 2
    Intervals = {1}
    MaxPublished = 4
INVARIANTS
    StreamOrdered
    NoEarlyLoss
PROPERTY
    ImplementsFeed
