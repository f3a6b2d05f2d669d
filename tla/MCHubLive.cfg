SPECIFICATION FairSpec
CONSTANTS
    Clients = {c1}
    ChanCap = 1
    Intervals = {1}
    MaxPublished = 2
PROPERTIES
    HubNeverBlocked
    ShutdownCompletes
    DisconnectReleases
    QueuedIsDelivered
