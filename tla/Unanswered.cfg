SPECIFICATION FairSpec
CONSTANTS
    c1 = c1
    c2 = c2
    Clients <- TwoClients
    Requests <- PoliteRequests
    SearchOutcomes <- NoCrash
    TileOutcomes <- SomeTile
    MaxCalls = 1
    MaxStarts = 3
PROPERTIES
    EveryCallReturns
CHECK_DEADLOCK FALSE
