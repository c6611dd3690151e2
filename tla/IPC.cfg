SPECIFICATION FairSpec
CONSTANTS
    c1 = c1
    c2 = c2
    Clients <- TwoClients
    Requests <- EveryRequest
    SearchOutcomes <- AllOutcomes
    TileOutcomes <- AnyTile
    MaxCalls = 2
    MaxStarts = 2
INVARIANTS
    IPCInv
    OneInFlight
    NothingLost
PROPERTIES
    OneKillOneStop
    Implements
    AnsweredUnlessGone
CHECK_DEADLOCK FALSE
