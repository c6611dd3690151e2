SPECIFICATION FairConnectivitySpec
CONSTANTS
    Width = 256
    ChangeTime = 1
    World = 512
    TileSize = 8
    Extent = 64
    TileBuffer = 8
    LookupBuffer = 8
    MinZoom = 2
    MaxZoom = 4
    Graphs <- MCGraphs
    Networks <- MCNetworks
    TimeTables <- MCTimeTables
    TileRequests <- MCTileRequests
INVARIANTS
    AllocationExact
    ConnectivityInv
    ComponentsStrong
    SinksFirst
    ComponentsOfJourneys
    TileTellsBox
PROPERTIES
    ComponentIsFinal
    ComponentsComplete
