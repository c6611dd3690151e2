SPECIFICATION FairBindingsSpec
CONSTANTS
    w1 = w1
    w2 = w2
    w3 = w3
    Clients <- Workers
    Requests <- AnyRequest
    SearchOutcomes <- NoCrash
    TileOutcomes <- SomeTile
    MaxCalls = 1
    MaxStarts = 1
    PoolSize = 2
INVARIANTS
    BindingsInv
    OneStage
    CallbackTruthful
PROPERTIES
    EveryCallback
    ShutdownArrives
    LoopReturns
CHECK_DEADLOCK FALSE
