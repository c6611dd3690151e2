SPECIFICATION FairRouteSpec
CONSTANTS
    Width = 256
    StationWalk = 4
    ChangeTime = 1
    LargestRadius = 20
    LeastTransfer = 2
    Stops <- MCStops
    Networks <- MCNetworks
    TimeTables <- MCTimeTables
    Queries <- MCQueries
INVARIANTS
    RouterInv
    PathInv
    HandlesLive
    SettledInOrder
    LabelsSound
    PathSound
    NoRideIsFaster
    BoardsInTime
    RouteIsJourney
    StopTimesInOrder
    AnswersAgree
    RoundsNeverEarly
PROPERTIES
    SettledIsFinal
    Termination
