SPECIFICATION Spec
CONSTANTS
    Width = 256
    StationWalk = 4
    ChangeTime = 1
    Stops <- MCStops
    TimeTables <- StandingTimeTables
    Queries <- MCQueries
INVARIANTS
    BoardsInTime
