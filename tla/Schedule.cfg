SPECIFICATION Spec
CONSTANTS
    Width = 256
    StationWalk = 4
    ChangeTime = 1
    Stops <- MCStops
    TimeTables <- MCTimeTables
    Queries <- MCQueries
INVARIANTS
    RidesOnSchedule
