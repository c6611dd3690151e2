-------------------------------- MODULE MCMaster --------------------------------
(***************************************************************************)
(* A small town: two routes whose trips come in another order in the stop  *)
(* times than in the list of trips, one of them back over its own way, a   *)
(* depot nobody serves, and stops of one name close to each other.         *)
(***************************************************************************)
EXTENDS MasterProofs

Stop(key, name, location, parent) ==
    [key |-> key, name |-> name, location |-> location, parent |-> parent]

Time(trip, sequence, stop, time) ==
    [ trip |-> trip, sequence |-> sequence, stop |-> stop, arrival |-> time, departure |-> time,
      interpolated |-> FALSE ]

Routes == << [key |-> "tram", name |-> "Tram"], [key |-> "bus", name |-> "Bus"] >>

\* a trip is never driven, and another one has no shape
Trips == <<
    [key |-> "never", route |-> "bus", shape |-> {}],
    [key |-> "noon", route |-> "bus", shape |-> {}],
    [key |-> "dawn", route |-> "tram", shape |-> {"track"}],
    [key |-> "night", route |-> "bus", shape |-> {"street"}] >>

StopTimes == <<
    Time("night", 2, "harbour", 70), Time("night", 1, "market", 60),
    Time("dawn", 1, "market west", 10), Time("dawn", 3, "market west", 30),
    Time("dawn", 2, "harbour", 20),
    Time("noon", 7, "market west", 50), Time("noon", 4, "harbour", 45) >>

Shapes == <<
    [key |-> "street", sequence |-> 2, location |-> 200],
    [key |-> "track", sequence |-> 1, location |-> 40],
    [key |-> "street", sequence |-> 1, location |-> 0],
    [key |-> "track", sequence |-> 2, location |-> 190] >>

\* with and without a station in the feed, the transfer to a stop no vehicle serves,
\* and a harbour that is close to the market
Town(station, walk, harbour) ==
    [ routes     |-> Routes,
      stops      |-> << Stop("depot", "Depot", 1000, {"yard"}),
                        Stop("market", "Market", 0, station),
                        Stop("harbour", "Harbour", harbour, {}),
                        Stop("pier", "Harbour", 400, {}),
                        Stop("yard", "Yard", 1100, {}),
                        Stop("market west", "Market", 40, {}) >>,
      stop_times |-> StopTimes,
      trips      |-> Trips,
      shapes     |-> Shapes,
      transfers  |-> IF walk
                     THEN << [from |-> "pier", to |-> "harbour", type |-> "LONG", duration |-> 9] >>
                     ELSE << >> ]

\* one vehicle on one line, far from everything
Village ==
    [ routes     |-> << [key |-> "bus", name |-> "Bus"] >>,
      stops      |-> << Stop("mill", "Mill", 0, {}), Stop("inn", "Inn", 900, {}) >>,
      stop_times |-> << Time("noon", 1, "mill", 10), Time("noon", 2, "inn", 20) >>,
      trips      |-> << [key |-> "noon", route |-> "bus", shape |-> {}] >>,
      shapes     |-> << >>,
      transfers  |-> << >> ]

\* two stops close to each other, and names of stops nobody serves in between
Square ==
    [ Village EXCEPT
        !.routes = Routes,
        !.stops = << Stop("theatre", "Theatre", 0, {}), Stop("inn", "Inn", 900, {}),
                     Stop("mill", "Mill", 1000, {}), Stop("ford", "Ford", 1100, {}),
                     Stop("well", "Well", 1200, {}), Stop("museum", "Museum", 30, {}) >>,
        !.stop_times = << Time("noon", 1, "museum", 10), Time("noon", 2, "inn", 20),
                          Time("noon", 3, "theatre", 30) >> ]

\* the vehicle stops where no stop is listed
Unlisted == [Village EXCEPT !.stops = << Head(@) >>]

MCFeeds ==
    { Town({}, FALSE, 200), Town({}, TRUE, 80), Town({"market west"}, TRUE, 200),
      Village, Square, Unlisted }
================================================================================
