------------------------------ MODULE RouteResponse ------------------------------
(***************************************************************************)
(* The two ways a route becomes an answer: annotation::PBF makes a message *)
(* for the master to send, which adaptor::IPCResponseToJSON prints at the  *)
(* other end, and annotation::API prints the route at once.                *)
(*                                                                         *)
(* The annotations are a record [geometry, lines, stops, dictionary]: the  *)
(* geometry annotation, the name ids of lines and stops, and the names.    *)
(* A JSON object is a record of its members; modes, colors, abbreviations  *)
(* and the summary are left out.                                           *)
(***************************************************************************)
EXTENDS Route, Annotation, Polyline, Dictionary
LOCAL INSTANCE TLC

NameOfStop(annotations, stop) == GetString(annotations.dictionary, annotations.stops[stop + 1])
NameOfLine(annotations, line) == GetString(annotations.dictionary, annotations.lines[line])

First(sequence) == sequence[1]
Back(sequence) == sequence[Len(sequence)]

\* everything the annotators look up for a transit is there
TransitKnown(annotations, transit) ==
    /\ HasLine(annotations.lines, transit.line)
    /\ Defined(annotations.geometry, transit.line, First(transit.stops).id, Back(transit.stops).id)

RouteKnown(annotations, route) ==
    \A i \in DOMAIN route.segments :
        IsTransit(route.segments[i]) => TransitKnown(annotations, route.segments[i])

-----------------------------------------------------------------------------
(* annotation::PBF                                                          *)

Locations(annotations, transit) ==
    [ i \in DOMAIN transit.stops |-> LocationOf(annotations.geometry, transit.stops[i].id) ]

\* the shape between the first stop and the last, or the stops
Geometry(annotations, transit) ==
    LET points == PointsBetween(annotations.geometry, transit.line, First(transit.stops).id,
                                Back(transit.stops).id)
    IN  IF points = << >> THEN Locations(annotations, transit) ELSE points

Text(points) == ToEscaped(Encode(points))

Times(departure, arrival) ==
    [ utc_departure |-> departure, utc_arrival |-> arrival,
      duration |-> Duration(departure, arrival) ]

PBFStop(annotations, stop) ==
    [ name |-> NameOfStop(annotations, stop.id), utc_arrival |-> stop.arrival,
      utc_departure |-> stop.departure, location |-> LocationOf(annotations.geometry, stop.id) ]

\* the departure serves as the arrival, too
PBFConnection(annotations, transit) ==
    [ name |-> NameOfLine(annotations, transit.line), utc_departure |-> transit.departure,
      utc_arrival |-> transit.departure ]

\* mutant of PBFTransit: the points of the stops, whatever the shape
PBFTransitByStops(annotations, transit) ==
    [ times |-> Times(transit.departure, transit.arrival),
      polyline |-> Text(Locations(annotations, transit)),
      stops |-> [ i \in DOMAIN transit.stops |-> PBFStop(annotations, transit.stops[i]) ],
      connections |-> << PBFConnection(annotations, transit) >> ]

PBFTransit(annotations, transit) ==
    [ times |-> Times(transit.departure, transit.arrival),
      polyline |-> Text(Geometry(annotations, transit)),
      stops |-> [ i \in DOMAIN transit.stops |-> PBFStop(annotations, transit.stops[i]) ],
      connections |-> << PBFConnection(annotations, transit) >> ]

Place(annotations, stop) ==
    [ name |-> NameOfStop(annotations, stop), location |-> LocationOf(annotations.geometry, stop) ]

PBFTransfer(annotations, transfer) ==
    LET origin == Place(annotations, transfer.origin)
        destination == Place(annotations, transfer.destination)
    IN  [ times |-> Times(transfer.departure, transfer.arrival),
          polyline |-> Text(<< origin.location, destination.location >>),
          origin |-> origin, destination |-> destination ]

PBFSegment(annotations, segment) ==
    IF IsTransit(segment) THEN [transit |-> PBFTransit(annotations, segment)]
                          ELSE [transfer |-> PBFTransfer(annotations, segment)]

Waypoints(annotations, route) ==
    << LocationOf(annotations.geometry, First(First(route.segments).stops).id),
       LocationOf(annotations.geometry, Back(Back(route.segments).stops).id) >>

\* operator(): the times of the leg are those of the route
PBF(annotations, route) ==
    [ waypoints |-> Waypoints(annotations, route),
      times     |-> Times(LegDeparture(route), LegArrival(route)),
      segments  |-> [ i \in DOMAIN route.segments |-> PBFSegment(annotations, route.segments[i]) ] ]

-----------------------------------------------------------------------------
(* adaptor::IPCResponseToJSON                                               *)

PrintTimes(times) ==
    [ departure |-> times.utc_departure, arrival |-> times.utc_arrival,
      duration |-> times.duration ]

PrintStop(stop) ==
    [ name |-> stop.name, arrival |-> stop.utc_arrival, departure |-> stop.utc_departure,
      location |-> stop.location ]

PrintConnection(connection) ==
    [ name |-> connection.name, departure |-> connection.utc_departure,
      arrival |-> connection.utc_arrival ]

\* nothing but its members tells a transfer from a transit
PrintSegment(segment) ==
    IF "transit" \in DOMAIN segment
    THEN PrintTimes(segment.transit.times)
         @@ [ geometry |-> segment.transit.polyline,
              stops |-> [ i \in DOMAIN segment.transit.stops |->
                            PrintStop(segment.transit.stops[i]) ],
              connections |-> [ i \in DOMAIN segment.transit.connections |->
                                  PrintConnection(segment.transit.connections[i]) ] ]
    ELSE PrintTimes(segment.transfer.times)
         @@ [ geometry |-> segment.transfer.polyline, origin |-> segment.transfer.origin,
              destination |-> segment.transfer.destination ]

IPCResponseToJSON(response) ==
    LET segments == [ i \in DOMAIN response.segments |-> PrintSegment(response.segments[i]) ]
        leg == PrintTimes(response.times) @@ [segments |-> segments]
    IN  [ code |-> "Ok", routes |-> << PrintTimes(response.times) @@ [legs |-> << leg >>] >>,
          waypoints |-> response.waypoints ]

-----------------------------------------------------------------------------
(* annotation::API                                                          *)

JsonTimes(departure, arrival) ==
    [depart |-> departure, arrive |-> arrival, duration |-> Duration(departure, arrival)]

\* the location is that of no stop
JsonStop(annotations, stop) ==
    [ name |-> NameOfStop(annotations, stop.id), location |-> 0, arrive |-> stop.arrival,
      depart |-> stop.departure ]

JsonSegment(annotations, segment) ==
    JsonTimes(segment.departure, segment.arrival)
    @@ (IF IsTransit(segment)
        THEN [ mode |-> "transit",
               geometry |-> Text(Geometry(annotations, segment)),
               stops |-> [ i \in DOMAIN segment.stops |-> JsonStop(annotations, segment.stops[i]) ],
               connections |-> << JsonTimes(segment.departure, segment.arrival)
                                  @@ [name |-> NameOfLine(annotations, segment.line)] >> ]
        ELSE [ mode |-> "transfer",
               geometry |-> Text(<< LocationOf(annotations.geometry, segment.origin),
                                    LocationOf(annotations.geometry, segment.destination) >>),
               from_station |-> NameOfStop(annotations, segment.origin),
               to_station |-> NameOfStop(annotations, segment.destination) ])

API(annotations, route) ==
    LET segments == [ i \in DOMAIN route.segments |-> JsonSegment(annotations, route.segments[i]) ]
        times == JsonTimes(LegDeparture(route), LegArrival(route))
    IN  [ code |-> "Ok", waypoints |-> Waypoints(annotations, route),
          routes |-> << times @@ [legs |-> << times @@ [segments |-> segments] >>] >> ]
==================================================================================
