------------------------------- MODULE RouteService -------------------------------
(***************************************************************************)
(* service::Route with what comes before and after the search: the request *)
(* becomes a query (ServiceQuery), the path the router finds a route, the  *)
(* route a message that is printed where it arrives.  The router in rounds *)
(* is put to the same query afterwards.                                    *)
(***************************************************************************)
EXTENDS TimeTableDijkstra, Geometric

CONSTANTS
    Networks,       \* records [timetable, annotations]
    LargestRadius,  \* until where the radius is doubled, 1000 in the code
    LeastTransfer

VARIABLES
    annotations,  \* of the network
    route,        \* what make_route has made, if there is a route
    reply,        \* the message with the answer: {} until it is there
    json,         \* the answer printed
    phase, begins, states, offset, count, labels, bound, reached, rounds_path

rounds == << phase, begins, states, offset, count, labels, bound, reached, rounds_path >>

service == << annotations, route, reply, json >>

Rounds == INSTANCE TimeTableRounds

Respond == INSTANCE RouteResponse

-----------------------------------------------------------------------------
(* The request: [origin, destination, departure, arrival, walking_radius],  *)
(* the times optional                                                       *)

\* RouteParameters::valid, as far as it is about times
Valid(parameters) == Cardinality(parameters.departure) + Cardinality(parameters.arrival) = 1

\* get_locations: the radius is doubled until there is a stop
Located(tree, location, radius) ==
    LET Within(k) == AllAround(tree, location, radius * 2 ^ k)
        Stops_(k) == Within(k) # << >> \/ radius * 2 ^ k > LargestRadius
        tries == CHOOSE k \in 0 .. LargestRadius : Stops_(k) /\ \A j \in 0 .. k - 1 : ~ Stops_(j)
    IN  Within(tries)

\* on foot a meter takes two seconds
AsLegs(found) ==
    [ i \in DOMAIN found |-> [stop |-> found[i].stop, seconds |-> 2 * found[i].distance] ]

\* without a departure there is no route, which is what a query without legs says
ServiceQuery(tree, parameters) ==
    IF Valid(parameters) /\ parameters.departure # {}
    THEN [ kind |-> "legs", departure |-> CHOOSE time \in parameters.departure : TRUE,
           origins |-> AsLegs(Located(tree, parameters.origin, parameters.walking_radius)),
           destinations |-> AsLegs(Located(tree, parameters.destination,
                                           parameters.walking_radius)) ]
    ELSE [kind |-> "legs", departure |-> 0, origins |-> << >>, destinations |-> << >>]

-----------------------------------------------------------------------------

RouteInit ==
    /\ \E network \in Networks :
          timetable = network.timetable /\ annotations = network.annotations
    /\ Init
    /\ route = {}
    /\ reply = {}
    /\ json = {}
    /\ Rounds!RoundsInit

\* the search
Search == Next /\ UNCHANGED << service, rounds >>

\* the end of the router's operator()
ReturnRoute ==
    /\ pc = "done"
    /\ path # << >>
    /\ route = {}
    /\ route' = { Respond!MakeRoute(timetable.lines, path) }
    /\ UNCHANGED << vars, annotations, reply, json, rounds >>

\* RouteHandler: what is not there is read all the same, and the master is gone
Annotate ==
    /\ route # {}
    /\ reply = {}
    /\ \E found \in route :
          reply' = { IF Respond!RouteKnown(annotations, found)
                     THEN [state |-> "sent", message |-> Respond!PBF(annotations, found)]
                     ELSE [state |-> "crashed"] }
    /\ UNCHANGED << vars, annotations, route, json, rounds >>

PrintReply ==
    /\ json = {}
    /\ \E answer \in reply :
          answer.state = "sent" /\ json' = { Respond!IPCResponseToJSON(answer.message) }
    /\ UNCHANGED << vars, annotations, route, reply, rounds >>

\* there is nothing left to be done with the path of the first router
Served == pc = "done" /\ (path = << >> \/ json # {} \/ \E answer \in reply : answer.state = "crashed")

RunRounds == Served /\ Rounds!Round /\ UNCHANGED << vars, service >>

RouteNext == Search \/ ReturnRoute \/ Annotate \/ PrintReply \/ RunRounds

RouteSpec == RouteInit /\ [][RouteNext]_<< vars, service, rounds >>

\* the search is a single thread that nothing suspends
FairRouteSpec == RouteSpec /\ WF_vars(Next)

-----------------------------------------------------------------------------
(* Properties                                                               *)

Transits(found) == { i \in DOMAIN found.segments : Respond!IsTransit(found.segments[i]) }

FirstOf(transit) == transit.stops[1]
LastOf(transit) == transit.stops[Len(transit.stops)]

\* walks may follow each other without a vehicle in between
Walkable(from, to) == from = to \/ \E i \in DOMAIN Walks(from, 0) : Walks(from, 0)[i].stop = to

IsWalk(transit) ==
    /\ transit.line = WALKING_TRANSFER
    /\ \A i \in 1 .. Len(transit.stops) - 1 : Walkable(transit.stops[i].id, transit.stops[i + 1].id)

\* some service of the line takes the stops in this order and at these times
IsRide(transit) ==
    \E trip \in Services(timetable.lines[transit.line], FirstOf(transit).id) :
        /\ Len(transit.stops) <= Len(trip.stops)
        /\ \A i \in DOMAIN transit.stops : transit.stops[i].id = trip.stops[i]
        /\ FirstOf(transit).departure = trip.departure
        /\ LastOf(transit).arrival = Visits(trip)[Len(transit.stops)].time

\* the search has not left the stop it started at, which is in the path twice
StandsStill == \E i \in 1 .. Len(path) - 1 : path[i] = path[i + 1]

\* the path rides on with the line it is on
RidesOn ==
    \E i \in 1 .. Len(path) - 1 :
        path[i].line = path[i + 1].line /\ path[i].line # WALKING_TRANSFER

(***************************************************************************)
(* The route that is handed out can be travelled: it begins at the station *)
(* of an origin, every transit is a run of a service of its line with all  *)
(* the stops in between, or a walk, what follows begins where one is or    *)
(* can walk to, and it ends at the destination the search has reached.     *)
(* Who changes vehicles without changing the line is given one transit, of *)
(* no service at all.                                                      *)
(***************************************************************************)
RouteIsJourney ==
    \A found \in route :
        LET transit(i) == found.segments[i]
            Follows(i, j) == i < j /\ \A k \in Transits(found) : k <= i \/ j <= k
        IN  \/ RidesOn
            \/ /\ \A i \in Transits(found) : IsWalk(transit(i)) \/ IsRide(transit(i))
               /\ \A i, j \in Transits(found) :
                     Follows(i, j) => Walkable(LastOf(transit(i)).id, FirstOf(transit(j)).id)
               /\ \E i \in Transits(found) :
                     /\ \A j \in Transits(found) : i <= j
                     /\ \E k \in DOMAIN query.origins :
                           timetable.station[FirstOf(transit(i)).id]
                           = timetable.station[query.origins[k].stop]
               /\ \E i \in Transits(found) :
                     /\ \A j \in Transits(found) : j <= i
                     /\ LastOf(transit(i)).id \in destination

(***************************************************************************)
(* The stops of a route come in the order of their times: nothing leaves a *)
(* stop before it is there, and nothing arrives before it has left, though *)
(* the departures are read from the labels of other stops, shifted along   *)
(* the path, and repeated where the line changes.  Who stands still is     *)
(* said to leave with the query, before the walk to the stop has ended.    *)
(***************************************************************************)
StopTimesInOrder ==
    \A found \in route :
        LET transit(i) == found.segments[i]
            InOrder(x, y) == x.arrival <= x.departure /\ x.departure <= y.arrival
        IN  \/ StandsStill
            \/ \A i \in Transits(found) :
                 /\ query.departure <= FirstOf(transit(i)).arrival
                 /\ \A k \in 1 .. Len(transit(i).stops) - 1 :
                       InOrder(transit(i).stops[k], transit(i).stops[k + 1])
                 /\ \A j \in Transits(found) :
                       i < j => InOrder(LastOf(transit(i)), FirstOf(transit(j)))

Points(segment) == Respond!Decode(Respond!Unescaped(segment.geometry))

\* the points of a shape from one of them to another
PartOfShape(points) ==
    LET table == annotations.geometry.segment_table
    IN  \E shape \in 0 .. Respond!Categories(table) - 1 :
          \E from \in 0 .. Respond!CategorySize(table, shape) - Len(points) :
             points = Respond!Part(table, shape, from, from + Len(points))

TimesAgree(printed, direct) ==
    /\ printed.departure = direct.depart
    /\ printed.arrival = direct.arrive
    /\ printed.duration = direct.duration

\* where the message has the departure for the arrival, the other answer has the arrival
ConnectionsAgree(printed, direct) ==
    /\ printed.name = direct.name
    /\ printed.departure = direct.depart
    /\ printed.arrival = direct.arrive \/ printed.arrival = direct.depart

TransitsAgree(printed, direct) ==
    /\ "stops" \in DOMAIN printed
    /\ [ i \in DOMAIN printed.stops |-> << printed.stops[i].name, printed.stops[i].arrival,
                                           printed.stops[i].departure >> ]
       = [ i \in DOMAIN direct.stops |-> << direct.stops[i].name, direct.stops[i].arrive,
                                            direct.stops[i].depart >> ]
    /\ Len(printed.connections) = Len(direct.connections)
    /\ \A i \in DOMAIN printed.connections :
          ConnectionsAgree(printed.connections[i], direct.connections[i])
    /\ \/ PartOfShape(Points(printed))
       \/ Points(printed) = [ i \in DOMAIN printed.stops |-> printed.stops[i].location ]

TransfersAgree(printed, direct) ==
    /\ "origin" \in DOMAIN printed
    /\ printed.origin.name = direct.from_station
    /\ printed.destination.name = direct.to_station
    /\ Points(printed) = << printed.origin.location, printed.destination.location >>

(***************************************************************************)
(* The answer that has gone through a message and the one that is printed  *)
(* at once tell the same: the times of the route, its leg, its segments    *)
(* and their stops, the names of stops and lines, the same segments in the *)
(* same order, and a geometry that reads as a part of a shape or as the    *)
(* places of the stops.  They are at odds over two things that http.md     *)
(* guarantees.  The arrival of a connection is its departure in the        *)
(* message (pbf.cpp:207) and its arrival in the other answer (api.cpp:288):*)
(* it has to be one of the two here.  The place of a stop is the stop's in *)
(* the message and nowhere in the other answer (api.cpp:270): it is        *)
(* compared with the geometry only.                                        *)
(***************************************************************************)
AnswersAgree ==
    \A found \in route, answer \in json :
        LET api     == Respond!API(annotations, found)
            leg     == answer.routes[1].legs[1]
            api_leg == api.routes[1].legs[1]
        IN  /\ answer.waypoints = api.waypoints
            /\ TimesAgree(answer.routes[1], api.routes[1])
            /\ TimesAgree(leg, api_leg)
            /\ Len(leg.segments) = Len(api_leg.segments)
            /\ \A i \in DOMAIN leg.segments :
                 LET printed == leg.segments[i]
                     direct  == api_leg.segments[i]
                 IN  /\ TimesAgree(printed, direct)
                     /\ printed.geometry = direct.geometry
                     /\ IF direct.mode = "transit"
                        THEN TransitsAgree(printed, direct)
                        ELSE TransfersAgree(printed, direct)

(***************************************************************************)
(* The router in rounds is never ahead of the other one: whatever its      *)
(* labels have been improved to, Dijkstra's search has reached the stop by *)
(* then, or has ended with a better answer.  Neither router walks on from  *)
(* where it has walked to, and whether it is there before the vehicle it   *)
(* could walk on from depends on the order of the search, so walks have to *)
(* join; and a line must not be overtaken on.                              *)
(***************************************************************************)
RoundsNeverEarly ==
    \A stop \in DOMAIN labels :
        \/ Reached(heap, stop) /\ Key(heap, stop) <= labels[stop].arrival
        \/ best <= labels[stop].arrival
        \/ ~ WalksJoin
        \/ \E i \in DOMAIN timetable.lines : ~ NotOvertaken(timetable.lines[i])

(***************************************************************************)
(* Whatever route is found, its lines have an annotation.                  *)
(* (line.cpp:10: "BOOST_ASSERT(line.base() < line_information.size())")    *)
(***************************************************************************)
LinesKnown ==
    \A found \in route :
        \A i \in Transits(found) :
            Respond!HasLine(annotations.lines, found.segments[i].line)

(***************************************************************************)
(* A route whose lines are known is answered, and the answer has a         *)
(* geometry for every segment, if it lies on a shape or not.               *)
(* (http.md:73: "| segment       | geometry      | guaranteed          |") *)
(***************************************************************************)
SegmentsHaveGeometry ==
    LinesKnown =>
        /\ \A answer \in reply : answer.state = "sent"
        /\ \A answer \in json :
              \A i \in DOMAIN answer.routes[1].legs[1].segments :
                  Points(answer.routes[1].legs[1].segments[i]) # << >>
==================================================================================
