--------------------------------- MODULE Master ---------------------------------
(***************************************************************************)
(* service::Master: services that are built from the base data when they   *)
(* are asked for the first time, and kept.  Building one may ask for       *)
(* others, and some take from the base data or change it.                  *)
(***************************************************************************)
EXTENDS Dataset

VARIABLES
    service,   \* for every accessor what it holds, if it was built
    calls      \* the accessors being executed, each called by the one before it

vars == << dataset, service, calls >>

\* what an accessor asks for; C++ leaves the order of arguments open
Needs ==
    [ timetable            |-> {},
      trip_offsets_by_line |-> {"timetable"},
      stop_to_line         |-> {"timetable"},
      coordinate_to_stop   |-> {},
      dictionary           |-> {},
      segment_table        |-> {},
      geometry_annotation  |-> {"trip_offsets_by_line", "stop_to_line", "timetable", "segment_table"},
      stop_annotation      |-> {},
      line_annotation      |-> {"trip_offsets_by_line"},
      api_annotation       |-> {"dictionary", "geometry_annotation", "stop_annotation",
                                "line_annotation"},
      pbf_annotation       |-> {"dictionary", "geometry_annotation", "stop_annotation",
                                "line_annotation"},
      components           |-> {"timetable", "stop_to_line"} ]

Services == DOMAIN Needs

Init == DatasetInit /\ service = [ name \in Services |-> {} ] /\ calls = << >>

Built(name) == service[name] # {}
Held(name) == CHOOSE value \in service[name] : TRUE

-----------------------------------------------------------------------------
(* The timetable                                                            *)

WalkRadius == 50

RouteOfTrip(data, id) == (CHOOSE trip \in Range(data.trips) : trip.id = id).route

\* the stop times route by route, trip by trip, in the order of their sequence
SortedTimes(data) ==
    StableSort(StableSort(StableSort(data.stop_times, LAMBDA row : row.sequence),
                          LAMBDA row : row.trip),
               LAMBDA row : RouteOfTrip(data, row.trip))

Rides(data) ==
    LET times == SortedTimes(data)
        ids == FoldLeft(LAMBDA seen, row : IF Contains(seen, row.trip) THEN seen
                                           ELSE Append(seen, row.trip), << >>, times)
    IN  [ i \in DOMAIN ids |->
            [ id |-> ids[i], route |-> RouteOfTrip(data, ids[i]),
              times |-> Selected(times, { k \in DOMAIN times : times[k].trip = ids[i] }) ] ]

\* the dataset as TimeTableFactory takes it
Input(data) ==
    LET ids == 0 .. Len(data.stops) - 1
        tree == CoordinateToStop(data.stops)
    IN  [ parent    |-> [ id \in ids |-> data.stops[id + 1].parent ],
          near      |-> [ id \in ids |-> AllAround(tree, data.stops[id + 1].location, WalkRadius) ],
          trips     |-> Rides(data),
          transfers |-> data.transfers ]

\* validate_input of the transfers throws
NoTransfers(table) == \A stop \in DOMAIN table.transfers : table.transfers[stop] = << >>

-----------------------------------------------------------------------------
(* The other services                                                       *)

\* what an accessor other than timetable() makes, out of the base data and of what
\* the accessors it needs hold
Value(name, data) ==
    LET table == Held("timetable").table
    IN  CASE name = "stop_to_line"        -> StopToLine(0 .. Len(data.stops) - 1, table.lines)
          [] name = "coordinate_to_stop"  -> CoordinateToStop(data.stops)
          [] name = "dictionary"          -> DecodeStrings(EncodeStrings(data.dictionary))
          [] name = "segment_table"       -> SegmentTable(data.shapes)
          [] name = "geometry_annotation" ->
                GeometryAnnotation(data.stops, data.trips, Held("trip_offsets_by_line"),
                                   table.lines, Held("segment_table"))
          [] name = "stop_annotation"     -> StopAnnotation(data.stops)
          [] name = "line_annotation"     ->
                LineAnnotation(Held("trip_offsets_by_line"), data.routes, data.trips)
          [] OTHER                        -> [ need \in Needs[name] |-> Held(need) ]

-----------------------------------------------------------------------------
(* The accessors                                                            *)

\* the constructor
LoadBaseData == Load /\ UNCHANGED << service, calls >>

\* someone asks for a service; the offsets of the trips are the master's own
Call(name) ==
    /\ name # "trip_offsets_by_line"
    /\ loading = "loaded"
    /\ calls = << >>
    /\ calls' = << name >>
    /\ UNCHANGED << dataset, service >>

Executing(name) == calls # << >> /\ Last(calls) = name

Missing(name) == { need \in Needs[name] : ~ Built(need) }

\* the accessor asks for what it needs
Ask(name) ==
    /\ Executing(name) /\ ~ Built(name)
    /\ \E need \in Missing(name) : calls' = Append(calls, need)
    /\ UNCHANGED << dataset, service >>

\* what is held already is returned
Return(name) ==
    /\ Executing(name) /\ Built(name)
    /\ calls' = Front(calls)
    /\ UNCHANGED << dataset, service >>

\* timetable() sorts the stop times, adds transfers to the base data and leaves the
\* offsets of the trips as its by-product; its error ends the program
BuildTimeTable ==
    /\ Executing("timetable") /\ ~ Built("timetable")
    /\ \E input \in { Input(base_data) } :
       \E table \in { TimeTable(input) }, produced \in { ProduceLines(input) } :
          \/ /\ ~ NoTransfers(table)
             /\ service' = [service EXCEPT !.timetable = { [table |-> table] },
                                           !.trip_offsets_by_line = { produced.trip_offsets }]
             /\ base_data' =
                  [base_data EXCEPT
                     !.stop_times = FlattenSeq(Column(input.trips,
                                                      LAMBDA trip : InterpolateTimes(trip.times))),
                     !.transfers = produced.transfers]
             /\ UNCHANGED << loading, calls >>
          \/ /\ NoTransfers(table)
             /\ loading' = "exited"
             /\ calls' = << >>
             /\ UNCHANGED << service, base_data >>
    /\ UNCHANGED << feed, bucket_count, bucket, id_hash >>

\* mutant of Taken: the annotation of the stops takes them over
TakenWithStops(name, data) ==
    CASE name = "dictionary"      -> [data EXCEPT !.dictionary = EmptyDictionary]
      [] name = "stop_annotation" -> [data EXCEPT !.stops = << >>]
      [] OTHER                    -> data

\* dictionary() releases the strings of the base data, segment_table() sorts the shapes
Taken(name, data) ==
    CASE name = "dictionary"    -> [data EXCEPT !.dictionary = EmptyDictionary]
      [] name = "segment_table" -> [data EXCEPT !.shapes = SortedShapes(@)]
      [] OTHER                  -> data

Build(name) ==
    /\ Executing(name) /\ ~ Built(name)
    /\ name \notin {"timetable", "trip_offsets_by_line"}
    /\ Missing(name) = {}
    /\ \E value \in { Value(name, base_data) } : service' = [service EXCEPT ![name] = {value}]
    /\ base_data' = Taken(name, base_data)
    /\ UNCHANGED << feed, bucket_count, loading, bucket, id_hash, calls >>

Access == BuildTimeTable \/ \E name \in Services : Ask(name) \/ Build(name) \/ Return(name)

\* the program is gone, with an error reported or without
Exited == loading \in {"exited", "crashed"} /\ UNCHANGED vars

Next == LoadBaseData \/ Access \/ Exited \/ \E name \in Services : Call(name)

Spec == Init /\ [][Next]_vars

-----------------------------------------------------------------------------
(* Properties                                                               *)

\* Type correctness.
TypeOK ==
    /\ loading \in {"csv", "filter", "connect", "loaded", "crashed", "exited"}
    /\ bucket \in 0 .. bucket_count
    /\ calls \in Seq(Services)
    /\ \A name \in Services : Cardinality(service[name]) <= 1
    /\ \A stop \in Range(base_data.stops) :
         stop.id \in Nat /\ stop.parent \subseteq Nat /\ Cardinality(stop.parent) <= 1

\* what an accessor will read from the base data once it gets there
Sources(name, data) ==
    CASE name = "timetable"           -> TimeTable(Input(data))
      [] name = "stop_to_line"        -> Len(data.stops)
      [] name = "coordinate_to_stop"  -> data.stops
      [] name = "dictionary"          -> data.dictionary
      [] name = "segment_table"       -> SegmentTable(data.shapes)
      [] name = "geometry_annotation" -> << data.stops, data.trips >>
      [] name = "stop_annotation"     -> data.stops
      [] name = "line_annotation"     -> << data.routes, data.trips >>
      [] OTHER                        -> << >>

\* Building one service does not change what another one will be built from: the
\* order in which they are asked for makes no difference.
OrderIrrelevant ==
    [][ loading = "loaded" /\ base_data' # base_data =>
          \A name \in Services, after \in {base_data'} :
              service'[name] = {} => Sources(name, after) = Sources(name, base_data) ]_vars

\* The trip serves the stops of the line one after the other.
Runs(key, stops) ==
    LET rows  == SelectSeq(feed.stop_times, LAMBDA row : row.trip = key)
        times == StableSort(rows, LAMBDA row : row.sequence)
    IN  \E first \in 0 .. Len(times) - Len(stops) :
            \A i \in DOMAIN stops : Denotes(stops[i], times[first + i].stop)

\* The points of a shape come in the order the feed gives them. (dataset.hpp: "for easy
\* access into the geometry of routes, this function converts the internal shape
\* information into an indexed vector of coordinates")
ShapesInOrder ==
    Built("segment_table") =>
        \A id \in 0 .. Categories(Held("segment_table")) - 1 :
            \E key \in { row.key : row \in Range(feed.shapes) } :
                Category(Held("segment_table"), id)
                = Column(StableSort(SelectSeq(feed.shapes, LAMBDA row : row.key = key),
                                    LAMBDA row : row.sequence),
                         LAMBDA row : row.location)

\* What an answer says of a line is true: the feed has a trip that runs along its stops,
\* on the route that gives the line its name, with the shape that gives it its geometry.
LinesAnnotated ==
    Built("api_annotation") =>
        \A line \in DOMAIN Held("line_annotation") :
            LET stops == Held("timetable").table.lines[line].stops
                Shapes(id) == { place.shape : place \in
                                  Range(PlacesOn(Held("geometry_annotation"), line, id)) }
            IN  \E trip \in Range(feed.trips), route \in Range(feed.routes) :
                    /\ Runs(trip.key, stops)
                    /\ route.key = trip.route
                    /\ GetString(Held("dictionary"), Held("line_annotation")[line]) = route.name
                    /\ \A id \in Range(stops) :
                         { Range(Category(Held("segment_table"), shape)) : shape \in Shapes(id) }
                         = { { shape.location : shape \in
                                 { row \in Range(feed.shapes) : row.key = key } } :
                             key \in trip.shape }
================================================================================
