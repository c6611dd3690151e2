-------------------------------- MODULE Dataset --------------------------------
(***************************************************************************)
(* gtfs::readCSV and what the constructor of service::Master makes of the  *)
(* gtfs::Dataset it returns: strings become ids, stops nobody reaches go,  *)
(* and close stops of one name are joined to a station.                    *)
(*                                                                         *)
(* A feed is a record of files, each a sequence of rows                    *)
(*   routes      [key, name]                                               *)
(*   stops       [key, name, location, parent], parent a set of a key      *)
(*   stop_times  [trip, sequence, stop, arrival, departure, interpolated]  *)
(*   trips       [key, route, shape], shape a set of a key                 *)
(*   shapes      [key, sequence, location]                                 *)
(*   transfers   [from, to, type, duration]                                *)
(* A file that does not exist is one without rows: nothing tells them      *)
(* apart.  Places lie on a line, a location is a number of meters.         *)
(***************************************************************************)
EXTENDS TimeTableFactory, AnnotationFactory, Dictionary

CONSTANTS
    Feeds,
    BucketCounts,   \* the numbers of buckets a std::unordered_multimap may have
    Proximity       \* how far a stop may be from its station, 100 in the code

VARIABLES
    feed,
    bucket_count,
    loading,     \* "csv", "filter", "connect", "loaded", "crashed" or "exited"
    bucket,      \* the next bucket to look at
    id_hash,     \* the keys of trips that have an id, in the order of their ids
    base_data    \* the dataset

dataset == << feed, bucket_count, loading, bucket, id_hash, base_data >>

IsTable(rows, columns) ==
    rows \in Seq(Range(rows)) /\ \A row \in Range(rows) : columns \subseteq DOMAIN row

\* Keys are unique, as GTFS has it, and so are locations, since the properties tell a stop
\* by its location; a stop has at most one station. The trips that are driven are listed:
\* where the code looks for the route of a trip, it takes for granted that there is one.
FeedAssumption ==
    \A files \in Feeds :
        /\ IsTable(files.stops, {"key", "name", "location", "parent"})
        /\ IsTable(files.stop_times, {"trip", "sequence", "stop", "arrival", "interpolated"})
        /\ IsTable(files.routes, {"key"})
        /\ IsTable(files.trips, {"key", "route", "shape"})
        /\ IsTable(files.transfers, {"from", "to"})
        /\ \A i, k \in DOMAIN files.stops :
              \/ files.stops[i].key = files.stops[k].key
              \/ files.stops[i].location = files.stops[k].location
              => i = k
        /\ \A row \in Range(files.stops) : IsFiniteSet(row.parent) /\ Cardinality(row.parent) <= 1
        /\ \A row \in Range(files.stop_times) :
              /\ row.sequence \in Int
              /\ row.trip \in { trip.key : trip \in Range(files.trips) }

BucketAssumption == BucketCounts \subseteq Nat \ {0}

ASSUME DatasetAssumption == FeedAssumption /\ BucketAssumption

-----------------------------------------------------------------------------
(* readCSV                                                                  *)

\* id_hash::get_id: a string seen before keeps its id
GetID(known, key) == IndexOf(known, LAMBDA other : other = key) - 1

Learn(known, keys) ==
    FoldLeft(LAMBDA ids, key : IF Contains(ids, key) THEN ids ELSE Append(ids, key), known, keys)

Column(rows, Field(_)) == [ i \in DOMAIN rows |-> Field(rows[i]) ]

\* the keys of an optional column, and their ids
OptionalKeys(sets) == FlattenSeq([ i \in DOMAIN sets |-> SetToSeq(sets[i]) ])
OptionalID(known, keys) == { GetID(known, key) : key \in keys }

\* trips get their ids from the stop times, which are read first
TripIDs(files) ==
    Learn(Learn(<< >>, Column(files.stop_times, LAMBDA row : row.trip)),
          Column(files.trips, LAMBDA row : row.key))

RouteIDs(files) == Learn(<< >>, Column(files.routes, LAMBDA row : row.key))

StopIDs(files) ==
    LET rows == Column(files.stops, LAMBDA row : << row.key >> \o SetToSeq(row.parent))
        read == Learn(<< >>, FlattenSeq(rows))
        used == Learn(read, Column(files.stop_times, LAMBDA row : row.stop))
    IN  Learn(used, FlattenSeq(Column(files.transfers, LAMBDA row : << row.from, row.to >>)))

ShapeIDs(files) ==
    Learn(Learn(<< >>, OptionalKeys(Column(files.trips, LAMBDA row : row.shape))),
          Column(files.shapes, LAMBDA row : row.key))

\* the sequence of a point of a shape is hashed like a name, that of a stop time is not
SequenceIDs(files) == Learn(<< >>, Column(files.shapes, LAMBDA row : row.sequence))

\* the names of routes and stops are what the dictionary has of a feed
Strings(files) ==
    FoldLeft(Convert, EmptyDictionary,
             Column(files.routes, LAMBDA row : row.name) \o Column(files.stops, LAMBDA row : row.name))

\* mutant of EnsureOrdered: the trips stay in the order of their file
EnsureOrderedButTrips(data) ==
    [ data EXCEPT !.stops  = StableSort(@, LAMBDA stop : stop.id),
                  !.routes = StableSort(@, LAMBDA route : route.id),
                  !.shapes = StableSort(@, LAMBDA shape : shape.id) ]

EnsureOrdered(data) ==
    [ data EXCEPT !.stops  = StableSort(@, LAMBDA stop : stop.id),
                  !.routes = StableSort(@, LAMBDA route : route.id),
                  !.trips  = StableSort(@, LAMBDA trip : trip.id),
                  !.shapes = StableSort(@, LAMBDA shape : shape.id) ]

ReadRows(files) ==
    LET routes == RouteIDs(files) stops == StopIDs(files) trips == TripIDs(files)
        shapes == ShapeIDs(files) strings == Strings(files) sequences == SequenceIDs(files)
    IN  [ dictionary |-> strings,
          routes |-> Column(files.routes, LAMBDA row :
              [id |-> GetID(routes, row.key), name |-> StringID(strings, row.name)]),
          stops |-> Column(files.stops, LAMBDA row :
              [ id |-> GetID(stops, row.key), name |-> StringID(strings, row.name),
                location |-> row.location, parent |-> OptionalID(stops, row.parent) ]),
          stop_times |-> Column(files.stop_times, LAMBDA row :
              [row EXCEPT !.trip = GetID(trips, @), !.stop = GetID(stops, @)]),
          trips |-> Column(files.trips, LAMBDA row :
              [ id |-> GetID(trips, row.key), route |-> GetID(routes, row.route),
                shape |-> OptionalID(shapes, row.shape) ]),
          shapes |-> Column(files.shapes, LAMBDA row :
              [ id |-> GetID(shapes, row.key), sequence |-> GetID(sequences, row.sequence),
                location |-> row.location ]),
          transfers |-> Column(files.transfers, LAMBDA row :
              [row EXCEPT !.from = GetID(stops, @), !.to = GetID(stops, @)]) ]

ReadCSV ==
    /\ loading = "csv"
    /\ \E data \in { EnsureOrdered(ReadRows(feed)) } : base_data' = data
    /\ id_hash' = TripIDs(feed)
    /\ loading' = "filter"
    /\ UNCHANGED << feed, bucket_count, bucket >>

-----------------------------------------------------------------------------
(* filter_unreachable_stops                                                 *)

\* everything that appears in a stop time or in a transfer
Served(data) ==
    { row.stop : row \in Range(data.stop_times) }
    \cup UNION { {row.from, row.to} : row \in Range(data.transfers) }

\* mutant of ReachableStops: transfers are not looked at
ReachableByVehicle(data) ==
    { row.stop : row \in Range(data.stop_times) }
    \cup UNION { stop.parent \ {stop.id} : stop \in Range(data.stops) }

\* mutant of ReachableStops: only a reachable stop keeps its station
ReachableStations(data) ==
    Served(data)
    \cup UNION { stop.parent : stop \in { row \in Range(data.stops) : row.id \in Served(data) } }

\* the stations of all stops, reachable or not
ReachableStops(data) ==
    Served(data) \cup UNION { stop.parent \ {stop.id} : stop \in Range(data.stops) }

\* the ids the kept stops get
Remap(stops) ==
    [ id \in { stop.id : stop \in Range(stops) } |-> IndexOf(stops, LAMBDA stop : stop.id = id) - 1 ]

\* looking up an id without a stop dereferences the end of the map
FilterUnreachableStops ==
    /\ loading = "filter"
    /\ LET stops   == base_data.stops
           kept    == Selected(stops, { i \in DOMAIN stops :
                                          stops[i].id \in ReachableStops(base_data) })
           mapping == Remap(kept)
           used    == Served(base_data) \cup UNION { stop.parent : stop \in Range(kept) }
       IN  \/ /\ used \subseteq DOMAIN mapping
              /\ base_data' = [ base_data EXCEPT
                     !.stops = Column(kept, LAMBDA stop :
                         [ stop EXCEPT !.id = mapping[@], !.parent = { mapping[id] : id \in @ } ]),
                     !.stop_times = Column(@, LAMBDA row : [row EXCEPT !.stop = mapping[@]]),
                     !.transfers = Column(@, LAMBDA row :
                         [row EXCEPT !.from = mapping[@], !.to = mapping[@]]) ]
              /\ loading' = "connect"
           \/ /\ ~ used \subseteq DOMAIN mapping
              /\ loading' = "crashed"
              /\ UNCHANGED base_data
    /\ UNCHANGED << feed, bucket_count, bucket, id_hash >>

-----------------------------------------------------------------------------
(* connect_stops_into_stations: one pass of its loop over the buckets of a  *)
(* hash table is one step.  The hash of a name is its id.                   *)

InBucket(stops, id) == { i \in DOMAIN stops : stops[i].name % bucket_count = id }

\* mutant of GroupClosePoints: stops that have a station are grouped as well
GroupAllClosePoints(stops, members) ==
    LET reference == stops[Min(members)]
        close == \A i \in members : Distance(reference.location, stops[i].location) <= Proximity
    IN  IF Cardinality(members) > 1 /\ close
        THEN [ i \in DOMAIN stops |->
                 IF i \in members /\ stops[i].id # reference.id
                 THEN [stops[i] EXCEPT !.parent = {reference.id}]
                 ELSE stops[i] ]
        ELSE stops

GroupClosePoints(stops, members) ==
    LET reference == stops[Min(members)]
        close == \A i \in members : Distance(reference.location, stops[i].location) <= Proximity
        alone == \A i \in members : stops[i].parent = {}
    IN  IF Cardinality(members) > 1 /\ alone /\ close
        THEN [ i \in DOMAIN stops |->
                 IF i \in members /\ stops[i].id # reference.id
                 THEN [stops[i] EXCEPT !.parent = {reference.id}]
                 ELSE stops[i] ]
        ELSE stops

\* mutant of ConnectStopsIntoStations: the loop goes on behind the last bucket
ConnectOneMore ==
    /\ loading = "connect"
    /\ base_data' = [base_data EXCEPT !.stops = GroupClosePoints(@, InBucket(@, bucket))]
    /\ bucket' = bucket + 1
    /\ loading' = IF bucket' > bucket_count THEN "loaded" ELSE "connect"
    /\ UNCHANGED << feed, bucket_count, id_hash >>

ConnectStopsIntoStations ==
    /\ loading = "connect"
    /\ base_data' = [base_data EXCEPT !.stops = GroupClosePoints(@, InBucket(@, bucket))]
    /\ bucket' = bucket + 1
    /\ loading' = IF bucket' = bucket_count THEN "loaded" ELSE "connect"
    /\ UNCHANGED << feed, bucket_count, id_hash >>

-----------------------------------------------------------------------------

DatasetInit ==
    /\ feed \in Feeds
    /\ bucket_count \in BucketCounts
    /\ loading = "csv"
    /\ bucket = 0
    /\ id_hash = << >>
    /\ base_data = [ dictionary |-> EmptyDictionary, routes |-> << >>, stops |-> << >>, stop_times |-> << >>,
                     trips |-> << >>, shapes |-> << >>, transfers |-> << >> ]

Load == ReadCSV \/ FilterUnreachableStops \/ ConnectStopsIntoStations

-----------------------------------------------------------------------------
(* Properties.  A stop is told by its location, whatever its id.            *)

Filtered == loading \in {"connect", "loaded"}

FeedStop(key) == CHOOSE row \in Range(feed.stops) : row.key = key

Denotes(id, key) ==
    /\ id + 1 \in DOMAIN base_data.stops
    /\ base_data.stops[id + 1].location = FeedStop(key).location

\* every stop the feed names is in its list of stops
Complete ==
    { row.stop : row \in Range(feed.stop_times) }
    \cup (UNION { {row.from, row.to} : row \in Range(feed.transfers) })
    \cup (UNION { row.parent : row \in Range(feed.stops) })
    \subseteq { row.key : row \in Range(feed.stops) }

\* The id of a stop is its place in the list, and wherever the feed names a stop, the
\* dataset has the id of that stop; loading fails on nothing but a feed that names a stop
\* it does not list. (dataset.hpp: "Stops, stop_times, and transfers are being rehashed
\* for their stop-ids")
ReferencesKept ==
    /\ Complete => loading # "crashed"
    /\ Filtered =>
        /\ \A i \in DOMAIN base_data.stops : base_data.stops[i].id = i - 1
        /\ \A row \in Range(feed.stop_times) :
             \E time \in Range(base_data.stop_times) :
                /\ id_hash[time.trip + 1] = row.trip /\ time.sequence = row.sequence
                /\ Denotes(time.stop, row.stop)
        /\ Len(base_data.stop_times) = Len(feed.stop_times)
        /\ \A i \in DOMAIN feed.transfers :
             /\ Denotes(base_data.transfers[i].from, feed.transfers[i].from)
             /\ Denotes(base_data.transfers[i].to, feed.transfers[i].to)

\* A stop of the feed is lost exactly if no vehicle stops there, no transfer names
\* it and no other stop calls it its station.
OnlyUnusedStopsGo ==
    Filtered =>
        { row \in Range(feed.stops) :
            ~ \E stop \in Range(base_data.stops) : stop.location = row.location }
        = { row \in Range(feed.stops) :
              /\ \A time \in Range(feed.stop_times) : time.stop # row.key
              /\ \A transfer \in Range(feed.transfers) : row.key \notin {transfer.from, transfer.to}
              /\ \A other \in Range(feed.stops) : other # row => row.key \notin other.parent }

\* A stop the feed gives no station gets at most one that is close and that is not
\* itself part of a station; a stop that has a station in the feed keeps it.
StationsClose ==
    Filtered =>
        \A row \in Range(feed.stops) : \A stop \in Range(base_data.stops) :
            stop.location = row.location =>
                IF row.parent = {}
                THEN \A id \in stop.parent :
                        LET station == base_data.stops[id + 1]
                        IN  /\ id # stop.id /\ station.parent = {}
                            /\ Distance(station.location, stop.location) <= Proximity
                ELSE /\ stop.parent # {}
                     /\ \A key \in row.parent, id \in stop.parent : Denotes(id, key)

\* Stops are joined to a station only if they have the same name.
\* (dataset.hpp: "This function allows to pass over the available stops and set parent
\* stations for stops that are close to each other and offer the same name.")
StationsOfOneName ==
    Filtered =>
        \A row \in Range(feed.stops) : \A stop \in Range(base_data.stops) :
            stop.location = row.location /\ row.parent = {} =>
                \A id \in stop.parent : base_data.stops[id + 1].name = stop.name
================================================================================
