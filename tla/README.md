# A TLA+ model of nepomuk

nepomuk routes through public transit. It reads a GTFS feed, builds a timetable from it and
answers two kinds of requests over a 0MQ socket: routes between two coordinates, and map tiles of
the network. A Node module wraps the client side of that socket.

This directory models it from the feed to the answer: reading a feed, the services built from it
on demand, the timetable and its factories, the two routers, the route that is made of a path and
the two ways it is printed, the components of the network and the tiles that show them, the protocol
between the service and its clients, and the threads of the Node module. TLC checks every module
on small instances. TLAPS proves, for all values of the constants, that loading a feed keeps what its
names refer to, that `LineTable::get` finds the next service, in which order the router works, that its
paths are journeys and none is faster, that the router in rounds is nowhere before it, that the routes made of the
paths are in order and can be travelled, that the components are right for every graph, and that
service and Node module keep the protocol a client relies on. Paths below are
relative to `src/` of the repository, so `src/ipc/service.cpp` is listed as
`src/src/ipc/service.cpp` in `PROJECT.json`.

Contents:

1. [The system](#1-the-system): components, state, operations, interactions, hard behaviour
2. [The modules](#2-the-modules): which one models what, and how
3. [The runs](#3-the-runs): what each shows, its bounds and its fairness
4. [The proofs](#4-the-proofs): what is proved, from what, and how
5. [Findings](#5-findings): where the code does not do what it says
6. [Plan](#6-plan): what could come next
7. [Not modelled](#7-not-modelled)

## 1. The system

```
 Node process                                   ipc-provider
 +--------------------------+                   +----------------------------------------------+
 | Engine::request          |   0MQ REQ   REP   | Service::listen                              |
 |   worker (libuv pool) ---+--> RequestHandler ~~~> handle_request                            |
 |   callback (main loop) <-+--                 |      service::Route      service::Tile       |
 +--------------------------+                   |        |  CoordinateToStop                   |
                                                |        v                                     |
                                                |      TimeTableDijkstra --- KAryHeap          |
                                                |        |          \                          |
                                                |      LineTable     StationTable, transfers   |
                                                |        ^                                     |
                                                | Master: TimeTableFactory <- Dataset <- GTFS  |
                                                +----------------------------------------------+
```

### Components

| component | state it keeps | operations | what makes it correct |
|---|---|---|---|
| **Router** `navigation/algorithm/timetable_dijkstra.cpp` | a heap of labels, the best arrival, the destination reached | `operator()` (by stops, by legs), `relax_one`, `reach`, `extract_path` | settles in order, never touches a settled label, labels are journeys that exist, the answer is the earliest one |
| **Search heap** `include/tool/container/kary_heap.hpp` | priority queue, index, handles | `insert`, `decrease_key`, `delete_min`, `reached`, ... | a handle is used only while it is live; what left the queue stays reached |
| **Line tables** `timetable/line_table.cpp`, `departure_table.cpp`, `duration_table.cpp`, `stop_table.cpp`, `date/time.cpp` | departures sorted by begin, the ways between the stops | `get(stop, time)` | the next vehicle at a stop is not missed and not one that is gone |
| **Timetable construction** `timetable/*_factory.cpp`, `search/stop_to_line_factory.cpp` | lines, trip offsets and transfers while they grow | `produce` | no trip is lost, tables of one line belong together, times are those of the feed |
| **IPC service** `ipc/service.cpp`, `apps/ipc-provider.cpp` | the socket, the request being handled | `listen` | every request is answered once, by its own answer; the kill switch ends it |
| **Request handlers** `ipc/request_handler.cpp` | a socket that is sending or receiving | `operator()`, `check_alive`, `send_shutdown` | comes back with the answer to its request |
| **Route service** `service/route.cpp`, `route_parameters.cpp` | none | `operator()` | ends, whatever the radius |
| **Node bindings** `bindings/node.cpp`, `bindings/workers.cpp` | workers: queued, on a thread, completed | `request`, `send_shutdown`, `Execute`, the callbacks | each callback once, with its own outcome; the main loop never blocks |
| **Master service** `service/master.cpp` | services, built when first asked for | the getters | whoever asks first gets what everybody gets |
| **Dataset preprocessing** `gtfs/dataset.cpp`, `gtfs/read_csv.cpp` | the dataset, rewritten in place; the ids strings have got | `readCSV`, `ensure_ordered`, `filter_unreachable_stops`, `connect_stops_into_stations`, `shapes_as_indexed_vector` | an id names the same thing before and after; only stops nobody uses go; stations are close and of one name |
| **Route annotation** `navigation/routing_algorithm.cpp`, `segment.cpp`, `leg.cpp`, `route.cpp` | none | `make_route`, `unpack_path`, the accessors | the route can be travelled; its times are in order |
| **RAPTOR-like router** `navigation/algorithm/timetable.cpp` | states and labels by round, the bound | `operator()`, `relax`, `extract_path` | never ahead of the router (not used by the service) |
| **Strongly connected components** `include/algorithm/scc.hpp`, `timetable/graph_adaptor.cpp`, `include/tool/container/forward_star_graph.hpp` | a graph under construction, the edges counted for it; the two stacks of the search | `allocate`, `add_node`, `add_edge`, `adapt`, `compute` | both passes over the timetable see the same edges, components are the classes of mutual reachability, the search ends |
| **Annotation and answers** `annotation/*`, `adaptor/ipc_response_to_json.cpp`, `geometric/polyline.cpp`, `include/tool/io/string.hpp` | tables by line and stop | `produce`, `get`, `PBF`, `API`, `IPCResponseToJSON` | whatever is looked up is there; both answers to one route tell the same |
| **Tiles** `service/tile.cpp`, `tool/container/mapbox_vector_tile.cpp`, `geometric/bounding_box.cpp` | layers with their tables of keys and values | `make_tile`, `add_line`, `add_point`, `encode_features` | a reader sees the network around the tile |
| **Containers** `include/tool/container/*`, `tool/container/dictionary.cpp`, `adaptor/dictionary.cpp` | vectors by category, hashes, string tables | `push_back`, `crange`, `add_string`, `encode`, `decode_into` | maps |
| **Coordinate look-up, geometry, import** | none | | functions of their input |

### How they interact

* A Node caller calls `Engine::request` on the main loop. Parameters that do not fit throw there.
  Otherwise a worker with a `RequestHandler`, that is a 0MQ context and socket, of its own is
  queued for a thread of the libuv pool. `Execute` sends and then blocks in `recv`. Its end takes
  the worker back to the main loop, which calls the callback and destroys the worker, and with it
  the context. Destroying a context waits until the message has left the socket.
* The service is one thread: receive, handle, send. A REP socket takes the requests of its peers in
  turns. The kill switch leaves the loop without an answer; what the socket had received by then is
  dropped with it. Clients have no timeout.
* A route request is looked up in the R-tree (stops around a coordinate), and the router searches
  from several stops to several stops. The router asks `StopToLine` for the lines of a stop and
  each `LineTable` for the next trip, walks over transfers and within stations, and reads the path
  out of the labels at the end.
* `make_route` turns the path into legs and segments, with the stops that were only passed and the
  departures that the labels of later stops hold. The service annotates the route with names and
  geometry and sends it as a message; the other end prints it. A debug tool prints it at once.
* `Master` builds what the services need on first use, out of base data that they share. For the
  components it adapts the timetable to a graph and searches that; tiles show the result.

### What is hard about it

* The search overwrites labels while it runs a trip and settles stops only once; the heap gives out
  handles that are null after `delete_min`. Whether such a handle is ever used depends on the
  *times in the tables*, that is on the factories: all of them subtract times in unsigned words.
* `LineTable::get` has to look back by the longest way from the first stop, and forth again by the
  way of one departure.
* The search stops early, and queries between two stops decide by one stop and answer with another.
* A path says neither what was passed nor where one changes. `make_route` tells rides, walks, changes
  and standing still apart by the lines of two entries, and shifts departures along the path in place.
* What an annotation looks up is guarded by an assertion at most, and the tables end at the last line,
  stop or shape that something was known of.
* The router in rounds breaks off at a bound while the round is being extended, and keeps two times of
  one transfer.
* Requests of many clients meet a service that is shut down, restarted, hangs or dies between any
  two steps.
* Ids are indexes: of stops after a removal, of trips by the offsets a by-product of the timetable
  holds, of strings in a dictionary that is emptied once it was read. Services are built on demand, in any order,
  from a dataset that some of them change.
* Ids of strings depend on the order in which files and rows are read, and sorting by ids is something
  else than sorting by what they stand for.
* The search for components is an iterative rewriting of a recursive algorithm. It leaves a loop over
  edges with a `break` and resumes it at the same edge; it takes low links where the textbook takes
  depths; and its frames are a copy of what lies on another stack.
* A bounded pool of threads, each blocked for as long as an answer takes, and a main loop that may
  be blocked by a destructor.

`PROJECT.json` lists every hazard with its line and the properties that watch it.

## 2. The modules

| module | models | lines of code behind it |
|---|---|---|
| `Lists` | what the code asks of `std::sort`, `std::copy_if` and `std::find_if` | `<algorithm>`, as the code uses it |
| `Folding` | theorem: what every step of a fold keeps holds of the fold | |
| `LineTable` | `date::Time`, the stop, duration and departure tables, `LineTable::get` | `timetable/line_table.cpp` and the tables |
| `LineTableProofs` | theorems about `LineTable::get`, lemmas about lists, sorting and numbers | |
| `KAryHeap` | the heap | `kary_heap.hpp` |
| `LineTableFactory` | `LineTableFactory`, `StopTableFactory`, `DurationTableFactory` | `timetable/line_table_factory.cpp`, ... |
| `TimeTableFactory` | `TimeTableFactory`, stations, transfers, `StopToLine` | `timetable/timetable_factory.cpp`, ... |
| `TimeTableDijkstra` | the router, a state machine over the above | `navigation/algorithm/timetable_dijkstra.cpp` |
| `TimeTableDijkstraProofs` | theorems about its order, its labels, paths and answers | |
| `TimeTableRounds` | the router in rounds, a state machine | `navigation/algorithm/timetable.cpp` |
| `Route` | `make_route` and the accessors of routes | `navigation/routing_algorithm.cpp`, `segment.cpp`, ... |
| `RouteResponse` | message, its printer, and the direct printer | `annotation/pbf.cpp`, `annotation/api.cpp`, `adaptor/ipc_response_to_json.cpp` |
| `RouteService` | from a request to both answers; composes the four above | `service/route.cpp`, `ipc/service.cpp` |
| `RouteServiceProofs` | theorems: it implements the router, the two routers compared, the times of a route | |
| `RouteJourneyProofs` | theorem: a route can be travelled | |
| `Annotation`, `AnnotationFactory` | the annotations and what makes them | `annotation/geometry.cpp`, `geometry_factory.cpp`, `line_factory.cpp`, ... |
| `Geometric`, `Polyline` | places, boxes and look-up; points as escaped text | `geometric/*.cpp`, `search/coordinate_to_stop.cpp`, `tool/io/string.hpp` |
| `IndexedVector`, `Dictionary` | the containers | `indexed_vector.hpp`, `dictionary.cpp`, `adaptor/dictionary.cpp` |
| `RequestReply` | what a client is promised (abstract) | |
| `IPC` | service, request handlers and 0MQ | `ipc/service.cpp`, `ipc/request_handler.cpp` |
| `Bindings` | the Node module on top of `IPC` | `bindings/node.cpp`, `bindings/workers.cpp` |
| `BindingsProofs` | theorems about `IPC` and `Bindings` | |
| `ForwardStarGraph` | the adjacency array and its factory | `forward_star_graph.hpp`, `forward_star_graph_factory.hpp` |
| `TarjanSCC` | the search for components, a state machine | `include/algorithm/scc.hpp` |
| `GraphAdaptor` | from a timetable to a graph, in two passes | `timetable/graph_adaptor.cpp` |
| `VectorTile`, `TileService` | tiles and their encoding | `mapbox_vector_tile.cpp`, `bounding_box.cpp`, `service/tile.cpp` |
| `Connectivity` | adaptor, search and tiles in a row | `Master::components`, `service::Tile` |
| `ConnectivityProofs` | theorems about the search for components, the adaptor, and what the components mean | |
| `Dataset` | reading a feed, filtering and grouping its stops | `gtfs/read_csv.cpp`, `gtfs/dataset.cpp`, `id_hasher.hpp` |
| `Master` | the services that are built on demand | `service/master.cpp` |
| `MasterProofs` | theorems about loading and building | |
| `SmallNetworks` | datasets, queries and requests for the runs | |
| `MC*` | instances for TLC | |

Conventions: `boost::optional` and a pointer that may be null are sets with at most one element;
indices count from 1; ids are numbers where the code orders by them. An operator whose comment
starts with "mutant of" is a plausible slip in the operator below it. It is used by nothing; put in
the place of that operator it makes a property fail, which shows that the property bites.

### Tables and factories

Times are words of `Width` values. `Plus` and `Minus` wrap as the code does, because the code
depends on it: `DurationTableFactory` computes a negative number whenever a vehicle arrives at its
first stop before it leaves it.

The factories are operators from a dataset to a timetable. They are used by every router run, so
the router never sees a table the program cannot build. They keep the order in which trips, routes and
departures are sorted, the interpolation of empty stop times, the cut of a trip at a stop it serves
again with the transfer that stays in the vehicle, the reuse of duration tables and lines, and the
three sources of transfers.

### Router

One behaviour is one query. The two overloads of the search differ in what they do with a settled
stop (`Inspect`) and with the end (`Finish`); a query has a `kind`. A step is one pass of one of
the nested loops:

| action | code |
|---|---|
| `AddOrigin`, `AddStart` | `add_stops`: every stop of the station of an origin is reached |
| `Settle` | loop head and `relax_one` up to its loop over lines |
| `BreakEarly`, `HeapEmpty` | the two ends of the loop, then `reached` |
| `TraverseLine` | `traverse_line`: the next trip of one line |
| `RideTo` | `run_trip`: the label of the next stop, then what can be walked to from it |
| `WalkTo` | `reach` on one of these walks |
| `ExtractPath` | one pass of the `do ... while` of `extract_path` |

What a loop still has to do is a work list (`origins`, `starts`, `lines`, `visits`, `walks`), so
that labels are visible between any two calls of `reach`, which is where handles go stale.
`decrease_key` on the null handle of a settled stop leads to `pc = "crashed"`. In the code this is
undefined behaviour; nothing is claimed after it.

One simplification: the code skips the walk from a stop to itself within its station, the model
walks it in no time, which never improves a label.

### From the request to the answer

`RouteService` extends the router and interleaves nothing with it: what it adds comes before (`ServiceQuery`, a
request with coordinates becomes a query) and after. `ReturnRoute` is `make_route`, `Annotate` and
`PrintReply` are the message and its printer, `RunRounds` puts the query to the router in rounds once
everything else is done. `API`, the second printer, is an operator: the property compares it with the
answer that has been printed. Looking up what is not there is `state = "crashed"`.

`Route` works on the path the router has extracted, entry by entry: `UpdateDeparturesAndArrivals`,
`SetFirstLine` and then `AddEntry`, which is one pass of the loop with its cases in order.

In `TimeTableRounds` a step adds an origin, sorts a round (`StartRound`), relaxes one state with all of its lines
(`RelaxState`), breaks a round off, or takes one pass of `extract_path`.

Places lie on a line. A coordinate is a number of meters, a tile an interval, a
polyline has one difference for a point, and a line that is clipped by a tile may leave and enter it again. That keeps everything
the code does with points (the order along a shape, escaping, zigzag, the cursor, the parts of a
clipped line) and leaves out the projection and the second coordinate, which is treated like the first.

### IPC

Every client has one message at most. `unsent`, `received`, `current` and `reply` are the places
it can be in: the pipe of the client's socket, the socket of the service, the hands of the service,
the way back. `Transmit` belongs to the threads of 0MQ and goes on while the service handles
something else. `Call`/`Return` are the two halves of `do_request`; `send_shutdown` is a `Call`
after which the socket cannot be used again ("spent"). `Receive`/`Respond`/`Break`/`Hang`/`Crash`
are the passes of `listen`. `Answers` is `handle_request` with its validation, and `Routed` the
outcome of the route service: a search that finds something, does not, or dies, and a radius of
zero that is doubled forever; `TileOutcomes` is what making a tile may come to, and it may die as well (`geometry.cpp:28`). Start models that whoever operates the service starts it again on
the same address.

`RequestReply` says what a client may rely on without any of that: a call, then an answer out of
`Promise(request)`, or none. `IPC` implements it (`Implements`): the `dialogue` of the abstract module is what
the clients know of their last call, whatever lies in pipes and sockets and however often they have called
(`INSTANCE RequestReply WITH dialogue <- Dialogue`).

### Bindings

Extends `IPC`: every worker is a client that makes one call. `Request` is a call of the engine
(which throws unless `Adapted`), `Execute` and `Executed` are the two ends of the time a worker
spends on a thread, `Callback` and `Destroy` happen on the main loop, one worker at a time. While
a worker is being destroyed the loop does nothing else.

### Components

`TarjanSCC` keeps the variables of `compute`. A state that `node_state` has not been given yet
(maximal depth) is a node outside of its domain, and so is a node without a component. The head of a stack is the end of a sequence. The
steps are the outer loop (`StartSearch`), and one edge of the inner one: a `break` with a new frame
(`Descend`), an edge to a node seen before (`FollowEdge`), or no edge left (`Backtrack`). A
root takes its component off the stack in one step; the loop that does it touches nothing else.

`GraphAdaptor` goes through the stops twice, as `do_stuff_on_graph` does: `CountStop`, then
`AllocateGraph`, then `BuildStop`, one step for all edges of a stop. A `SizeError` of the factory is `pass = "thrown"`;
nobody looks at the graph after it, so that it does not matter behind which edge of the stop it is thrown. The loops that skip some elements of a list are `Selected`.
`Connectivity` extends both and runs them in a row: the adaptor works on `building`, a graph of its own,
which becomes the `graph` of the search when it is returned; until then the search has none.

When the components are there, `HandleTile` makes one tile. A layer is a record of features, keys and
values, encoded as the code does; `TileTellsBox` decodes it again as a reader of vector tiles does, who goes on from
where the last part of a line ended (`Read`).

What the components should be is defined without the algorithm: `Reaches` in a graph, `Journey` in
a timetable, both as membership in every closed set.

### Dataset and Master

A feed is a record of the files the services need, with the rows in the order of the file. `ReadCSV`
gives ids to strings in the order in which the code meets them: a list of the strings seen, an id is a
place in it (`GetID`, `Learn`). `FilterUnreachableStops` crashes where the code looks up an id behind the
end of a map. `ConnectStopsIntoStations` is one pass of the loop over buckets; the standard library hashes an
id to itself and chooses the bucket by its remainder, for some number of buckets. Places lie on a
line and a location is a number of meters, which is all the distances need.

In `Master`, `service` holds for every accessor nothing or the value it keeps, and `calls` is the stack of
accessors being executed. An accessor asks for one of the services it needs (`Ask`; C++ leaves open in
which order arguments are evaluated), builds its own from what they hold and from the base data (`Build`,
`BuildTimeTable`), and returns (`Return`). What building a service does to the base data is part of
the step (`Taken`). `trip_offsets_by_line` is private: only other accessors call it.

## 3. The runs

Passing runs:

| run | instance | checks |
|---|---|---|
| `router` | every network of at least three of seven trips and six with trips that overtake, are just caught or ride on, with and without a station; queries of both kinds and requests between coordinates; `Width` 256 | `HandlesLive`, `SettledInOrder`, `SettledIsFinal`: the order of the search. `LabelsSound`, `PathSound`, `BoardsInTime`: labels and paths are journeys. `NoRideIsFaster`: the answer against all sequences of services and the walks after them, looked up in the tables and not through `get`. `RouteIsJourney`, `StopTimesInOrder`: what `make_route` hands out can be travelled. `AnswersAgree`: the message, printed, says what the direct printer says, but for the arrival of a connection. `RoundsNeverEarly`: the second router. `Termination`. `RouterInv` and `PathInv` of the proofs, whose assumptions TLC evaluates on these networks |
| `ipc` | two clients, two calls each, all fourteen kinds of requests, two starts | `IPCInv` of the proofs, `OneInFlight`, `NothingLost`, `OneKillOneStop`, `Implements`, `AnsweredUnlessGone` |
| `bindings` | three workers, two threads | `BindingsInv` of the proofs, `OneStage`, `CallbackTruthful`, `EveryCallback`, `ShutdownArrives`, `LoopReturns` |
| `components` | every selection of seven trips, every graph with three nodes with its edges in both orders, and those with four nodes, no loops and four or five edges; six tiles | `AllocationExact`: the two passes agree. `ComponentsStrong`, `SinksFirst`, `ComponentIsFinal`: the components. `ComponentsOfJourneys`: two stops share one exactly if there are journeys both ways. `TileTellsBox`: what a reader of a tile sees. `ComponentsComplete`. `ConnectivityInv` of the proofs, whose assumptions TLC evaluates on these timetables |
| `master` | six feeds, five or seven buckets, the accessors in every order | `ReferencesKept`, `OnlyUnusedStopsGo`, `StationsClose`: loading. `LinesAnnotated`: what is said of a line is true of a trip of the feed. `OrderIrrelevant`: the services |

Seven more runs, `schedule`, `boarding`, `walking`, `shapeless`, `unanswered`, `stations` and `shapes`,
find a property violated; see [Findings](#5-findings).

**Bounds.** The seven trips were chosen for what they do to the search: a slower vehicle behind a
faster one on the same line (two duration tables and a lookback longer than the way of the vehicle
taken), feeders that are just caught and just missed, a direct line that loses against a change, a
line against the grain, a trip that returns to its first stop (cut in two lines with a transfer
that stays in the vehicle), an empty stop time, stops close enough for a walk. All selections of
three or more of them make the search settle stops in different orders, improve labels of queued stops and stop early.
Trip 10 overtakes the service before it on its line, trip 11 is caught only if the transfer takes no time, which is
what the two times of a transfer in the router in rounds are about. Trips 12 and 13 are of one line, and a ride on both
of them looks faster than a ride on either (see [Findings](#5-findings)). Trips 8 and 9 stand at
their first stop; `boarding` is about them. No time of a moving network comes close to the end of
the clock, as in the code, where a day has 86400 of 2^32 seconds; the words that *wrap* are the
negative differences of the standing vehicles. `StationWalk`, `ChangeTime` and `LeastTransfer` are 4, 1 and 2 for 120, 30 and 60 seconds:
shorter and longer than the waits at the stops. `LargestRadius` is 20 for 1000 meters, so that a request finds stops at once, after
doubling, or not at all. Two of the trips have shapes, the points of which come out of order, and one line has
a number above that of the shapes.

Two clients are enough for one to wait behind another and for answers to be mixed up, two calls for a
second call to meet leftovers of the first, two starts for a restart and for two kill switches that stop
two services. A pool of two threads is smaller than the number of workers, which is the interesting
case. Three nodes with loops and four without are enough for components within components in the
search tree, edges across to finished components and back to several depths of the stack; beyond that
the proofs hold for every graph. The tiles are one with most of the network, halves of it, one that lines only
cross, and two that are invalid. Keys and locations of a feed are unique, a stop has at most one station, and the trips of the stop times are listed
(`FeedAssumption`; the properties tell a stop by its location). The feeds of `master` have a trip nobody drives, trips that
come in another order in their file than in the stop times, a trip that becomes two lines, stops nobody serves
with and without a station to keep, stops of one name close together, with a station in the feed or one
too far away, no transfer at all (an error ends the program) and a stop that is not listed (a crash). Trips
without a row, trips without a route and shapes without points are left out: the code indexes vectors with
their ids unchecked. `MaxCalls` and `MaxStarts`
are the only bounds in guards; a behaviour at the bound may stop, hence `CHECK_DEADLOCK FALSE` in
the IPC runs. Clients that are done, and a service that hung, stop there in the code as well.

**What the properties are conditioned on.** `NoRideIsFaster` holds for networks whose lines are not
overtaken on (`NotOvertaken`: whatever leaves later is nowhere earlier, from whichever stop on), as `line_table.hpp:26` demands; nothing enforces it, and trips that overtake join a
line with their stops all the same. It compares with all sequences of rides. Where walks join (`WalksJoin`: where one
can walk in two walks, one can walk at once and no slower), each of them may be followed by a walk, but not from a stop the query could have started at
by then: nobody walks on from where the query begins. It says nothing of a destination whose leg ends beyond the end of the clock, where `best` wraps. `RoundsNeverEarly` speaks of the same lines, of networks where walks join, and not of queries the first router ends
early with a better answer. `StopTimesInOrder` leaves out paths with one entry twice (`StandsStill`), `RouteIsJourney`
those on which two rides with one line follow each other (`RidesOn`); what happens there is listed below the findings. `AnswersAgree` takes for the
arrival of a connection its arrival or its departure, and compares the place of a stop with the geometry only: the two answers differ there.
Of a line that leaves a tile and comes back, `TileTellsBox` asks for the first part, and for nothing of the others: a reader draws them in the wrong
place. It goes on from the first place a line serves a stop at.

**Fairness.** The router, and the adaptor with the search for components, are sequential programs:
weak fairness for their next step. Nobody has to ask for a tile. In `IPC`, the service, the operator
who restarts it, and the threads of 0MQ each keep running: weak fairness for their steps. `Receive`
is strongly fair for each client, because a REP socket takes the pipes of its peers in turns
(fair queuing), so that no client waits forever behind the others although the step that takes its message is
disabled whenever the service is handling something. Nothing makes a client call. In `Bindings`
the pool takes its workers first in, first out, and its threads and the main loop keep running.

## 4. The proofs

Eight modules hold theorems. What follows from what:

```
                 +--> MasterProofs                           Folding
                 |    (loading, building)                       |
 LineTableProofs +--> TimeTableDijkstraProofs --> RouteServiceProofs --> RouteJourneyProofs
 (get, lists)    |    (order, labels, paths,      (rounds, times of      (routes can be
                 |     answers)                    a route)               travelled)
                 +--> ConnectivityProofs                     BindingsProofs
                      (components, adaptor, journeys)        (protocol, workers)
```

`FoldKeeps` in `Folding` says what a loop over a list has in common with a specification: what holds before, and is kept by
every element, holds in the end. The module is instantiated with the step of a fold and with what it keeps. The prover cannot
instantiate a rule of induction for that, but the least number of elements after which the fold is something else is a
number like any other, and there is none. The proofs about `make_route` and `readCSV` rest on it.

### The line table

`LineTableProofs`, for every line that is `Orderly`: departures are single services (`end = begin`, no
headway, which is all `LineTableFactory` makes), sorted, no service passes the end of the clock, and the
`time_deltas` are no shorter than the way of any of them.

| theorem | states |
|---|---|
| `GetIsNextService` | `get(stop, desired)` is the service that leaves first among all that can be caught at the stop, and nothing if none can |
| `NoTripHasLeft` | it leaves no earlier than desired |
| `SomeTripIsFound` | if a service can be caught, one is handed out |

**Argument.** What `get` asks a departure for is its begin if the service can be caught, and infinity otherwise
(`LeavesAt`). The lookback goes as far as the longest way, so the departures that
`lower_bound` skips cannot be caught (`ListsCatchable`), and leaving them out changes no minimum. "First" means at
the first stop of the line: a service that overtakes is not handed out although it arrives
earlier. That is how the code chooses, and why `NoRideIsFaster` speaks of lines without overtaking.

### The router

`TimeTableDijkstraProofs`, for every set of stops, timetables and queries:

| theorem | states |
|---|---|
| `Invariance`, `SearchInvariant` | `Spec => []IInv`, the inductive invariant, and `[]SearchInv`, the part of it that is not about the input |
| `TypeCorrect` | `Spec => []TypeOK` |
| `HandlesStayLive` | `Spec => []HandlesLive`: no null handle reaches the priority queue |
| `SettlesInOrder` | `Spec => []SettledInOrder` |
| `SettledLabelsAreFinal` | `Spec => SettledIsFinal`: no step changes the label of a settled stop |
| `PathInvariant` | `Spec => []PathInv`, the second inductive invariant |
| `LabelsAreJourneys` | `Spec => []LabelsSound`: every label is a start, a ride some line offers at its parent, or a walk |
| `BoardedInTime` | `Spec => []BoardsInTime` |
| `PathsAreJourneys` | `Spec => []PathSound`: the path starts at a start, ends at the answer, never goes back in time |
| `RouterInvariant` | `Spec => []RouterInv`: `SearchInv`, and `RelaxInv`, the third inductive invariant |
| `WalksAreTaken` | `Spec => []WInv`, the fourth inductive invariant of the search |
| `AnswerIsEarliest` | `Spec => []NoRideIsFaster`: where lines are not overtaken on, no sequence of rides arrives before the answer. If walks join, that includes a walk after each ride, except from where the query could have started by then. If such a sequence arrives there is an answer |

**Assumptions.** `WidthAssumption` (a word has at least two values), `InputAssumption` (the shape of timetables
and queries: what the factories and the route service build), `GroupedAssumption` (the stops of a station belong
to it) and `ScheduleAssumption`: lines are in order in the sense above and go through the stops they are
listed for, and from the stop on neither a visit nor the walk after it lies before the departure or beyond the end of the clock. The last one is a
real condition on the tables. It fails for vehicles that stand at their first stop, whose prefix is negative;
there the theorems fail too, and `boarding` shows it. `RouterInvariant`, `WalksAreTaken` and `AnswerIsEarliest` need `CompleteAssumption` as well: there
are finitely many stops, a station lists all of its stops (`TimeTableFactory` puts every stop into the list of
its station), and services visit stops. TLC evaluates all of them on the instances of `router`.
That `get` is punctual is not assumed but follows (`Punctuality`) from `NoTripHasLeft`.

**The order.** Neither `HandlesLive` nor `SettledInOrder` is inductive. The reason they hold is
that the time of the last settled stop, `at.time`, splits the labels: settled ones are not above
it (`SettledBelow`), queued ones not below (`QueuedAbove`), and everything the loops still have to reach
lies ahead of it (`VisitsAhead`, `WalksAhead`). A label reached from there can lower a queued label
only. `ReachOrder` says so for one call of `reach`, the heart of the proof. `LinesOfStop` connects the work list with
the stop whose departures the assumption speaks of, `Starting` takes care of the time before the
first stop is settled, and the rest of `IInv` (`ParentsReached`, `DestinationReached`,
`PathReached`, ...) keeps `extract_path` inside the labels, without which even `TypeOK` fails. One lemma per
action shows that it keeps `IInv`; `SettledLabelsAreFinal` follows from the same lemmas.

**The labels.** A label refers to its parent, and labels change after others were derived from them. `LabelsFit`
holds all the same, because a label that changes only gets earlier, and a ride is derived from a settled label, which does
not change any more: `FitStays` says that what is `Later` leaves journeys as they are, and
`ReachFits` that a step need only answer for the one label it writes. For that the work lists have to carry the reason
of what is in them: `OnTrip` (the stops ahead belong to a trip that the line of the settled stop offers at its
time), `OnFoot` (the walks are those of the stop just improved) and `StartsOfQuery`. `PathOfLabels` says that what was extracted is the chain
of parents; since keys do not grow from a label to its parent, the path is in the order of time.

**The answer.** `RelaxInv` is what Dijkstra's argument needs of a search that stops in the middle. Whatever a settled stop
leads to was reached in time, or is on a work list (`RidesRelaxed`); so was every start of the query
(`StartsReached`); `best` takes every settled destination into account (`BestOfSettled`); and what is in the heap when the
search breaks off is later (`RestIsLater`). The first is where the order of the loops matters:
when the next stop is settled, all lists of the last one are empty, and a
label that gets earlier must not belong to a settled stop, which is what `IInv` is for. From there,
`Beaten(stop, time)` says that a stop was reached by a time or that the best arrival is earlier. It holds of the starts,
and a ride hands it on (`RideIsBeaten`): the stop it is taken from is settled, so the line was asked for
its next service, which by `GetIsNextService` leaves no later than the one ridden, and by `NotOvertaken`
is nowhere later. A walk after the ride is `Beaten` too (`WalkIsBeaten`, `WalksAfterBeaten`), but not because of `RelaxInv`: `reach` walks on from a ride only if that
improves the label of its stop. `WalkInv` says that the search has walked on wherever it could,
in the middle of its loops as well: whoever is at a stop has walked on from it or could start there
(`LabelsWalked`), the walks of the work list will be (`FootWalked`), and where a ride leads one walks on, unless the ride is
still to be taken (`RidesWalked`). It needs `WalksJoin`: if a walk has been at the stop by the time of the ride, the walks
from there have to be ones from where that walk began.
The reference `Earliest` is a recursion over the number of rides, each with the walks after it; the prover has no induction, but
the least number of rides that beats the answer is a number like any other, and there is none (`EarliestBeaten`, by `LeastOfNumbers`).
That the recursion has a solution at all, without which nothing could be said of its values, is shown in the same way (`SomeArrivals`).

### The service

`RouteServiceProofs` and `RouteJourneyProofs`, for every set of stops, timetables, queries and requests:

| theorem | states |
|---|---|
| `ServiceImplementsSearch` | `RouteSpec => Spec`: every step of the service is one of the router or leaves it alone |
| `ServiceKeepsSearch`, `ServiceKeepsPaths`, `ServiceAnswersEarliest`, `ServiceKeepsSettled` | what is proved of the router holds in the service; `ServiceAnswersEarliest` is `NoRideIsFaster` with the conditions above |
| `RoundsInvariant` | `RouteSpec => [](WInv /\ RoundsInv)`, the inductive invariant of the two routers side by side |
| `RoundsAreNeverEarly` | `RouteSpec => []RoundsNeverEarly` |
| `RoutesAreMade` | `RouteSpec => []RouteMade`: the route is the one `make_route` makes of the path of this search |
| `RoutesAreInOrder` | `RouteSpec => []StopTimesInOrder` |
| `RoutesAreJourneys` | `RouteSpec => []RouteIsJourney` |

**Assumptions.** Those of the router, and: `LeastTransferAssumption`, that the least time of a transfer, which only the rounds
add, does not pass the end of the clock; `ClockAssumption`, that nobody walks to a start of a query beyond it;
`ServedOnceAssumption`, that a line goes through a stop at most once, which is what `LineTableFactory` cuts trips for. TLC
evaluates them on the instances of `router`.

**The rounds.** A label of the rounds is nowhere before the search in order only if that search has walked on wherever it could,
which is `WalkInv` of the router. `RoundsInv` adds the types of what a round works on, that all starts of the query are in the first
round (`RoundsStarted`), and `NeverEarly`: labels *and* states are `Late`, that is `Beaten` by the search in order. A round that
sorts, breaks off or takes the bound moves states and adds none, so the proof is about `RelaxState`, which rides and walks
from one state; `RideIsBeaten` and `WalkIsBeaten` are the lemmas of the router.

**The times of a route.** `make_route` is four passes over lists. `UpdateDeparturesAndArrivals` puts every departure where one
departs, which is in order because `PathSound` says that labels are (`PreparedInTime`). `UnpackPath` puts the stops passed between two
entries (`UnpackedIsInTime`, a fold: what is unpacked, followed by the next entry, is in time). `AddEntry` closes a transit
and opens the next (`RouteInTime`, a fold): its calls are in time, those of all transits closed are over, and the last call is the entry
just taken. `StandsStill` is left out because there the first of the two entries is given a departure before its arrival.

**A route can be travelled.** The entries of the path are `Laid` among those unpacked, at increasing places (`marks`), and
`LegsLaid` shows what lies between two marks: one step on foot to a stop within reach, or the stops of *one* service from where it
was boarded to where it was left (`Ridden`). For the second, `PassedOnTheRide` compares the stops the code cuts out of the stop
table of the line with those of the service the label was made of (`RideOfPath`), for which a line must not go through a stop twice.
Entering the entries, one is `Afoot`, at a mark after walks that join, or `Aboard`, with the stops of the service from its mark
on (`WayTaken`). A change of line closes a transit exactly when one was `Aboard` up to the next mark, or walked (`TransitDone`), and the next one begins where it ends or where one can walk to (`OtherLineOnTheWay`).
`SegmentsJoin` keeps that for all transits closed, the first of which begins where the path does. Two rides with one line
after each other are one transit for the code and no service for anybody: `RidesOn`.

### The components

The first part of `ConnectivityProofs`, for every set of graphs:

| theorem | states |
|---|---|
| `Invariance` | `Spec => []IInv` |
| `TypeCorrect`, `StacksStayAligned`, `LowLinksReached` | `Spec => []TypeOK`, `[]StacksAgree`, `[]LowLinkReached` |
| `ComponentsAreStrong` | `Spec => []ComponentsStrong`: same component if and only if mutually reachable, right sizes, no node left out |
| `SinksComeFirst` | `Spec => []SinksFirst` |
| `ComponentsStay` | `Spec => ComponentIsFinal` |

**Assumption.** `GraphAssumption`: the edges of every node lead to nodes. That the adaptor's graphs
do is proved below.

**Argument.** A node on the stack is gray while it has a frame and black when it has none. Three
facts carry the proof. A gray node reaches every node above it on the stack (`GrayReaches`), a
black node reaches a gray one below it (`BlackReachesGray`), so all nodes from the root upwards are
mutually reachable when it is left. Conversely `LinksCover` says that the low link of a node is not above
the depth of any neighbour still on the stack; `LinksPropagate` hands the links of black nodes on
to the gray node below them. If the link of the node that is left equals its depth, no edge
leads from above it to below it: the component is closed up to finished ones (`ComponentsClosed`),
and nothing else can share it (`ComponentsMutual`). Resuming an edge after a `break` is where the
textbook invariant breaks: between the return of a child and the second look at its edge the link of the child
has not been handed on yet. `ReturnsFrom` is the exception of `LinksPropagate` for that state, and
`FramesChain` makes sure that the edge looked at is the one to the child. The links are those of the code, which takes `low_link`
and not `depth` of a neighbour: `LowLinkReached` shows that this does no harm. `BacktrackFacts`
and `RootFacts` describe the two ends of a frame, `PushInvariant` the two ways to get one
(`StartSearch`, `Descend`). The lemmas about steps do not speak of `Graphs`, so that they serve a search whose graph is
made while the program runs.

### From timetables to components

The second part, for every set of timetables whose tables agree:

| theorem | states |
|---|---|
| `ConnectivityInvariant` | `ConnectivitySpec => []ConnectivityInv`, the inductive invariant |
| `AllocationIsExact` | `[]AllocationExact`: no `SizeError`, and the assertion of the adaptor holds |
| `ServiceComponents` | `[](ComponentsStrong /\ SinksFirst)` |
| `ComponentsAreJourneys` | `[]ComponentsOfJourneys`: same component if and only if there are journeys both ways |
| `ServiceKeepsComponents` | `ComponentIsFinal` |

**Assumption.** `AdaptableAssumption`, each part of which is what a factory does: stops are numbered from zero (ids of a
dictionary); a station lists each of its stops exactly once, and no other (`StationTableFactory` maps every stop once); a line goes through a stop at most once
(`LineTableFactory` cuts a trip that returns to a stop, see `Bounds`); and a stop knows exactly the lines that serve it (`StopToLine`). `StationAssumption`, that no station belongs to another one, is
a condition on feeds; only `ComponentsAreJourneys` needs it, since a stop has an edge to its
station and not to where that belongs. TLC evaluates
both on all networks of `components`. Without the second part of the first the two passes do disagree: the first pass takes one off for
the stop itself, the second skips the stop as often as it is listed.

**The two passes.** What the first pass has counted, and where the second one puts the edges of a stop, is the sum of what
leads from the stops before it (`EdgesBefore`). `Counted` and `Added` say so, with the room left as the difference to
the sum of all. The counts and the edges are produced by different code. `StationFacts` shows that `CountDirect` is the
length of `StationTargets`, by mapping the places of the list without the stop onto the places with it; `SelectedFacts` says
what a loop that skips elements leaves, and how many. `Sums` makes up for the missing induction over `EdgesBefore`.
At the end, `GraphBuilt`: the graph satisfies `IsGraph`, and the edges of a node are the `Targets` of the stop.

**Journeys.** A line gives the graph an edge to its next stop only, a station edges between a stop and all others, by way of the station and
directly. `LeadsAreEdges`: a set of stops is closed under riding, changing and walking if and only if it is closed
under edges. The harder half takes the first stop of a line behind `i` outside of the set and looks at the edge from the
stop before. Since `Journey` and `Reaches` are both membership in every closed set, they agree
(`JourneysAreWays`), and `ComponentsStrong` is `ComponentsOfJourneys`.

**The hand-over.** Until a graph is returned the search has not begun (`Fresh`), so its invariant holds for any graph; from
then on `graph = building` and nobody changes it. That is the last conjunct of `ConnectivityInv`.

### Loading and building

`MasterProofs`, for every set of feeds and any number of buckets:

| theorem | states |
|---|---|
| `MasterInvariant` | `Spec => []MasterInv` |
| `TypeCorrect` | `Spec => []TypeOK` |
| `UnusedStopsGo` | `[]OnlyUnusedStopsGo`: `filter_unreachable_stops` drops exactly the stops nothing names |
| `StationsAreClose` | `[]StationsClose`: stations found are close and have none themselves; those of the feed stay |
| `ReferencesAreKept` | `[]ReferencesKept`: wherever a stop time or a transfer of the feed names a stop, the dataset has the id of that one, after filtering, after stop times were sorted and interpolated, and after transfers were added; no stop time is lost |
| `OrderMakesNoDifference` | `OrderIrrelevant`: building a service changes nothing another one is built from |

**Assumptions.** `DatasetAssumption`: `FeedAssumption`, what is said of feeds under [Bounds](#3-the-runs), and that a hash
table has at least one bucket.

**Argument.** `MasterInv` says what every stage of loading leaves to the next (`StageOK`): the rows as they were read,
then stops `Numbered` by their place with stations among them, and `Stationed`: a station that was found is of an
earlier bucket, as its stop is, since a bucket never takes a stop that is a station or has one. That is what makes
the order of the buckets irrelevant. The ids of strings are a fold (`LearnFacts`: a string seen has a place, and keeps it), and so is the renumbering of
the stops that are kept (`RemapFacts`: their places, one each). A stop is told by its location, so `Denotes` can be carried from a row of the feed to its
record in the dataset. `RefsInv` does it for the stop times, transfers and trips, once for each of the loads: `NameDenotes` for the removal of stops, and for the timetable, which takes the stop times
sorted and interpolated and appends the transfers that keep one in a vehicle. Loading crashes for nothing but a stop that is not listed.

### The protocol

`BindingsProofs`, for every set of clients and requests, any number of calls and starts, and any
number of workers and threads:

| theorem | states |
|---|---|
| `IPCInvariant` | `Spec => []IPCInv` |
| `TypeCorrect`, `InFlight`, `Kept`, `StopsAreKills` | `Spec => []TypeOK`, `[]OneInFlight`, `[]NothingLost`, `OneKillOneStop` |
| `ImplementsPromise` | `Spec => Implements`: pipes, crashes and restarts implement `RequestReply`, its `dialogue` read off the clients |
| `BindingsInvariant` | `BindingsSpec => []BindingsInv` |
| `Composition` | `BindingsSpec => Spec`: the workers of a Node process are clients like others, so that all of the above holds with them |
| `BindingsTypeCorrect`, `Staged`, `Truthful` | `[]BindingsTypeOK`, `[]OneStage`, `[]CallbackTruthful` |

**Assumptions.** `IPCAssumption` (the bounds are numbers), `RequestAssumption` (requests have a variant and a
value, and what a search or a tile may come to is one of the outcomes there are), `PoolAssumption` (there is a thread).

**Argument.** The refinement needs that an answer on its way belongs to the request its client waits for. `Apart` (a
message is in one of four places), `StateFits` (which of them the state of a client allows) and `Faithful` (what lies
there is what the client asked for, or an answer promised to that) are that, and `LossExplained` is what is left of it when a
service is gone. `OneStageIsFit` turns the set of stages a worker is in into implications between
queue, pool and loop; `CallFits` ties the stage to what its call has come to, which is what makes a callback truthful.

**Only model-checked.** Liveness (`Termination`, `ComponentsComplete`, `AnsweredUnlessGone`,
`EveryCallback`, `ShutdownArrives`, `LoopReturns`): fairness and ENABLED are out of the prover's
reach. The times along a trip (`Visits`, a recursive function), about which `ScheduleAssumption` therefore speaks directly, and
with them that the factories make tables of that kind. `AnswersAgree` and `TileTellsBox` relate encoded lists, polylines
and parts of lines to what they were made of, by way of a decoder for each; `LinesAnnotated`
goes through all factories from the rows of a feed to an annotation. No theorem states these.

## 5. Findings

* **`schedule`** (`timetable_dijkstra.cpp:190`). `DurationTableFactory` stores at every stop the time from the
  previous stop *to* it. `run_trip` starts at the stop that was boarded with the departure there,
  reports the stop, and then adds the entry *of that stop*. A ride is thus shifted by one segment, behind the
  first stop every arrival is too early by the difference. Data with equal distances hides it: only the first
  entry, zero, and the last one differ.
* **`boarding`** (`duration_table_factory.cpp:59`). `arrival - departure of the first stop` is
  negative for the first stop itself when the vehicle stands there. `time - min(time, delta)` then
  goes back to midnight, and `get` returns a vehicle that left before the desired time. From there the
  search reaches stops in the past, and a handle it uses may be null.
* **`walking`** (`routing_algorithm.cpp:87`). A path that ends on foot, or that is only the stop it begins at, keeps
  `WALKING_TRANSFER` as the line of a transit. Both annotators look up the line of its connection, the
  largest number there is, in a vector.
* **`shapeless`** (`annotation/geometry.cpp:28`). The places of stops on shapes are kept up to the last stop that lies on
  one. A segment that touches a later stop reads the offsets behind their end. The check before it compares
  the number of the line with the number of shapes, two things that have nothing to do with each other.
* **`stations`** (`dataset.cpp:166`). The loop over the buckets of a hash table takes every bucket for the stops
  of one name. Names whose ids have the same remainder share a bucket. If all of its stops are close to the
  first one, they become one station, whatever their names; and one stop far away keeps those of another name from
  becoming one.
* **`shapes`** (`gtfs/shape.cpp:30`). The number of a point is read with `stringToID`, like a name, where that of a stop time is
  read with `stringToIDDirect`. Its id says which number was first in the file, for all shapes together.
  `shapes_as_indexed_vector` sorts by it, so the points are in order only if the numbers appear in
  increasing order over the whole file; a shape that starts with a higher number than a later one is enough to
  mix the later one up. `GeometryFactory` then looks for the stops along a zigzag.
* **`unanswered`** (`service.cpp:193`). A request that was received and not yet handled when a kill
  switch stops the service is dropped; its client waits in `recv` forever, even when a new service
  listens on the same address, because 0MQ sends a request once.

What is *not* a violation but worth knowing:

* A query that starts on foot at its destination puts one entry into the path twice: `extract_path` adds the stop
  (`timetable_dijkstra.cpp:216`) and then its parent, which is the stop itself. `update_departures_and_arrivals`
  (`routing_algorithm.cpp:23`) gives the first of the two the departure of the query, which is before its arrival.
* Rides that look shorter than they are (`schedule`) let the search leave a vehicle and board another one of the same line that has left earlier.
  `make_route` tells changes by the lines of two entries, takes both rides for one, and the route is no service's
  (trips over 0, 1, 2 at 12, 22, 24 and at 11, 13, 15).
* The two routers do not agree on networks where walks do not join. The search does not walk on from a stop that somebody has walked to
  by the time a vehicle gets there. The rounds label walks with 60 seconds at least, so that the same vehicle may be first for them and is
  walked on from. With trips over 4, 0, 1 at 8, 10, 12 and over 4, 0, 2 at 7, 10, 13, walks from 1 to 2 and from 2 to 3 of one second and a `LeastTransfer`
  of two, only the rounds get from 0 to 3.
* `NothingLost` and `AnsweredUnlessGone` hold only with their escape clauses (a restart, a hang), and `LoopReturns` needs
  one for a second shutdown sent to a service that has already stopped: the destructor of its context then
  blocks the main loop of Node.
* `boarding` has a second half: from the wrapped times the search reaches stops in the past and dereferences a null
  handle. `HandlesLive` is proved for timetables in order only.
* `Segment::departure` drops what its visitor computes and returns a default time. So do the leg and the route, whose
  departure `http.md:64` calls "guaranteed". Both printers do the same, so that `AnswersAgree` holds.
* `pbf.cpp:207` sends the departure of a connection as its arrival. The direct printer prints the arrival (`api.cpp:288`), which
  `http.md:103` guarantees. `AnswersAgree` takes either for it.
* The direct printer prints a default for the place of a stop (`api.cpp:270`); the message has the place. `AnswersAgree` compares that one with
  the geometry.
* A line that is clipped into parts starts every part from the edge of the tile
  (`mapbox_vector_tile.cpp:298`), while readers of vector tiles keep the cursor: they draw every part but the first in the wrong place.
  `TileTellsBox` asks for the first only; asked for all parts, it is violated by the tiles of `components` that a line leaves and comes back to.
* Nobody walks on from a stop the query starts at: `reach` does so for stops a vehicle leads to, and a vehicle that comes
  back to a start does not improve its label. A stop next to the start may be reached late, or not at all.
* `tile.cpp:68` goes on from the first place a line serves a stop at.
* The rounds push a state for a transfer with its duration and label it with at least 60 seconds
  (`timetable.cpp:209`), so that what is ridden to from the state may be labelled earlier than the transfer allows.
* `api.cpp:54` puts names into JSON as they are, unlike polylines.

## 6. Plan

Everything the service executes between a feed and an answer is modelled. What could come next:

1. The construction of lines as a state machine that refines a set of services, to prove from the
   factories what `ScheduleAssumption` asks of the tables; `FoldKeeps` gives it the induction over the stop times of a trip.
2. `AnswersAgree` as a theorem, from lemmas about the encoders of polylines and string tables, with `FoldKeeps`.
3. Liveness of `RouteService` under restarts, by composing it with `IPC` where `Routed` is an outcome now.

## 7. Not modelled

* `DepartureTableFactory` with frequencies, `KAryHeap::clear`, `reach_non_inserting`,
  `CoordinateToStop::nearest`, strings of a category of the dictionary, segments on foot: without a
  caller in the service. The headway that frequencies would set is in the tables nonetheless.
* A second request on a `RequestHandler` after `send_shutdown`: 0MQ throws, and no caller does it.
* 0MQ, libuv, `std::` and `boost::geometry` beyond what the code relies on (one message per REQ socket, fair
  queuing of a REP socket, a context that waits for the messages it has to send, the parts of a line in a box). These
  definitions are marked external. `std::sort` is taken for stable, which libstdc++ is for up to 16 elements.
* Parsing and printing of CSV, times, protocol buffers and command lines, colors, abbreviations and modes in the answers,
  the projection, floating point and the second coordinate, the debug frontends: input and output, without state a
  property could be about.
* Out-of-bounds reads beyond the ones found: they are `crashed` states, nothing is claimed after them.
