--------------------------- MODULE TimeTableFactory ---------------------------
(***************************************************************************)
(* timetable::TimeTableFactory and the factories it calls for stations and *)
(* transfers, with search::StopToLineFactory: how a GTFS dataset becomes   *)
(* the timetable the routers work on.                                      *)
(*                                                                         *)
(* A dataset is a record                                                   *)
(*   parent     for every stop its parent station, if it has one           *)
(*   near       for every stop the stops within 50 meters, closest first,  *)
(*              as [stop, distance] (search::CoordinateToStop::all)        *)
(*   trips      a sequence of [id, route, times]                           *)
(*   transfers  a sequence of [from, to, type, duration]                   *)
(***************************************************************************)
EXTENDS LineTableFactory

CONSTANT ChangeTime   \* what a change of lines at one stop takes, 30 in the code

-----------------------------------------------------------------------------
(* Lines, route by route and within a route trip by trip                    *)

ProduceLines(dataset) ==
    LET trips  == StableSort(dataset.trips, LAMBDA trip : trip.id)
        routes == StableSort(SetToSeq({ trips[i].route : i \in DOMAIN trips }), LAMBDA id : id)
        AddRoute(state, route) ==
            [ Produce(Selected(trips, { i \in DOMAIN trips : trips[i].route = route }),
                      state.transfers, state.trip_offsets)
              EXCEPT !.lines = state.lines \o @ ]
    IN  FoldLeft(AddRoute,
                 [lines |-> << >>, trip_offsets |-> << >>, transfers |-> dataset.transfers],
                 routes)

\* search::StopToLineFactory, for every stop its lines in the order of their ids
StopToLine(stops, line_tables) ==
    [ stop \in stops |->
        SelectSeq([ id \in DOMAIN line_tables |-> id ],
                  LAMBDA id : stop \in Range(line_tables[id].stops)) ]

-----------------------------------------------------------------------------
(* StationTableFactory: a stop belongs to its parent or is its own station  *)

Station(parent) ==
    [ stop \in DOMAIN parent |-> IF parent[stop] = {} THEN stop ELSE CHOOSE p \in parent[stop] : TRUE ]

StationStops(parent) ==
    [ station \in DOMAIN parent |->
        SetToSortSeq({ stop \in DOMAIN parent : Station(parent)[stop] = station }, <) ]

-----------------------------------------------------------------------------
(* TransferTableFactory                                                     *)

\* a stop of a line passed by a line that does not serve the line's first stop
LineTransfers(line_tables) ==
    LET lines(stop) == { id \in DOMAIN line_tables : stop \in Range(line_tables[id].stops) }
        GainsLine(stop, last_stop) == ~ (lines(stop) \subseteq lines(last_stop))
        Gained(line) == SelectSeq(line.stops, LAMBDA stop : GainsLine(stop, line.stops[1]))
        Self(stop) == [from |-> stop, to |-> stop, type |-> "LONG", duration |-> ChangeTime]
    IN  FlattenSeq([ id \in DOMAIN line_tables |->
                       LET gained == Gained(line_tables[id])
                       IN  [ i \in DOMAIN gained |-> Self(gained[i]) ] ])

\* everything but the closest stop, which is taken to be the stop itself
NeighborTransfers(near) ==
    LET stops == SetToSortSeq(DOMAIN near, <)
        Walks(stop) == [ i \in 1 .. Len(near[stop]) - 1 |->
                           [ from |-> stop, to |-> near[stop][i + 1].stop, type |-> "LONG",
                             duration |-> near[stop][i + 1].distance + ChangeTime ] ]
    IN  FlattenSeq([ i \in DOMAIN stops |-> Walks(stops[i]) ])

\* std::unique: an element equal to the one before it goes
Unique(sequence) ==
    FoldLeft(LAMBDA kept, element :
                 IF kept # << >> /\ Last(kept) = element THEN kept ELSE Append(kept, element),
             << >>, sequence)

\* only two types have a duration of their own
Duration(transfer) ==
    IF transfer.type \in {"ON_ROUTE", "LONG"} THEN transfer.duration ELSE 0

\* an empty list of transfers is an InvalidInputError, see validate_input
TransferTable(near, transfers, line_tables) ==
    LET all == Unique(StableSort(transfers \o LineTransfers(line_tables) \o NeighborTransfers(near),
                                 LAMBDA transfer : transfer.from))
        From(stop) == SelectSeq(all, LAMBDA transfer : transfer.from = stop)
    IN  [ stop \in DOMAIN near |->
            LET block == From(stop)
            IN  [ i \in DOMAIN block |-> [stop |-> block[i].to, duration |-> Duration(block[i])] ] ]

-----------------------------------------------------------------------------

\* from the lines produced, with what else the factories make of the dataset
TimeTableWith(dataset, produced) ==
    [ lines        |-> produced.lines,
      station      |-> Station(dataset.parent),
      stops        |-> StationStops(dataset.parent),
      transfers    |-> TransferTable(dataset.near, produced.transfers, produced.lines),
      stop_to_line |-> StopToLine(DOMAIN dataset.parent, produced.lines) ]

TimeTable(dataset) == TimeTableWith(dataset, ProduceLines(dataset))
==============================================================================
