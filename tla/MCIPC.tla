--------------------------------- MODULE MCIPC ---------------------------------
(***************************************************************************)
(* Clients that send what the bindings send and what a client with its own *)
(* REQ socket may send.                                                    *)
(***************************************************************************)
EXTENDS IPC

CONSTANTS c1, c2

TwoClients == {c1, c2}

RouteRequest(coordinates, departure, arrival, radii, reasonable) ==
    [ variant |-> "route", coordinates |-> coordinates, departure |-> departure,
      arrival |-> arrival, radii |-> radii, reasonable |-> reasonable ]

Depart == RouteRequest(2, TRUE, FALSE, << 150, 150 >>, TRUE)
Arrive == RouteRequest(2, FALSE, TRUE, << >>, TRUE)
Nowhere == RouteRequest(2, TRUE, FALSE, << 0, 0 >>, TRUE)

Malformed ==
    { RouteRequest(1, TRUE, FALSE, << >>, TRUE), RouteRequest(2, TRUE, TRUE, << >>, TRUE),
      RouteRequest(2, FALSE, FALSE, << >>, TRUE), RouteRequest(2, TRUE, FALSE, << 150 >>, TRUE),
      RouteRequest(2, TRUE, FALSE, << 150, 150 >>, FALSE),
      [variant |-> "tile", reasonable |-> FALSE], [variant |-> "none"], [variant |-> "garbage"] }

Tile == [variant |-> "tile", reasonable |-> TRUE]
Kill == [variant |-> "kill_switch", value |-> TRUE]
Alive == [variant |-> "kill_switch", value |-> FALSE]

EveryRequest == Malformed \cup {Depart, Arrive, Nowhere, Tile, Kill, Alive}

PoliteRequests == {Depart, Alive, Kill}

AllOutcomes == {"route", "No Route", "crash"}
NoCrash == {"route", "No Route"}

AnyTile == {"tile", "crash"}
SomeTile == {"tile"}
================================================================================
