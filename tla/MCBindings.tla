------------------------------- MODULE MCBindings -------------------------------
(***************************************************************************)
(* Workers for what the bindings let through, and some of what they refuse. *)
(***************************************************************************)
EXTENDS BindingsProofs

CONSTANTS w1, w2, w3

Workers == {w1, w2, w3}

RouteRequest(departure, arrival, radius, reasonable) ==
    [ variant |-> "route", coordinates |-> 2, departure |-> departure, arrival |-> arrival,
      radii |-> << radius, radius >>, reasonable |-> reasonable ]

Depart == RouteRequest(TRUE, FALSE, 150, TRUE)
Both == RouteRequest(TRUE, TRUE, 150, TRUE)
Nowhere == RouteRequest(TRUE, FALSE, 0, TRUE)
Tile == [variant |-> "tile", reasonable |-> TRUE]
Shutdown == [variant |-> "kill_switch", value |-> TRUE]

AnyRequest == {Depart, Both, Nowhere, Tile, Shutdown}

NoCrash == {"route", "No Route"}
SomeTile == {"tile"}
================================================================================
