--------------------------- MODULE ForwardStarGraph ---------------------------
(***************************************************************************)
(* tool::container::ForwardStarGraph and its factory: an adjacency array.  *)
(* A graph under construction is a record                                  *)
(*   nodes           for every node the offset of its first edge, with a   *)
(*                   sentinel behind the last one                          *)
(*   edges           the targets, node by node                             *)
(*   required_nodes, required_edges                                        *)
(*                   what is still missing of what was allocated           *)
(***************************************************************************)
EXTENDS Integers, Sequences

Allocate(number_of_nodes, number_of_edges) ==
    [ nodes |-> [ i \in 1 .. number_of_nodes + 1 |->
                    IF i = number_of_nodes + 1 THEN number_of_edges ELSE 0 ],
      edges |-> << >>,
      required_nodes |-> number_of_nodes,
      required_edges |-> number_of_edges ]

Size(graph) == Len(graph.nodes) - 1

\* all but the sentinel, counted from 0
Nodes(graph) == 0 .. Size(graph) - 1

\* only while required_nodes > 0, otherwise the factory throws a SizeError
AddNode(graph) ==
    [ graph EXCEPT !.nodes = [@ EXCEPT ![Len(graph.nodes) - graph.required_nodes] = Len(graph.edges)],
                   !.required_nodes = @ - 1 ]

\* one after the other to the last added node, and only while required_edges > 0
AddEdges(graph, targets) ==
    [ graph EXCEPT !.edges = @ \o targets, !.required_edges = @ - Len(targets) ]

Valid(graph) == graph.required_nodes = 0 /\ graph.required_edges = 0

Edges(graph, node) == SubSeq(graph.edges, graph.nodes[node + 1] + 1, graph.nodes[node + 2])
===============================================================================
