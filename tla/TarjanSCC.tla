------------------------------- MODULE TarjanSCC -------------------------------
(***************************************************************************)
(* algorithm::TarjanSCCAlgorithm::compute, the strongly connected          *)
(* components of a graph without recursion: a frame of the recursion       *)
(* stack is a node with the edge to look at when it is resumed.  An edge   *)
(* to a new node is left where it is and looked at again afterwards.       *)
(***************************************************************************)
EXTENDS ForwardStarGraph, SequencesExt

CONSTANT Graphs   \* the graphs to look at

IsGraph(g) ==
    /\ g.nodes \in Seq(Nat) /\ g.nodes # << >>
    /\ \A n \in Nodes(g) : Edges(g, n) \in Seq(Nodes(g))

ASSUME GraphAssumption == \A g \in Graphs : IsGraph(g)

VARIABLES
    graph,
    node,             \* the next node of the loop over all nodes
    recursion_stack,  \* frames [node, edge], edges counted from 1
    component_nodes,  \* the nodes visited and not yet in a component
    node_state,       \* for every node visited [depth, low_link, on_stack]
    depth,            \* the next depth
    component,        \* for every node in a component the id of it
    component_sizes   \* the sizes of the components; ids count from 0

search == << node, recursion_stack, component_nodes, node_state, depth, component,
             component_sizes >>

vars == << graph, search >>

Fresh ==
    /\ node = 0
    /\ recursion_stack = << >>
    /\ component_nodes = << >>
    /\ node_state = [ n \in {} |-> 0 ]
    /\ depth = 0
    /\ component = [ n \in {} |-> 0 ]
    /\ component_sizes = << >>

Init == graph \in Graphs /\ Fresh

-----------------------------------------------------------------------------

\* mutant of Visited: a node that left the stack is new again
VisitedOnStack == { n \in DOMAIN node_state : node_state[n].on_stack }

Visited == DOMAIN node_state

Visit(n) ==
    /\ node_state' = [ m \in Visited \cup {n} |->
                         IF m = n THEN [depth |-> depth, low_link |-> depth, on_stack |-> TRUE]
                         ELSE node_state[m] ]
    /\ depth' = depth + 1
    /\ component_nodes' = Append(component_nodes, n)

\* the loop over all nodes starts a search at every node not visited yet
StartSearch ==
    /\ recursion_stack = << >>
    /\ node < Size(graph)
    /\ node' = node + 1
    /\ IF node \in Visited
       THEN UNCHANGED << recursion_stack, component_nodes, node_state, depth >>
       ELSE Visit(node) /\ recursion_stack' = << [node |-> node, edge |-> 1] >>
    /\ UNCHANGED << graph, component, component_sizes >>

Frame == Last(recursion_stack)

\* mutant of OutOfEdges: the last edge is not looked at
BeforeLastEdge == Frame.edge >= Len(Edges(graph, Frame.node))

OutOfEdges == Frame.edge > Len(Edges(graph, Frame.node))

Neighbor == Edges(graph, Frame.node)[Frame.edge]

\* mutant of Descend: the edge is counted before the break
DescendAndAdvance ==
    /\ recursion_stack # << >>
    /\ ~ OutOfEdges
    /\ Neighbor \notin Visited
    /\ Visit(Neighbor)
    /\ recursion_stack' = Append([recursion_stack EXCEPT ![Len(recursion_stack)].edge = @ + 1],
                                 [node |-> Neighbor, edge |-> 1])
    /\ UNCHANGED << graph, node, component, component_sizes >>

\* the break: the edge is looked at again when the new node is finished
Descend ==
    /\ recursion_stack # << >>
    /\ ~ OutOfEdges
    /\ Neighbor \notin Visited
    /\ Visit(Neighbor)
    /\ recursion_stack' = Append(recursion_stack, [node |-> Neighbor, edge |-> 1])
    /\ UNCHANGED << graph, node, component, component_sizes >>

\* mutant of Lowered: nodes of finished components count as well
LoweredByAny(low_link, neighbor) ==
    IF neighbor.low_link < low_link THEN neighbor.low_link ELSE low_link

Lowered(low_link, neighbor) ==
    IF neighbor.on_stack /\ neighbor.low_link < low_link THEN neighbor.low_link ELSE low_link

\* mutant of FollowEdge: the edge of the frame is not counted on
FollowSameEdge ==
    /\ recursion_stack # << >>
    /\ ~ OutOfEdges
    /\ Neighbor \in Visited
    /\ node_state' = [node_state EXCEPT ![Frame.node].low_link = Lowered(@, node_state[Neighbor])]
    /\ UNCHANGED << graph, node, recursion_stack, component_nodes, depth, component,
                    component_sizes >>

FollowEdge ==
    /\ recursion_stack # << >>
    /\ ~ OutOfEdges
    /\ Neighbor \in Visited
    /\ node_state' = [node_state EXCEPT ![Frame.node].low_link = Lowered(@, node_state[Neighbor])]
    /\ recursion_stack' = [recursion_stack EXCEPT ![Len(recursion_stack)].edge = @ + 1]
    /\ UNCHANGED << graph, node, component_nodes, depth, component, component_sizes >>

\* what the do-while loop takes off the stack: everything from the root on
FromRoot(root) == CHOOSE i \in DOMAIN component_nodes : component_nodes[i] = root

\* a node out of edges is left; the root of a component takes it off the stack
Backtrack ==
    /\ recursion_stack # << >>
    /\ OutOfEdges
    /\ recursion_stack' = Front(recursion_stack)
    /\ LET root == Frame.node
           members == Range(SubSeq(component_nodes, FromRoot(root), Len(component_nodes)))
       IN  IF node_state[root].low_link = node_state[root].depth
           THEN /\ component_nodes' = SubSeq(component_nodes, 1, FromRoot(root) - 1)
                /\ node_state' = [ n \in Visited |->
                                     [node_state[n] EXCEPT !.on_stack = @ /\ n \notin members] ]
                /\ component' = [ n \in DOMAIN component \cup members |->
                                    IF n \in members THEN Len(component_sizes) ELSE component[n] ]
                /\ component_sizes' = Append(component_sizes, Cardinality(members))
           ELSE UNCHANGED << component_nodes, node_state, component, component_sizes >>
    /\ UNCHANGED << graph, node, depth >>

Finished == recursion_stack = << >> /\ node = Size(graph)

Returned == Finished /\ UNCHANGED vars

Next == StartSearch \/ Descend \/ FollowEdge \/ Backtrack \/ Returned

Spec == Init /\ [][Next]_vars

-----------------------------------------------------------------------------
(* Properties                                                               *)

OnStack == { n \in Visited : node_state[n].on_stack }

\* Type correctness.
TypeOK ==
    /\ node \in 0 .. Size(graph)
    /\ recursion_stack \in Seq([node : Visited, edge : Nat \ {0}])
    /\ component_nodes \in Seq(Visited)
    /\ Visited \subseteq Nodes(graph)
    /\ node_state \in [Visited -> [ depth    : 0 .. Size(graph) - 1,
                                    low_link : 0 .. Size(graph) - 1,
                                    on_stack : BOOLEAN ]]
    /\ depth \in 0 .. Size(graph)
    /\ DOMAIN component \subseteq Visited
    /\ component \in [DOMAIN component -> Nat]
    /\ component_sizes \in Seq(Nat)

Deepening(nodes) ==
    \A i, j \in DOMAIN nodes : i < j => node_state[nodes[i]].depth < node_state[nodes[j]].depth

\* The two stacks belong together: component_nodes holds the nodes marked as on the
\* stack, the nodes still being searched are among them, both in the order of their
\* depth.  The loop that takes a component off the stack always meets its root.
StacksAgree ==
    /\ Range(component_nodes) = OnStack
    /\ Deepening(component_nodes)
    /\ \A i \in DOMAIN recursion_stack : recursion_stack[i].node \in OnStack
    /\ Deepening([ i \in DOMAIN recursion_stack |-> recursion_stack[i].node ])

Closed(nodes) == \A x \in nodes : Range(Edges(graph, x)) \subseteq nodes

\* y is in every set of nodes that contains x and all its members lead to
Reaches(x, y) ==
    \A nodes \in SUBSET Nodes(graph) : x \in nodes /\ Closed(nodes) => y \in nodes

\* A low link is the depth of a node that can be reached and has no component yet.
LowLinkReached ==
    \A n \in OnStack :
        /\ node_state[n].low_link <= node_state[n].depth
        /\ \E m \in OnStack : node_state[m].depth = node_state[n].low_link /\ Reaches(n, m)

\* Two nodes are in the same component if and only if each of them reaches the
\* other, every node gets a component, and the sizes are those of the components.
ComponentsStrong ==
    /\ \A x, y \in DOMAIN component :
          component[x] = component[y] <=> Reaches(x, y) /\ Reaches(y, x)
    /\ \A id \in DOMAIN component_sizes :
          component_sizes[id] = Cardinality({ n \in DOMAIN component : component[n] = id - 1 })
    /\ Finished => DOMAIN component = Nodes(graph)

\* Components are numbered against the edges: whatever a finished node reaches is
\* finished, in a component that does not come later.
SinksFirst ==
    \A x \in DOMAIN component, y \in Nodes(graph) :
        Reaches(x, y) => y \in DOMAIN component /\ component[y] <= component[x]

\* A node never changes its component.
ComponentIsFinal ==
    [][\A n \in DOMAIN component : n \in DOMAIN component' /\ component'[n] = component[n]]_vars
================================================================================
