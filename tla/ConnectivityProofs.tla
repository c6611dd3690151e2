--------------------------- MODULE ConnectivityProofs ---------------------------
(***************************************************************************)
(* The components the search finds are the strongly connected components   *)
(* of the graph, for every graph; the two passes of the adaptor agree, the *)
(* graph they build is the timetable's, and its components tell between    *)
(* which stops there is a way there and back.                              *)
(*                                                                         *)
(* A node on the stack is gray while it has a frame and black when it has  *)
(* none any more.  The argument: a gray node reaches every node above it   *)
(* on the stack, a black node reaches a gray one below it, and the link of *)
(* a gray node is at most the links of the black nodes right above it.     *)
(***************************************************************************)
EXTENDS Connectivity, LineTableProofs, FiniteSetTheorems, SequenceTheorems, TLAPS

FrameNode(i) == recursion_stack[i].node

Gray == { FrameNode(i) : i \in DOMAIN recursion_stack }

Black == OnStack \ Gray

Depth(n) == node_state[n].depth
Link(n)  == node_state[n].low_link
Edge(n, e) == Edges(graph, n)[e]

\* the edges of a node that have been followed and not only descended along
Followed(n, e) ==
    /\ e \in DOMAIN Edges(graph, n)
    /\ \A i \in DOMAIN recursion_stack : FrameNode(i) = n => e < recursion_stack[i].edge

-----------------------------------------------------------------------------
(* The inductive invariant                                                  *)

DepthsCount ==
    /\ depth = Cardinality(Visited)
    /\ \A n \in Visited : Depth(n) < depth

StackOrComponent ==
    /\ Visited = OnStack \cup DOMAIN component
    /\ OnStack \cap DOMAIN component = {}
    /\ \A n \in 0 .. node - 1 : n \in Visited

\* the edge of a frame leads to the next frame
FramesChain ==
    \A i \in DOMAIN recursion_stack :
        /\ recursion_stack[i].edge <= Len(Edges(graph, FrameNode(i))) + 1
        /\ i < Len(recursion_stack) =>
               /\ recursion_stack[i].edge \in DOMAIN Edges(graph, FrameNode(i))
               /\ Edge(FrameNode(i), recursion_stack[i].edge) = FrameNode(i + 1)

StackRooted ==
    \A n \in OnStack : recursion_stack # << >> /\ Depth(FrameNode(1)) <= Depth(n)

\* the link of a node takes in every edge that has been followed
LinksCover ==
    \A n \in OnStack : \A e \in DOMAIN Edges(graph, n) :
        Followed(n, e) =>
            /\ Edge(n, e) \in Visited
            /\ Edge(n, e) \in OnStack => Link(n) <= Depth(Edge(n, e))

BlackLinked == \A n \in Black : Link(n) < Depth(n)

BlackReachesGray ==
    \A n \in Black : \E i \in DOMAIN recursion_stack :
        Depth(FrameNode(i)) < Depth(n) /\ Reaches(n, FrameNode(i))

GrayReaches ==
    \A i \in DOMAIN recursion_stack : \A n \in OnStack :
        Depth(FrameNode(i)) <= Depth(n) => Reaches(FrameNode(i), n)

\* the top frame has still to follow the edge to the node it comes back from
ReturnsFrom(n, i) ==
    /\ i = Len(recursion_stack)
    /\ recursion_stack[i].edge \in DOMAIN Edges(graph, FrameNode(i))
    /\ LET child == Edge(FrameNode(i), recursion_stack[i].edge)
       IN  /\ child \in Black
           /\ Depth(FrameNode(i)) < Depth(child)
           /\ Depth(child) <= Depth(n)
           /\ Link(child) <= Link(n)

RightAbove(n, i) ==
    /\ Depth(FrameNode(i)) < Depth(n)
    /\ i < Len(recursion_stack) => Depth(n) < Depth(FrameNode(i + 1))

LinksPropagate ==
    \A n \in Black : \A i \in DOMAIN recursion_stack :
        RightAbove(n, i) => Link(FrameNode(i)) <= Link(n) \/ ReturnsFrom(n, i)

\* components are closed under edges, and ids are in use
ComponentsClosed ==
    \A n \in DOMAIN component :
        /\ component[n] < Len(component_sizes)
        /\ \A e \in DOMAIN Edges(graph, n) :
              Edge(n, e) \in DOMAIN component /\ component[Edge(n, e)] <= component[n]

ComponentsMutual ==
    \A x, y \in DOMAIN component :
        component[x] = component[y] <=> Reaches(x, y) /\ Reaches(y, x)

SizesCount ==
    \A id \in DOMAIN component_sizes :
        component_sizes[id] = Cardinality({ n \in DOMAIN component : component[n] = id - 1 })

IInv ==
    /\ IsGraph(graph)
    /\ TypeOK
    /\ DepthsCount /\ StackOrComponent
    /\ StacksAgree /\ FramesChain /\ StackRooted
    /\ LowLinkReached /\ LinksCover
    /\ BlackLinked /\ BlackReachesGray /\ GrayReaches /\ LinksPropagate
    /\ ComponentsClosed /\ ComponentsMutual /\ SizesCount

-----------------------------------------------------------------------------
(* Sequences                                                                *)

\* Appending keeps what is there.
LEMMA AppendFacts ==
    ASSUME NEW S, NEW s \in Seq(S), NEW x \in S
    PROVE  /\ Append(s, x) \in Seq(S)
           /\ Len(Append(s, x)) = Len(s) + 1
           /\ \A i \in 1 .. Len(s) : Append(s, x)[i] = s[i]
           /\ Append(s, x)[Len(s) + 1] = x
OBVIOUS

\* A sequence stays one when its range grows.
LEMMA SeqMonotone ==
    ASSUME NEW S, NEW T, S \subseteq T, NEW s \in Seq(S)
    PROVE  s \in Seq(T)
OBVIOUS

\* Replacing an element keeps the others.
LEMMA ExceptFacts ==
    ASSUME NEW S, NEW s \in Seq(S), NEW k \in 1 .. Len(s), NEW x \in S
    PROVE  /\ [s EXCEPT ![k] = x] \in Seq(S)
           /\ Len([s EXCEPT ![k] = x]) = Len(s)
           /\ DOMAIN [s EXCEPT ![k] = x] = 1 .. Len(s)
           /\ \A i \in 1 .. Len(s) : i # k => [s EXCEPT ![k] = x][i] = s[i]
           /\ [s EXCEPT ![k] = x][k] = x
OBVIOUS

\* A prefix keeps the elements it has.
LEMMA PrefixFacts ==
    ASSUME NEW S, NEW s \in Seq(S), NEW n \in 0 .. Len(s)
    PROVE  /\ SubSeq(s, 1, n) \in Seq(S)
           /\ Len(SubSeq(s, 1, n)) = n
           /\ \A i \in 1 .. n : SubSeq(s, 1, n)[i] = s[i]
<1>1. \A i \in 1 .. n : s[i] \in S
  BY ElementOfSeq
<1>2. n \in Int /\ n - 1 + 1 = n
  OBVIOUS
<1> QED BY <1>1, <1>2, SubSeqProperties

\* The front of a sequence is all of it but the last element.
LEMMA FrontFacts ==
    ASSUME NEW S, NEW s \in Seq(S), s # << >>
    PROVE  /\ Front(s) \in Seq(S)
           /\ Len(Front(s)) = Len(s) - 1
           /\ \A i \in 1 .. Len(s) - 1 : Front(s)[i] = s[i]
<1>1. Len(s) \in Nat /\ Len(s) # 0
  BY EmptySeq
<1>2. Len(s) - 1 \in 0 .. Len(s)
  BY <1>1
<1>3. Front(s) = SubSeq(s, 1, Len(s) - 1)
  BY DEF Front
<1> QED BY <1>2, <1>3, PrefixFacts

\* The elements of a suffix are those from its first index on.
LEMMA SuffixRange ==
    ASSUME NEW S, NEW s \in Seq(S), NEW k \in 1 .. Len(s)
    PROVE  Range(SubSeq(s, k, Len(s))) = { s[i] : i \in k .. Len(s) }
<1> DEFINE t == SubSeq(s, k, Len(s))
<1>1. Len(s) \in Nat
  OBVIOUS
<1>2. \A i \in k .. Len(s) : s[i] \in S
  BY ElementOfSeq
<1>3. /\ t \in Seq(S)
      /\ Len(t) = Len(s) - k + 1
      /\ \A i \in 1 .. Len(s) - k + 1 : t[i] = s[k + i - 1]
  BY <1>1, <1>2, SubSeqProperties
<1>4. DOMAIN t = 1 .. Len(s) - k + 1
  BY <1>3
<1>5. \A i \in 1 .. Len(s) - k + 1 : k + i - 1 \in k .. Len(s)
  BY <1>1
<1>6. \A j \in k .. Len(s) : j - k + 1 \in 1 .. Len(s) - k + 1 /\ k + (j - k + 1) - 1 = j
  BY <1>1
<1>7. Range(t) = { t[i] : i \in 1 .. Len(s) - k + 1 }
  BY <1>4 DEF Range
<1> HIDE DEF t
<1>8. ASSUME NEW i \in 1 .. Len(s) - k + 1
      PROVE  t[i] \in { s[j] : j \in k .. Len(s) }
  BY <1>3, <1>5
<1>9. ASSUME NEW j \in k .. Len(s)
      PROVE  s[j] \in { t[i] : i \in 1 .. Len(s) - k + 1 }
  <2>1. t[j - k + 1] = s[j]
    BY <1>3, <1>6
  <2> QED BY <1>6, <2>1
<1>10. Range(t) = { s[i] : i \in k .. Len(s) }
  BY <1>7, <1>8, <1>9
<1> QED BY <1>10 DEF t

-----------------------------------------------------------------------------
(* Graphs and ways in them                                                  *)

\* A graph has finitely many nodes, and its edges lead to nodes.
LEMMA GraphFacts ==
    ASSUME IsGraph(graph)
    PROVE  /\ Size(graph) \in Nat
           /\ IsFiniteSet(Nodes(graph)) /\ Cardinality(Nodes(graph)) = Size(graph)
           /\ \A n \in Nodes(graph) : Edges(graph, n) \in Seq(Nodes(graph))
           /\ \A n \in Nodes(graph) : n \in Nat /\ n < Size(graph)
<1>1. Len(graph.nodes) \in Nat \ {0}
  BY EmptySeq DEF IsGraph
<1>2. Size(graph) \in Nat
  BY <1>1 DEF Size
<1>3. IsFiniteSet(0 .. Size(graph) - 1) /\ Cardinality(0 .. Size(graph) - 1) = Size(graph)
  BY <1>2, FS_Interval
<1>4. \A n \in Nodes(graph) : Edges(graph, n) \in Seq(Nodes(graph))
  BY DEF IsGraph
<1>5. \A n \in Nodes(graph) : n \in Nat /\ n < Size(graph)
  BY <1>2 DEF Nodes
<1> QED BY <1>2, <1>3, <1>4, <1>5 DEF Nodes

\* Every node reaches itself, ...
LEMMA ReachesSelf == \A x : Reaches(x, x)
BY DEF Reaches

\* ... where its edges lead, ...
LEMMA ReachesEdge ==
    ASSUME NEW x, NEW e \in DOMAIN Edges(graph, x)
    PROVE  Reaches(x, Edge(x, e))
BY DEF Reaches, Closed, Edge, Range

\* ... and whatever is reached from there.
LEMMA ReachesOn ==
    \A x, y, z : Reaches(x, y) /\ Reaches(y, z) => Reaches(x, z)
BY DEF Reaches

\* Nothing outside of a closed set is reached from its members.
LEMMA ReachesInside ==
    ASSUME NEW S \in SUBSET Nodes(graph), Closed(S), NEW x \in S, NEW y, Reaches(x, y)
    PROVE  y \in S
BY DEF Reaches

\* Ways depend on the graph only.
LEMMA ReachesUnchanged ==
    ASSUME graph' = graph
    PROVE  \A x, y : Reaches(x, y)' <=> Reaches(x, y)
BY DEF Reaches, Closed

-----------------------------------------------------------------------------
(* The stacks                                                               *)

\* What the types and the agreement of the stacks say of depths and frames.
LEMMA StackFacts ==
    ASSUME TypeOK, StacksAgree
    PROVE  /\ Len(recursion_stack) \in Nat
           /\ DOMAIN recursion_stack = 1 .. Len(recursion_stack)
           /\ \A n \in Visited : Depth(n) \in Nat /\ Link(n) \in Nat
           /\ \A x, y \in OnStack : Depth(x) = Depth(y) => x = y
           /\ \A i \in DOMAIN recursion_stack :
                 FrameNode(i) \in OnStack /\ recursion_stack[i].edge \in Nat \ {0}
           /\ \A i, j \in DOMAIN recursion_stack : i < j => Depth(FrameNode(i)) < Depth(FrameNode(j))
           /\ \A i, j \in DOMAIN recursion_stack : FrameNode(i) = FrameNode(j) => i = j
<1>1. /\ Len(recursion_stack) \in Nat
      /\ DOMAIN recursion_stack = 1 .. Len(recursion_stack)
  BY DEF TypeOK
<1>2. \A n \in Visited : Depth(n) \in Nat /\ Link(n) \in Nat
  BY DEF TypeOK, Visited, Depth, Link
<1>3. ASSUME NEW x \in OnStack, NEW y \in OnStack, Depth(x) = Depth(y)
      PROVE  x = y
  <2>1. PICK i \in DOMAIN component_nodes : component_nodes[i] = x
    BY DEF StacksAgree, Range
  <2>2. PICK j \in DOMAIN component_nodes : component_nodes[j] = y
    BY DEF StacksAgree, Range
  <2>3. i \in Nat /\ j \in Nat
    BY DEF TypeOK
  <2>4. x \in Visited /\ y \in Visited
    BY DEF OnStack
  <2>5. ~ (i < j) /\ ~ (j < i)
    BY <1>2, <1>3, <2>1, <2>2, <2>4 DEF StacksAgree, Deepening, Depth
  <2> QED BY <2>1, <2>2, <2>3, <2>5
<1>4. \A i \in DOMAIN recursion_stack :
         FrameNode(i) \in OnStack /\ recursion_stack[i].edge \in Nat \ {0}
  <2>1. \A i \in DOMAIN recursion_stack : recursion_stack[i] \in [node : Visited, edge : Nat \ {0}]
    BY <1>1, ElementOfSeq DEF TypeOK
  <2> QED BY <2>1 DEF StacksAgree, FrameNode
<1>5. \A i, j \in DOMAIN recursion_stack : i < j => Depth(FrameNode(i)) < Depth(FrameNode(j))
  BY DEF StacksAgree, Deepening, FrameNode, Depth
<1>6. \A i, j \in DOMAIN recursion_stack : FrameNode(i) = FrameNode(j) => i = j
  <2>1. \A i \in DOMAIN recursion_stack : Depth(FrameNode(i)) \in Nat
    BY <1>2, <1>4 DEF OnStack
  <2>2. ASSUME NEW i \in DOMAIN recursion_stack, NEW j \in DOMAIN recursion_stack,
               FrameNode(i) = FrameNode(j)
        PROVE  ~ (i < j) /\ ~ (j < i)
    BY <1>5, <2>1, <2>2
  <2> QED BY <1>1, <2>2
<1> QED BY <1>1, <1>2, <1>3, <1>4, <1>5, <1>6

\* A new node is put on the stack above all others.
LEMMA VisitFacts ==
    ASSUME IsGraph(graph), TypeOK, DepthsCount, StacksAgree,
           NEW n \in Nodes(graph) \ Visited, Visit(n)
    PROVE  /\ Visited' = Visited \cup {n}
           /\ OnStack' = OnStack \cup {n}
           /\ n \notin OnStack
           /\ \A m \in Visited : node_state'[m] = node_state[m]
           /\ node_state'[n] = [depth |-> depth, low_link |-> depth, on_stack |-> TRUE]
           /\ depth \in 0 .. Size(graph) - 1
           /\ depth' = depth + 1
           /\ depth' = Cardinality(Visited')
           /\ \A m \in Visited : Depth(m) < depth
           /\ component_nodes' \in Seq(Visited')
           /\ (Range(component_nodes) = OnStack)'
           /\ Deepening(component_nodes)'
<1>1. Visited' = Visited \cup {n}
  BY DEF Visit, Visited
<1>2. \A m \in Visited : node_state'[m] = node_state[m]
  BY DEF Visit
<1>3. node_state'[n] = [depth |-> depth, low_link |-> depth, on_stack |-> TRUE]
  BY DEF Visit
<1>4. OnStack' = OnStack \cup {n} /\ n \notin OnStack
  BY <1>1, <1>2, <1>3 DEF OnStack
<1>5. depth \in 0 .. Size(graph) - 1 /\ depth' = depth + 1 /\ depth' = Cardinality(Visited')
  <2>1. Visited \subseteq Nodes(graph) /\ Visited' \subseteq Nodes(graph)
    BY <1>1 DEF TypeOK
  <2>2. IsFiniteSet(Visited) /\ IsFiniteSet(Visited')
    BY <2>1, GraphFacts, FS_Subset
  <2>3. Cardinality(Visited') <= Size(graph) /\ Cardinality(Visited) \in Nat
    BY <2>1, <2>2, GraphFacts, FS_Subset, FS_CardinalityType
  <2>4. Cardinality(Visited') = Cardinality(Visited) + 1
    BY <1>1, <2>2, FS_AddElement
  <2>5. Size(graph) \in Nat
    BY GraphFacts
  <2>6. depth' = depth + 1 /\ depth = Cardinality(Visited)
    BY DEF Visit, DepthsCount
  <2> QED BY <2>3, <2>4, <2>5, <2>6
<1>6. \A m \in Visited : Depth(m) < depth
  BY DEF DepthsCount
<1>7. component_nodes \in Seq(Visited') /\ component_nodes' = Append(component_nodes, n)
  BY <1>1, ElementOfSeq DEF Visit, TypeOK
<1>8. /\ component_nodes' \in Seq(Visited')
      /\ Len(component_nodes') = Len(component_nodes) + 1
      /\ \A i \in 1 .. Len(component_nodes) : component_nodes'[i] = component_nodes[i]
      /\ component_nodes'[Len(component_nodes) + 1] = n
  BY <1>1, <1>7, AppendFacts
<1>9. /\ DOMAIN component_nodes = 1 .. Len(component_nodes)
      /\ DOMAIN component_nodes' = 1 .. Len(component_nodes) + 1
      /\ Len(component_nodes) \in Nat
  BY <1>7, <1>8
<1>10. \A i \in 1 .. Len(component_nodes) : component_nodes[i] \in OnStack /\ component_nodes[i] \in Visited
  BY <1>9 DEF StacksAgree, Range, OnStack
<1>11. Range(component_nodes') = OnStack'
  <2>1. \A i \in DOMAIN component_nodes' : component_nodes'[i] \in OnStack \cup {n}
    BY <1>8, <1>9, <1>10
  <2>2. ASSUME NEW m \in OnStack
        PROVE  \E i \in DOMAIN component_nodes' : component_nodes'[i] = m
    <3>1. PICK i \in DOMAIN component_nodes : component_nodes[i] = m
      BY DEF StacksAgree, Range
    <3> QED BY <1>8, <1>9, <3>1
  <2>3. \E i \in DOMAIN component_nodes' : component_nodes'[i] = n
    BY <1>8, <1>9
  <2> QED BY <1>4, <2>1, <2>2, <2>3 DEF Range
<1>12. Deepening(component_nodes)'
  <2> SUFFICES ASSUME NEW i \in 1 .. Len(component_nodes) + 1,
                      NEW j \in 1 .. Len(component_nodes) + 1, i < j
               PROVE  node_state'[component_nodes'[i]].depth < node_state'[component_nodes'[j]].depth
    BY <1>9 DEF Deepening
  <2>1. i \in 1 .. Len(component_nodes)
    BY <1>9
  <2>2. node_state'[component_nodes'[i]] = node_state[component_nodes[i]]
    BY <1>2, <1>8, <1>10, <2>1
  <2>3. CASE j \in 1 .. Len(component_nodes)
    <3>1. node_state'[component_nodes'[j]] = node_state[component_nodes[j]]
      BY <1>2, <1>8, <1>10, <2>3
    <3> QED BY <1>9, <2>1, <2>2, <2>3, <3>1 DEF StacksAgree, Deepening
  <2>4. CASE j = Len(component_nodes) + 1
    BY <1>3, <1>6, <1>8, <1>10, <2>1, <2>2, <2>4 DEF Depth
  <2> QED BY <1>9, <2>3, <2>4
<1> QED BY <1>1, <1>2, <1>3, <1>4, <1>5, <1>6, <1>8, <1>11, <1>12

-----------------------------------------------------------------------------
(* Descending: a new node gets a frame of its own                           *)

LEMMA PushInvariant ==
    ASSUME IInv, NEW n \in Nodes(graph) \ Visited, Visit(n),
           recursion_stack' = Append(recursion_stack, [node |-> n, edge |-> 1]),
           UNCHANGED << graph, component, component_sizes >>,
           node' \in 0 .. Size(graph),
           \A m \in 0 .. node' - 1 : m \in Visited',
           recursion_stack # << >> =>
               LET top == Len(recursion_stack)
               IN  /\ recursion_stack[top].edge \in DOMAIN Edges(graph, FrameNode(top))
                   /\ Edge(FrameNode(top), recursion_stack[top].edge) = n
    PROVE  IInv'
<1> USE DEF IInv
<1>0. PICK top \in Nat : top = Len(recursion_stack)
  BY StackFacts
<1>1. /\ Visited' = Visited \cup {n}
      /\ OnStack' = OnStack \cup {n}
      /\ n \notin OnStack /\ n \notin Visited /\ n \in Nodes(graph)
      /\ \A m \in Visited : Depth(m)' = Depth(m) /\ Link(m)' = Link(m)
      /\ Depth(n)' = depth /\ Link(n)' = depth
      /\ depth \in 0 .. Size(graph) - 1 /\ depth' = depth + 1
      /\ \A m \in Visited : Depth(m) < depth
  BY VisitFacts DEF Depth, Link
<1>2. /\ top \in Nat /\ top = Len(recursion_stack)
      /\ DOMAIN recursion_stack = 1 .. top
      /\ \A m \in Visited : Depth(m) \in Nat /\ Link(m) \in Nat
      /\ \A i \in 1 .. top : FrameNode(i) \in OnStack /\ recursion_stack[i].edge \in Nat \ {0}
      /\ \A i, j \in 1 .. top : i < j => Depth(FrameNode(i)) < Depth(FrameNode(j))
      /\ OnStack \subseteq Visited
  BY <1>0, StackFacts DEF OnStack
<1>3. /\ recursion_stack' \in Seq([node : Visited', edge : Nat \ {0}])
      /\ Len(recursion_stack') = top + 1
      /\ DOMAIN recursion_stack' = 1 .. top + 1
      /\ \A i \in 1 .. top : recursion_stack'[i] = recursion_stack[i]
      /\ recursion_stack'[top + 1] = [node |-> n, edge |-> 1]
  <2>1. recursion_stack \in Seq([node : Visited', edge : Nat \ {0}])
    <3>1. [node : Visited, edge : Nat \ {0}] \subseteq [node : Visited', edge : Nat \ {0}]
      BY <1>1
    <3> QED BY <3>1, SeqMonotone DEF TypeOK
  <2>2. [node |-> n, edge |-> 1] \in [node : Visited', edge : Nat \ {0}]
    BY <1>1
  <2> QED BY <1>2, <2>1, <2>2, AppendFacts
<1>4. /\ \A i \in 1 .. top : FrameNode(i)' = FrameNode(i)
      /\ FrameNode(top + 1)' = n
      /\ \A i \in 1 .. top : recursion_stack'[i].edge = recursion_stack[i].edge
      /\ recursion_stack'[top + 1].edge = 1
  BY <1>3 DEF FrameNode
<1>5. /\ \A x, e : Edge(x, e)' = Edge(x, e)
      /\ \A x : Edges(graph, x)' = Edges(graph, x)
      /\ \A x, y : Reaches(x, y)' <=> Reaches(x, y)
  BY ReachesUnchanged DEF Edge
<1>6. Black' = Black /\ Black \subseteq OnStack
  <2>1. \A x : x \in Gray <=> \E i \in 1 .. top : FrameNode(i) = x
    BY <1>2 DEF Gray
  <2>2. \A x : x \in Gray' <=> \E i \in 1 .. top + 1 : FrameNode(i)' = x
    BY <1>3 DEF Gray
  <2>3. ASSUME NEW x \in Gray PROVE x \in Gray'
    BY <1>2, <1>4, <2>1, <2>2
  <2>4. n \in Gray'
    BY <1>2, <1>4, <2>2
  <2>5. ASSUME NEW x \in Gray', x # n PROVE x \in Gray
    <3>1. PICK i \in 1 .. top + 1 : FrameNode(i)' = x
      BY <2>2
    <3>2. i \in 1 .. top
      BY <1>2, <1>4, <2>5, <3>1
    <3> QED BY <1>4, <2>1, <3>1, <3>2
  <2> QED BY <1>1, <2>3, <2>4, <2>5 DEF Black
<1>7. OnStack = {} \/ recursion_stack # << >>
  BY DEF StackRooted
<1>8. IsGraph(graph)'
  BY DEF IsGraph
<1>9. TypeOK'
  <2>1. node' \in 0 .. Size(graph)' /\ depth' \in 0 .. Size(graph)'
    BY <1>1, GraphFacts
  <2>2. Visited' \subseteq Nodes(graph)'
    BY <1>1 DEF TypeOK
  <2>3. component_nodes' \in Seq(Visited')
    BY VisitFacts
  <2>4. node_state' \in [Visited' -> [ depth : 0 .. Size(graph) - 1,
                                       low_link : 0 .. Size(graph) - 1,
                                       on_stack : BOOLEAN ]]
    BY <1>1 DEF Visit, TypeOK
  <2>5. DOMAIN component' \subseteq Visited' /\ component' \in [DOMAIN component' -> Nat]
    BY <1>1 DEF TypeOK
  <2>6. component_sizes' \in Seq(Nat)
    BY DEF TypeOK
  <2> QED BY <1>3, <2>1, <2>2, <2>3, <2>4, <2>5, <2>6 DEF TypeOK
<1>10. DepthsCount'
  <2>1. depth' = Cardinality(Visited')
    BY VisitFacts
  <2>2. \A m \in Visited' : Depth(m)' < depth'
    BY <1>1, <1>2
  <2> QED BY <2>1, <2>2 DEF DepthsCount
<1>11. StackOrComponent'
  BY <1>1 DEF StackOrComponent
<1>12. StacksAgree'
  <2>1. (Range(component_nodes) = OnStack)' /\ Deepening(component_nodes)'
    BY VisitFacts
  <2>2. \A i \in 1 .. top + 1 : FrameNode(i)' \in OnStack'
    BY <1>1, <1>2, <1>4
  <2>3. \A i, j \in 1 .. top + 1 : i < j => Depth(FrameNode(i))' < Depth(FrameNode(j))'
    BY <1>1, <1>2, <1>4, SMTT(30)
  <2> QED BY <1>3, <2>1, <2>2, <2>3 DEF StacksAgree, Deepening, FrameNode, Depth
<1>13. FramesChain'
  <2> SUFFICES ASSUME NEW i \in 1 .. top + 1
               PROVE  /\ recursion_stack'[i].edge <= Len(Edges(graph, FrameNode(i)')) + 1
                      /\ i < top + 1 =>
                            /\ recursion_stack'[i].edge \in DOMAIN Edges(graph, FrameNode(i)')
                            /\ Edges(graph, FrameNode(i)')[recursion_stack'[i].edge] = FrameNode(i + 1)'
    BY <1>2, <1>3 DEF FramesChain, Edge
  <2>1. CASE i < top
    <3>1. i \in 1 .. top /\ i + 1 \in 1 .. top
      BY <1>2, <2>1
    <3> QED BY <1>2, <1>4, <2>1, <3>1, ZenonT(40) DEF FramesChain, Edge
  <2>2. CASE i = top
    BY <1>2, <1>3, <1>4, <2>2, EmptySeq DEF FramesChain, Edge
  <2>3. CASE i = top + 1
    <3>1. Len(Edges(graph, n)) \in Nat
      BY <1>1, GraphFacts
    <3> QED BY <1>2, <1>4, <2>3, <3>1
  <2> QED BY <1>2, <2>1, <2>2, <2>3
<1>14. StackRooted'
  <2>1. 1 \in 1 .. top + 1 /\ recursion_stack' # << >>
    BY <1>2, <1>3
  <2>2. CASE recursion_stack = << >>
    <3>1. OnStack' = {n} /\ FrameNode(1)' = n
      BY <1>1, <1>2, <1>4, <1>7, <2>2, EmptySeq DEF StackRooted
    <3> QED BY <1>1, <2>1, <3>1 DEF StackRooted, Depth
  <2>3. CASE recursion_stack # << >>
    <3>1. 1 \in 1 .. top
      BY <1>2, <2>3, EmptySeq
    <3>2. FrameNode(1)' = FrameNode(1) /\ FrameNode(1) \in Visited
      BY <1>2, <1>4, <3>1
    <3>3. \A x \in OnStack' : node_state'[FrameNode(1)'].depth <= node_state'[x].depth
      BY <1>1, <1>2, <3>2, <2>3 DEF StackRooted, Depth
    <3> QED BY <2>1, <3>3 DEF StackRooted, Depth
  <2> QED BY <2>2, <2>3
<1>15. LowLinkReached'
  <2> SUFFICES ASSUME NEW x \in OnStack'
               PROVE  /\ Link(x)' <= Depth(x)'
                      /\ \E m \in OnStack' : Depth(m)' = Link(x)' /\ Reaches(x, m)
    BY <1>5 DEF LowLinkReached, Link, Depth
  <2>1. CASE x = n
    BY <1>1, <2>1, ReachesSelf
  <2>2. CASE x \in OnStack
    <3>1. PICK m \in OnStack : Depth(m) = Link(x) /\ Reaches(x, m) /\ Link(x) <= Depth(x)
      BY <2>2 DEF LowLinkReached, Link, Depth
    <3>2. m \in OnStack' /\ Depth(m)' = Depth(m)
      BY <1>1, <1>2
    <3>3. Link(x)' = Link(x) /\ Depth(x)' = Depth(x)
      BY <1>1, <1>2, <2>2
    <3> QED BY <3>1, <3>2, <3>3
  <2> QED BY <1>1, <2>1, <2>2
<1>16. LinksCover'
  <2> SUFFICES ASSUME NEW x \in OnStack', NEW e \in DOMAIN Edges(graph, x), Followed(x, e)'
               PROVE  /\ Edge(x, e) \in Visited'
                      /\ Edge(x, e) \in OnStack' => Link(x)' <= Depth(Edge(x, e))'
    BY <1>5 DEF LinksCover
  <2>1. CASE x = n
    <3>1. e < 1
      BY <1>2, <1>3, <1>4, <2>1 DEF Followed
    <3>2. e \in 1 .. Len(Edges(graph, n)) /\ Len(Edges(graph, n)) \in Nat
      BY <1>1, <2>1, GraphFacts
    <3> QED BY <3>1, <3>2
  <2>2. CASE x \in OnStack
    <3>1. Followed(x, e)
      BY <1>2, <1>3, <1>4, <2>2 DEF Followed
    <3>2. Edge(x, e) \in Visited /\ (Edge(x, e) \in OnStack => Link(x) <= Depth(Edge(x, e)))
      BY <2>2, <3>1 DEF LinksCover
    <3>3. Link(x)' = Link(x) /\ Depth(Edge(x, e))' = Depth(Edge(x, e)) /\ Edge(x, e) # n
      BY <1>1, <1>2, <1>5, <2>2, <3>2 DEF Depth
    <3> QED BY <1>1, <3>2, <3>3
  <2> QED BY <1>1, <2>1, <2>2
<1>17. BlackLinked'
  BY <1>1, <1>2, <1>6 DEF BlackLinked
<1>18. BlackReachesGray'
  <2> SUFFICES ASSUME NEW x \in Black
               PROVE  \E i \in 1 .. top + 1 :
                         Depth(FrameNode(i))' < Depth(x)' /\ Reaches(x, FrameNode(i))'
    BY <1>3, <1>6 DEF BlackReachesGray
  <2>1. PICK i \in 1 .. top : Depth(FrameNode(i)) < Depth(x) /\ Reaches(x, FrameNode(i))
    BY <1>2 DEF BlackReachesGray
  <2>2. FrameNode(i)' = FrameNode(i) /\ FrameNode(i) \in Visited /\ x \in Visited
    BY <1>2, <1>4, <1>6
  <2>3. node_state'[FrameNode(i)'].depth < node_state'[x].depth
    BY <1>1, <2>1, <2>2 DEF Depth
  <2>4. Reaches(x, FrameNode(i))'
    BY <1>5, <2>1, <2>2
  <2> QED BY <1>2, <2>3, <2>4 DEF Depth
<1>19. GrayReaches'
  <2> SUFFICES ASSUME NEW i \in 1 .. top + 1, NEW x \in OnStack', Depth(FrameNode(i))' <= Depth(x)'
               PROVE  Reaches(FrameNode(i)', x)
    BY <1>3, <1>5 DEF GrayReaches, Reaches, Closed
  <2>1. CASE i = top + 1
    <3>1. x = n
      BY <1>1, <1>2, <1>4, <2>1 DEF Depth
    <3> QED BY <1>4, <2>1, <3>1, ReachesSelf
  <2>2. CASE i \in 1 .. top /\ x \in OnStack
    <3>1. FrameNode(i)' = FrameNode(i) /\ FrameNode(i) \in Visited /\ x \in Visited
      BY <1>2, <1>4, <2>2
    <3>2. Depth(FrameNode(i)) <= Depth(x)
      BY <1>1, <3>1 DEF Depth
    <3> QED BY <1>2, <2>2, <3>1, <3>2 DEF GrayReaches
  <2>3. CASE i \in 1 .. top /\ x = n
    <3>1. top \in 1 .. top /\ i <= top /\ recursion_stack # << >>
      BY <1>2, <2>3, EmptySeq
    <3>2. Depth(FrameNode(i)) <= Depth(FrameNode(top))
      BY <1>2, <2>3, <3>1
    <3>3. Reaches(FrameNode(i), FrameNode(top))
      BY <1>2, <2>3, <3>1, <3>2 DEF GrayReaches
    <3>4. Reaches(FrameNode(top), n)
      BY <1>2, <3>1, ReachesEdge
    <3> QED BY <1>4, <2>3, <3>3, <3>4, ReachesOn
  <2> QED BY <1>1, <1>2, <2>1, <2>2, <2>3
<1>20. LinksPropagate'
  <2> SUFFICES ASSUME NEW x \in Black, NEW i \in 1 .. top + 1, RightAbove(x, i)'
               PROVE  Link(FrameNode(i))' <= Link(x)'
    BY <1>3, <1>6 DEF LinksPropagate
  <2>1. x \in Visited /\ Depth(x)' = Depth(x) /\ Link(x)' = Link(x)
    BY <1>1, <1>2, <1>6
  <2>2. i # top + 1
    BY <1>1, <1>2, <1>4, <2>1 DEF RightAbove, Depth
  <2>3. i \in 1 .. top /\ FrameNode(i)' = FrameNode(i) /\ FrameNode(i) \in Visited
    BY <1>2, <1>4, <2>2
  <2>4. RightAbove(x, i)
    <3>1. Depth(FrameNode(i)) < Depth(x)
      BY <1>1, <2>1, <2>3 DEF RightAbove, Depth
    <3>2. ASSUME i < top
          PROVE  Depth(x) < Depth(FrameNode(i + 1))
      <4>1. i + 1 \in 1 .. top /\ FrameNode(i + 1)' = FrameNode(i + 1) /\ FrameNode(i + 1) \in Visited
        BY <1>2, <1>4, <2>3, <3>2
      <4>2. node_state'[x].depth < node_state'[FrameNode(i + 1)'].depth
        BY <1>2, <1>3, <3>2 DEF RightAbove, Depth
      <4> QED BY <1>1, <2>1, <4>1, <4>2 DEF Depth
    <3> QED BY <1>2, <3>1, <3>2 DEF RightAbove
  <2>5. ~ ReturnsFrom(x, i)
    <3>1. SUFFICES ASSUME ReturnsFrom(x, i) PROVE FALSE
      OBVIOUS
    <3>2. i = top /\ Edge(FrameNode(i), recursion_stack[i].edge) \in Black
      BY <1>0, <3>1 DEF ReturnsFrom
    <3>3. recursion_stack # << >>
      BY <1>0, <2>3, <3>2
    <3> QED BY <1>1, <1>2, <1>6, <3>2, <3>3
  <2>6. Link(FrameNode(i)) <= Link(x)
    BY <1>2, <2>3, <2>4, <2>5 DEF LinksPropagate
  <2> QED BY <1>1, <2>1, <2>3, <2>6 DEF Link
<1>21. ComponentsClosed'
  BY <1>5 DEF ComponentsClosed
<1>22. ComponentsMutual'
  BY <1>5 DEF ComponentsMutual
<1>23. SizesCount'
  BY DEF SizesCount
<1> QED BY <1>8, <1>9, <1>10, <1>11, <1>12, <1>13, <1>14, <1>15, <1>16, <1>17, <1>18, <1>19,
           <1>20, <1>21, <1>22, <1>23

-----------------------------------------------------------------------------
(* Following an edge: the link of the top frame takes in that of its target *)

LEMMA FollowInvariant ==
    ASSUME IInv, FollowEdge
    PROVE  IInv'
<1> USE DEF IInv
<1>0. PICK top \in Nat : top = Len(recursion_stack)
  BY StackFacts
<1>1. /\ 1 \in 1 .. top /\ top \in 1 .. top
      /\ DOMAIN recursion_stack = 1 .. top
      /\ \A m \in Visited : Depth(m) \in Nat /\ Link(m) \in Nat
      /\ \A i \in 1 .. top : FrameNode(i) \in OnStack /\ recursion_stack[i].edge \in Nat \ {0}
      /\ \A i, j \in 1 .. top : i < j => Depth(FrameNode(i)) < Depth(FrameNode(j))
      /\ \A i, j \in 1 .. top : FrameNode(i) = FrameNode(j) => i = j
      /\ OnStack \subseteq Visited
  <2>1. top # 0
    BY <1>0, EmptySeq DEF FollowEdge, TypeOK
  <2>2. 1 \in 1 .. top /\ top \in 1 .. top
    BY <2>1
  <2>3. OnStack \subseteq Visited
    BY DEF OnStack
  <2> QED BY <1>0, <2>2, <2>3, StackFacts
<1>2. PICK g \in OnStack, k \in Nat \ {0} : g = FrameNode(top) /\ k = recursion_stack[top].edge
  BY <1>1
<1>3. PICK c \in Visited : k \in DOMAIN Edges(graph, g) /\ c = Edge(g, k)
  <2>1. ~ (k > Len(Edges(graph, g))) /\ Edges(graph, g)[k] \in Visited
    BY <1>0, <1>2 DEF FollowEdge, OutOfEdges, Neighbor, Frame, Last, FrameNode
  <2>2. Edges(graph, g) \in Seq(Nodes(graph))
    BY <1>1, GraphFacts DEF TypeOK
  <2>3. Len(Edges(graph, g)) \in Nat /\ DOMAIN Edges(graph, g) = 1 .. Len(Edges(graph, g))
    BY <2>2
  <2> QED BY <2>1, <2>3 DEF Edge
<1>4. /\ recursion_stack' \in Seq([node : Visited, edge : Nat \ {0}])
      /\ Len(recursion_stack') = top
      /\ DOMAIN recursion_stack' = 1 .. top
      /\ \A i \in 1 .. top : i # top => recursion_stack'[i] = recursion_stack[i]
      /\ \A i \in 1 .. top : FrameNode(i)' = FrameNode(i)
      /\ recursion_stack'[top].edge = k + 1
  <2>1. recursion_stack' = [recursion_stack EXCEPT ![top].edge = @ + 1]
    BY <1>0 DEF FollowEdge
  <2>2. recursion_stack \in Seq([node : Visited, edge : Nat \ {0}])
    BY DEF TypeOK
  <2>3. recursion_stack[top] \in [node : Visited, edge : Nat \ {0}]
    BY <1>0, <1>1, <2>2, ElementOfSeq
  <2>4. [recursion_stack[top] EXCEPT !.edge = @ + 1] = [node |-> g, edge |-> k + 1]
    BY <1>2, <2>3 DEF FrameNode
  <2>5. [node |-> g, edge |-> k + 1] \in [node : Visited, edge : Nat \ {0}]
    BY <1>1
  <2>6. recursion_stack' = [recursion_stack EXCEPT ![top] = [node |-> g, edge |-> k + 1]]
    BY <2>1, <2>4
  <2>7. /\ recursion_stack' \in Seq([node : Visited, edge : Nat \ {0}])
        /\ Len(recursion_stack') = top
        /\ DOMAIN recursion_stack' = 1 .. top
        /\ \A i \in 1 .. top : i # top => recursion_stack'[i] = recursion_stack[i]
        /\ recursion_stack'[top] = [node |-> g, edge |-> k + 1]
    BY <1>0, <1>1, <2>2, <2>5, <2>6, ExceptFacts
  <2> QED BY <1>2, <2>7 DEF FrameNode
<1>5. /\ Visited' = Visited
      /\ OnStack' = OnStack
      /\ \A m \in Visited : Depth(m)' = Depth(m)
      /\ \A m \in Visited : m # g => Link(m)' = Link(m)
      /\ Link(g)' = IF c \in OnStack /\ Link(c) < Link(g) THEN Link(c) ELSE Link(g)
      /\ node_state' \in [Visited -> [ depth : 0 .. Size(graph) - 1,
                                       low_link : 0 .. Size(graph) - 1,
                                       on_stack : BOOLEAN ]]
  <2>1. node_state' = [node_state EXCEPT ![g].low_link = Lowered(@, node_state[c])]
    BY <1>0, <1>2, <1>3 DEF FollowEdge, Frame, Neighbor, Last, FrameNode, Edge
  <2>2. node_state \in [Visited -> [ depth : 0 .. Size(graph) - 1,
                                     low_link : 0 .. Size(graph) - 1,
                                     on_stack : BOOLEAN ]]
    BY DEF TypeOK
  <2>3. g \in Visited /\ c \in Visited
    BY <1>1
  <2>4. Lowered(node_state[g].low_link, node_state[c])
            = IF c \in OnStack /\ Link(c) < Link(g) THEN Link(c) ELSE Link(g)
    BY <2>3 DEF Lowered, OnStack, Link
  <2>5. Lowered(node_state[g].low_link, node_state[c]) \in 0 .. Size(graph) - 1
    BY <2>2, <2>3 DEF Lowered
  <2>6. \A m \in Visited : m # g => node_state'[m] = node_state[m]
    BY <2>1, <2>2
  <2>7. node_state'[g] = [node_state[g] EXCEPT !.low_link = Lowered(@, node_state[c])]
    BY <2>1, <2>2, <2>3
  <2>8. /\ node_state'[g].depth = node_state[g].depth
        /\ node_state'[g].on_stack = node_state[g].on_stack
        /\ node_state'[g].low_link = Lowered(node_state[g].low_link, node_state[c])
    BY <2>2, <2>3, <2>7
  <2>9. Visited' = Visited
    BY <2>1 DEF Visited
  <2>10. node_state' \in [Visited -> [ depth : 0 .. Size(graph) - 1,
                                       low_link : 0 .. Size(graph) - 1,
                                       on_stack : BOOLEAN ]]
    BY <2>1, <2>2, <2>3, <2>5
  <2>11. OnStack' = OnStack
    BY <2>6, <2>8, <2>9 DEF OnStack
  <2> QED BY <2>4, <2>6, <2>8, <2>9, <2>10, <2>11 DEF Depth, Link
<1>5a. Link(g)' <= Link(g) /\ Link(g)' \in Nat /\ (c \in OnStack => Link(g)' <= Link(c))
  <2>1. Link(g) \in Nat /\ Link(c) \in Nat
    BY <1>1
  <2> QED BY <1>5, <2>1
<1>6. /\ \A x, e : Edge(x, e)' = Edge(x, e)
      /\ \A x : Edges(graph, x)' = Edges(graph, x)
      /\ \A x, y : Reaches(x, y)' <=> Reaches(x, y)
      /\ UNCHANGED << graph, node, component_nodes, depth, component, component_sizes >>
  BY ReachesUnchanged DEF Edge, FollowEdge
<1>7. Gray' = Gray /\ Black' = Black /\ Black \subseteq OnStack /\ g \notin Black
  <2>1. Gray' = Gray
    BY <1>1, <1>4, SMTT(30) DEF Gray
  <2> QED BY <1>1, <1>2, <1>5, <2>1 DEF Black, Gray
<1>8. Reaches(g, c)
  BY <1>3, ReachesEdge
<1>9. IsGraph(graph)' /\ TypeOK'
  BY <1>4, <1>5, <1>6 DEF TypeOK, IsGraph
<1>10. DepthsCount' /\ StackOrComponent'
  BY <1>5, <1>6 DEF DepthsCount, StackOrComponent
<1>11. StacksAgree'
  <2>1. component_nodes \in Seq(Visited) /\ DOMAIN component_nodes = 1 .. Len(component_nodes)
    BY DEF TypeOK
  <2>2. Range(component_nodes)' = OnStack'
    BY <1>5, <1>6 DEF StacksAgree, Range
  <2>3. Deepening(component_nodes)'
    <3>1. \A i \in DOMAIN component_nodes : component_nodes[i] \in Visited
      BY <2>1
    <3> QED BY <1>5, <1>6, <3>1 DEF StacksAgree, Deepening, Depth
  <2>4. \A i \in 1 .. top : FrameNode(i)' \in OnStack'
    BY <1>1, <1>4, <1>5
  <2>5. \A i, j \in 1 .. top : i < j => Depth(FrameNode(i))' < Depth(FrameNode(j))'
    <3>1. \A i \in 1 .. top : Depth(FrameNode(i))' = Depth(FrameNode(i))
      BY <1>1, <1>4, <1>5 DEF Depth
    <3> QED BY <1>1, <3>1
  <2> QED BY <1>4, <2>2, <2>3, <2>4, <2>5 DEF StacksAgree, Deepening, FrameNode, Depth
<1>12. FramesChain'
  <2> SUFFICES ASSUME NEW i \in 1 .. top
               PROVE  /\ recursion_stack'[i].edge <= Len(Edges(graph, FrameNode(i)')) + 1
                      /\ i < top =>
                            /\ recursion_stack'[i].edge \in DOMAIN Edges(graph, FrameNode(i)')
                            /\ Edges(graph, FrameNode(i)')[recursion_stack'[i].edge] = FrameNode(i + 1)'
    BY <1>4, <1>6 DEF FramesChain, Edge
  <2>1. CASE i < top
    <3>1. i \in 1 .. top /\ i + 1 \in 1 .. top /\ i # top
      BY <2>1
    <3> QED BY <1>0, <1>1, <1>4, <2>1, <3>1 DEF FramesChain, Edge
  <2>2. CASE i = top
    <3>1. Edges(graph, g) \in Seq(Nodes(graph))
      BY <1>1, GraphFacts DEF TypeOK
    <3>2. k <= Len(Edges(graph, g)) /\ Len(Edges(graph, g)) \in Nat
      BY <1>3, <3>1
    <3> QED BY <1>2, <1>4, <2>2, <3>2
  <2> QED BY <2>1, <2>2
<1>13. StackRooted'
  <2>1. recursion_stack' # << >>
    BY <1>1, <1>4
  <2>2. \A x \in OnStack : node_state'[FrameNode(1)'].depth <= node_state'[x].depth
    BY <1>1, <1>4, <1>5 DEF StackRooted, Depth
  <2> QED BY <1>5, <2>1, <2>2 DEF StackRooted, Depth
<1>14. LowLinkReached'
  <2> SUFFICES ASSUME NEW x \in OnStack
               PROVE  /\ Link(x)' <= Depth(x)'
                      /\ \E m \in OnStack : Depth(m)' = Link(x)' /\ Reaches(x, m)
    BY <1>5, <1>6 DEF LowLinkReached, Link, Depth
  <2>1. \A y \in OnStack : /\ Link(y) <= Depth(y)
                           /\ \E m \in OnStack : Depth(m) = Link(y) /\ Reaches(y, m)
    BY DEF LowLinkReached, Link, Depth
  <2>2. CASE Link(x)' = Link(x)
    BY <1>1, <1>5, <2>1, <2>2
  <2>3. CASE x = g /\ c \in OnStack /\ Link(c) < Link(g) /\ Link(g)' = Link(c)
    <3>1. PICK m \in OnStack : Depth(m) = Link(c) /\ Reaches(c, m)
      BY <2>1, <2>3
    <3>2. Reaches(g, m)
      BY <1>8, <3>1, ReachesOn
    <3>3. Link(g)' <= Depth(g)'
      BY <1>1, <1>3, <1>5, <2>1, <2>3, SMTT(30)
    <3> QED BY <1>1, <1>5, <2>3, <3>1, <3>2, <3>3
  <2> QED BY <1>1, <1>5, <2>2, <2>3
<1>15. LinksCover'
  <2> SUFFICES ASSUME NEW x \in OnStack, NEW e \in DOMAIN Edges(graph, x), Followed(x, e)'
               PROVE  /\ Edge(x, e) \in Visited
                      /\ Edge(x, e) \in OnStack => Link(x)' <= Depth(Edge(x, e))'
    BY <1>5, <1>6 DEF LinksCover
  <2>1. Link(x)' <= Link(x) /\ Link(x)' \in Nat /\ x \in Visited
    <3>1. x \in Visited /\ Link(x) \in Nat
      BY <1>1
    <3>2. CASE x = g
      BY <1>5a, <3>1, <3>2
    <3>3. CASE x # g
      BY <1>5, <3>1, <3>3
    <3> QED BY <3>1, <3>2, <3>3
  <2>2. CASE Followed(x, e)
    <3>1. Edge(x, e) \in Visited /\ (Edge(x, e) \in OnStack => Link(x) <= Depth(Edge(x, e)))
      BY <2>2 DEF LinksCover
    <3>2. Depth(Edge(x, e))' = Depth(Edge(x, e))
      BY <1>5, <1>6, <3>1 DEF Depth
    <3> QED BY <1>1, <2>1, <3>1, <3>2
  <2>3. CASE ~ Followed(x, e)
    <3>1. x = g /\ e = k
      <4>1. PICK i \in 1 .. top : FrameNode(i) = x /\ ~ (e < recursion_stack[i].edge)
        BY <1>1, <2>3 DEF Followed
      <4>2. e < recursion_stack'[i].edge
        BY <1>4, <4>1 DEF Followed
      <4>3. i = top
        BY <1>4, <4>1, <4>2
      <4>4. Edges(graph, x) \in Seq(Nodes(graph))
        BY <1>1, GraphFacts DEF TypeOK
      <4>5. e \in Nat
        BY <4>4
      <4> QED BY <1>2, <1>4, <4>1, <4>2, <4>3, <4>5
    <3>2. Edge(x, e) = c /\ Depth(Edge(x, e))' = Depth(c)
      BY <1>3, <1>5, <1>6, <3>1 DEF Depth
    <3>3. c \in OnStack => Link(g)' <= Depth(c)
      <4>1. c \in OnStack => Link(c) <= Depth(c)
        BY DEF LowLinkReached, Link, Depth
      <4> QED BY <1>1, <1>5, <4>1
    <3> QED BY <3>1, <3>2, <3>3
  <2> QED BY <2>2, <2>3
<1>16. BlackLinked'
  <2> SUFFICES ASSUME NEW x \in Black PROVE Link(x)' < Depth(x)'
    BY <1>7 DEF BlackLinked
  <2>1. x \in Visited /\ x # g
    BY <1>1, <1>7
  <2>2. Link(x)' = Link(x) /\ Depth(x)' = Depth(x)
    BY <1>5, <2>1
  <2> QED BY <2>2 DEF BlackLinked
<1>17. BlackReachesGray'
  <2> SUFFICES ASSUME NEW x \in Black
               PROVE  \E i \in 1 .. top : Depth(FrameNode(i))' < Depth(x)' /\ Reaches(x, FrameNode(i))'
    BY <1>4, <1>7 DEF BlackReachesGray
  <2>1. PICK i \in 1 .. top : Depth(FrameNode(i)) < Depth(x) /\ Reaches(x, FrameNode(i))
    BY <1>1 DEF BlackReachesGray
  <2>2. FrameNode(i)' = FrameNode(i) /\ FrameNode(i) \in Visited /\ x \in Visited
    BY <1>1, <1>4, <1>7
  <2>3. node_state'[FrameNode(i)'].depth < node_state'[x].depth
    BY <1>5, <2>1, <2>2 DEF Depth
  <2>4. Reaches(x, FrameNode(i))'
    BY <1>6, <2>1, <2>2
  <2> QED BY <2>3, <2>4 DEF Depth
<1>18. GrayReaches'
  <2> SUFFICES ASSUME NEW i \in 1 .. top, NEW x \in OnStack, Depth(FrameNode(i))' <= Depth(x)'
               PROVE  Reaches(FrameNode(i), x)'
    BY <1>4, <1>5 DEF GrayReaches
  <2>1. FrameNode(i)' = FrameNode(i) /\ FrameNode(i) \in Visited /\ x \in Visited
    BY <1>1, <1>4
  <2>2. Depth(FrameNode(i)) <= Depth(x)
    BY <1>5, <2>1 DEF Depth
  <2>3. Reaches(FrameNode(i), x)
    BY <1>1, <2>2 DEF GrayReaches
  <2> QED BY <1>6, <2>1, <2>3
<1>19. LinksPropagate'
  <2> SUFFICES ASSUME NEW x \in Black, NEW i \in 1 .. top, RightAbove(x, i)'
               PROVE  Link(FrameNode(i))' <= Link(x)'
    BY <1>4, <1>7 DEF LinksPropagate
  <2>1. /\ x \in Visited /\ x # g /\ Link(x)' = Link(x) /\ Depth(x)' = Depth(x)
        /\ FrameNode(i)' = FrameNode(i) /\ FrameNode(i) \in Visited
    BY <1>1, <1>4, <1>5, <1>7
  <2>2. RightAbove(x, i)
    <3>1. Depth(FrameNode(i)) < Depth(x)
      BY <1>5, <2>1 DEF RightAbove, Depth
    <3>2. ASSUME i < top
          PROVE  Depth(x) < Depth(FrameNode(i + 1))
      <4>1. i + 1 \in 1 .. top /\ FrameNode(i + 1)' = FrameNode(i + 1) /\ FrameNode(i + 1) \in Visited
        <5>1. i + 1 \in 1 .. top
          BY <3>2
        <5> QED BY <1>1, <1>4, <5>1
      <4>2. node_state'[x].depth < node_state'[FrameNode(i + 1)'].depth
        BY <1>4, <3>2 DEF RightAbove, Depth
      <4> QED BY <1>5, <2>1, <4>1, <4>2 DEF Depth
    <3> QED BY <1>0, <3>1, <3>2 DEF RightAbove
  <2>3. Link(FrameNode(i)) <= Link(x) \/ ReturnsFrom(x, i)
    BY <1>1, <2>2 DEF LinksPropagate
  <2>4. CASE i # top
    <3>1. FrameNode(i) # g /\ Link(FrameNode(i))' = Link(FrameNode(i))
      BY <1>1, <1>2, <1>5, <2>1, <2>4 DEF Link
    <3>2. ~ ReturnsFrom(x, i)
      BY <1>0, <2>4 DEF ReturnsFrom
    <3> QED BY <2>1, <2>3, <3>1, <3>2
  <2>5. CASE i = top
    <3>1. Link(FrameNode(i))' = Link(g)'
      BY <1>2, <2>1, <2>5 DEF Link
    <3>2. Link(g) \in Nat /\ Link(x) \in Nat /\ Link(c) \in Nat
      BY <1>1, <2>1
    <3>3. CASE Link(FrameNode(i)) <= Link(x)
      BY <1>2, <1>5a, <2>1, <2>5, <3>1, <3>2, <3>3
    <3>4. CASE ReturnsFrom(x, i)
      <4>1. c \in Black /\ Link(c) <= Link(x)
        BY <1>2, <1>3, <2>5, <3>4 DEF ReturnsFrom
      <4> QED BY <1>5a, <1>7, <2>1, <3>1, <3>2, <4>1
    <3> QED BY <2>3, <3>3, <3>4
  <2> QED BY <2>4, <2>5
<1>20. ComponentsClosed' /\ ComponentsMutual' /\ SizesCount'
  BY <1>6 DEF ComponentsClosed, ComponentsMutual, SizesCount
<1> QED BY <1>9, <1>10, <1>11, <1>12, <1>13, <1>14, <1>15, <1>16, <1>17, <1>18, <1>19, <1>20

-----------------------------------------------------------------------------
(* Backtracking: the top frame is out of edges and goes                     *)

LEMMA BacktrackFacts ==
    ASSUME IInv, recursion_stack # << >>, OutOfEdges, recursion_stack' = Front(recursion_stack),
           NEW top \in Nat, top = Len(recursion_stack),
           NEW c, c = FrameNode(top)
    PROVE  /\ 1 \in 1 .. top /\ top \in 1 .. top
           /\ DOMAIN recursion_stack = 1 .. top
           /\ \A i \in 1 .. top : FrameNode(i) \in OnStack
           /\ \A i, j \in 1 .. top : i < j => Depth(FrameNode(i)) < Depth(FrameNode(j))
           /\ \A i, j \in 1 .. top : FrameNode(i) = FrameNode(j) => i = j
           /\ c \in OnStack /\ c \in Gray
           /\ recursion_stack' \in Seq([node : Visited, edge : Nat \ {0}])
           /\ Len(recursion_stack') = top - 1
           /\ DOMAIN recursion_stack' = 1 .. top - 1
           /\ \A i \in 1 .. top - 1 : recursion_stack'[i] = recursion_stack[i]
           /\ \A i \in 1 .. top - 1 : FrameNode(i)' = FrameNode(i)
           /\ Gray' = Gray \ {c}
           /\ \A e \in DOMAIN Edges(graph, c) : Followed(c, e)
           /\ \A n \in OnStack : Depth(c) < Depth(n) => n \in Black /\ Link(c) <= Link(n)
           /\ \A x : x \in Gray <=> \E i \in 1 .. top : FrameNode(i) = x
<1> USE DEF IInv
<1>1. top # 0
  BY EmptySeq DEF TypeOK
<1>2. 1 \in 1 .. top /\ top \in 1 .. top
  BY <1>1
<1>3. /\ DOMAIN recursion_stack = 1 .. top
      /\ \A i \in 1 .. top : FrameNode(i) \in OnStack /\ recursion_stack[i].edge \in Nat \ {0}
      /\ \A i, j \in 1 .. top : i < j => Depth(FrameNode(i)) < Depth(FrameNode(j))
      /\ \A i, j \in 1 .. top : FrameNode(i) = FrameNode(j) => i = j
      /\ \A m \in Visited : Depth(m) \in Nat /\ Link(m) \in Nat
  BY StackFacts
<1>4. c \in OnStack /\ c \in Gray
  BY <1>2, <1>3 DEF Gray
<1>5. /\ recursion_stack' \in Seq([node : Visited, edge : Nat \ {0}])
      /\ Len(recursion_stack') = top - 1
      /\ \A i \in 1 .. top - 1 : recursion_stack'[i] = recursion_stack[i]
  <2>1. recursion_stack \in Seq([node : Visited, edge : Nat \ {0}])
    BY DEF TypeOK
  <2> QED BY <2>1, FrontFacts
<1>6. DOMAIN recursion_stack' = 1 .. top - 1
  BY <1>5
<1>7. \A i \in 1 .. top - 1 : FrameNode(i)' = FrameNode(i)
  BY <1>5 DEF FrameNode
<1>8. \A x : x \in Gray <=> \E i \in 1 .. top : FrameNode(i) = x
  BY <1>3 DEF Gray
<1>9. Gray' = Gray \ {c}
  <2>1. \A x : x \in Gray' <=> \E i \in 1 .. top - 1 : FrameNode(i)' = x
    BY <1>6 DEF Gray
  <2>2. ASSUME NEW x \in Gray'
        PROVE  x \in Gray /\ x # c
    <3>1. PICK i \in 1 .. top - 1 : FrameNode(i)' = x
      BY <2>1
    <3>2. i \in 1 .. top /\ i # top
      BY <1>2
    <3> QED BY <1>2, <1>3, <1>7, <1>8, <3>1, <3>2
  <2>3. ASSUME NEW x \in Gray, x # c
        PROVE  x \in Gray'
    <3>1. PICK i \in 1 .. top : FrameNode(i) = x
      BY <1>8
    <3>2. i \in 1 .. top - 1
      BY <2>3, <3>1
    <3> QED BY <1>7, <2>1, <3>1, <3>2
  <2> QED BY <2>2, <2>3
<1>10. ASSUME NEW e \in DOMAIN Edges(graph, c)
       PROVE  Followed(c, e)
  <2>1. recursion_stack[top].edge > Len(Edges(graph, c))
    BY DEF OutOfEdges, Frame, Last, FrameNode
  <2>2. c \in Nodes(graph)
    BY <1>4 DEF OnStack, TypeOK
  <2>3. e \in 1 .. Len(Edges(graph, c)) /\ Len(Edges(graph, c)) \in Nat
    BY <2>2, GraphFacts
  <2>4. recursion_stack[top].edge \in Nat
    BY <1>2, <1>3
  <2>5. e < recursion_stack[top].edge
    BY <2>1, <2>3, <2>4
  <2> QED BY <1>2, <1>3, <2>5 DEF Followed
<1>11. ASSUME NEW n \in OnStack, Depth(c) < Depth(n)
       PROVE  n \in Black /\ Link(c) <= Link(n)
  <2>1. n \notin Gray
    <3>1. SUFFICES ASSUME n \in Gray PROVE FALSE
      OBVIOUS
    <3>2. PICK i \in 1 .. top : FrameNode(i) = n
      BY <1>8, <3>1
    <3>3. i = top \/ i < top
      OBVIOUS
    <3>4. Depth(n) \in Nat /\ Depth(c) \in Nat
      BY <1>3, <1>4 DEF OnStack
    <3> QED BY <1>2, <1>3, <1>11, <3>2, <3>3, <3>4
  <2>2. n \in Black
    BY <2>1 DEF Black
  <2>3. RightAbove(n, top)
    BY <1>11 DEF RightAbove
  <2>4. ~ ReturnsFrom(n, top)
    <3>1. SUFFICES ASSUME recursion_stack[top].edge \in DOMAIN Edges(graph, c) PROVE FALSE
      BY DEF ReturnsFrom
    <3>2. recursion_stack[top].edge < recursion_stack[top].edge
      BY <1>2, <1>3, <1>10, <3>1 DEF Followed
    <3>3. recursion_stack[top].edge \in Nat
      BY <1>2, <1>3
    <3> QED BY <3>2, <3>3
  <2> QED BY <1>2, <1>3, <2>2, <2>3, <2>4 DEF LinksPropagate
<1> QED BY <1>2, <1>3, <1>4, <1>5, <1>6, <1>7, <1>8, <1>9, <1>10, <1>11

\* Without a component: the node turns black.
LEMMA LeaveInvariant ==
    ASSUME IInv, Backtrack, Link(Frame.node) # Depth(Frame.node)
    PROVE  IInv'
<1> USE DEF IInv
<1>0. PICK top \in Nat : top = Len(recursion_stack)
  BY StackFacts
<1>1. PICK c : c = FrameNode(top)
  OBVIOUS
<1>2. c = Frame.node
  BY <1>0, <1>1 DEF Frame, Last, FrameNode
<1>3. recursion_stack # << >> /\ OutOfEdges /\ recursion_stack' = Front(recursion_stack)
  BY DEF Backtrack
<1>4. UNCHANGED << graph, node, component_nodes, node_state, depth, component, component_sizes >>
  BY DEF Backtrack, Link, Depth
<1>5. /\ 1 \in 1 .. top /\ top \in 1 .. top
      /\ DOMAIN recursion_stack = 1 .. top
      /\ \A i \in 1 .. top : FrameNode(i) \in OnStack
      /\ \A i, j \in 1 .. top : i < j => Depth(FrameNode(i)) < Depth(FrameNode(j))
      /\ \A i, j \in 1 .. top : FrameNode(i) = FrameNode(j) => i = j
      /\ c \in OnStack /\ c \in Gray
  BY <1>0, <1>1, <1>3, BacktrackFacts
<1>6. /\ recursion_stack' \in Seq([node : Visited, edge : Nat \ {0}])
      /\ Len(recursion_stack') = top - 1
      /\ DOMAIN recursion_stack' = 1 .. top - 1
      /\ \A i \in 1 .. top - 1 : recursion_stack'[i] = recursion_stack[i]
      /\ \A i \in 1 .. top - 1 : FrameNode(i)' = FrameNode(i)
      /\ Gray' = Gray \ {c}
  BY <1>0, <1>1, <1>3, BacktrackFacts
<1>7. /\ \A e \in DOMAIN Edges(graph, c) : Followed(c, e)
      /\ \A n \in OnStack : Depth(c) < Depth(n) => n \in Black /\ Link(c) <= Link(n)
      /\ \A x : x \in Gray <=> \E i \in 1 .. top : FrameNode(i) = x
  BY <1>0, <1>1, <1>3, BacktrackFacts
<1>8. /\ Visited' = Visited /\ OnStack' = OnStack
      /\ \A x : Depth(x)' = Depth(x) /\ Link(x)' = Link(x)
      /\ \A x, e : Edge(x, e)' = Edge(x, e)
      /\ \A x, y : Reaches(x, y)' <=> Reaches(x, y)
  BY <1>4, ReachesUnchanged DEF Visited, OnStack, Depth, Link, Edge
<1>9. Black' = Black \cup {c}
  BY <1>5, <1>6, <1>8 DEF Black
<1>10. /\ \A m \in Visited : Depth(m) \in Nat /\ Link(m) \in Nat
       /\ \A x, y \in OnStack : Depth(x) = Depth(y) => x = y
       /\ OnStack \subseteq Visited /\ Black \subseteq OnStack
  BY StackFacts DEF OnStack, Black
<1>11. Link(c) < Depth(c)
  <2>1. Link(c) <= Depth(c)
    BY <1>5 DEF LowLinkReached, Link, Depth
  <2>2. Link(c) # Depth(c) /\ Link(c) \in Nat /\ Depth(c) \in Nat
    BY <1>2, <1>5, <1>10
  <2> QED BY <2>1, <2>2
\* the link leads to a node below, which is gray or reaches a gray node below it
<1>12. PICK m \in OnStack : Depth(m) = Link(c) /\ Reaches(c, m)
  BY <1>5 DEF LowLinkReached, Link, Depth
<1>13. PICK b \in 1 .. top - 1 : Depth(FrameNode(b)) < Depth(c) /\ Reaches(c, FrameNode(b))
  <2>1. PICK b \in 1 .. top : Depth(FrameNode(b)) < Depth(c) /\ Reaches(c, FrameNode(b))
    <3>1. Depth(m) < Depth(c)
      BY <1>11, <1>12
    <3>2. CASE m \in Gray
      BY <1>7, <1>12, <3>1, <3>2
    <3>3. CASE m \in Black
      <4>1. PICK i \in 1 .. top : Depth(FrameNode(i)) < Depth(m) /\ Reaches(m, FrameNode(i))
        BY <1>5, <3>3 DEF BlackReachesGray
      <4>2. Depth(FrameNode(i)) \in Nat /\ Depth(m) \in Nat /\ Depth(c) \in Nat
        BY <1>5, <1>10
      <4>3. Reaches(c, FrameNode(i))
        BY <1>12, <4>1, ReachesOn
      <4> QED BY <3>1, <4>1, <4>2, <4>3
    <3> QED BY <3>2, <3>3 DEF Black
  <2>2. b # top
    BY <1>1, <1>5, <1>10, <2>1
  <2>3. b \in 1 .. top - 1
    BY <2>2
  <2> QED BY <2>1, <2>3
<1>14. IsGraph(graph)' /\ TypeOK'
  BY <1>4, <1>6, <1>8 DEF TypeOK, IsGraph
<1>15. DepthsCount' /\ StackOrComponent'
  BY <1>4, <1>8 DEF DepthsCount, StackOrComponent
<1>16. StacksAgree'
  <2>1. (Range(component_nodes) = OnStack)' /\ Deepening(component_nodes)'
    BY <1>4, <1>8 DEF StacksAgree, Deepening, Range
  <2>2. \A i \in 1 .. top - 1 : i \in 1 .. top
    OBVIOUS
  <2>3. \A i \in 1 .. top - 1 : FrameNode(i)' \in OnStack
    BY <1>5, <1>6, <2>2
  <2>4. \A i, j \in 1 .. top - 1 : i < j => node_state'[FrameNode(i)'].depth < node_state'[FrameNode(j)'].depth
    BY <1>4, <1>5, <1>6, <2>2 DEF Depth
  <2> QED BY <1>6, <1>8, <2>1, <2>3, <2>4 DEF StacksAgree, Deepening, FrameNode
<1>17. FramesChain'
  <2> SUFFICES ASSUME NEW i \in 1 .. top - 1
               PROVE  /\ recursion_stack'[i].edge <= Len(Edges(graph, FrameNode(i)')) + 1
                      /\ i < top - 1 =>
                            /\ recursion_stack'[i].edge \in DOMAIN Edges(graph, FrameNode(i)')
                            /\ Edges(graph, FrameNode(i)')[recursion_stack'[i].edge] = FrameNode(i + 1)'
    BY <1>4, <1>6 DEF FramesChain, Edge
  <2>1. i \in 1 .. top /\ i < top
    OBVIOUS
  <2>2. recursion_stack[i].edge <= Len(Edges(graph, FrameNode(i))) + 1
    BY <1>5, <2>1 DEF FramesChain
  <2>3. ASSUME i < top - 1
        PROVE  /\ recursion_stack[i].edge \in DOMAIN Edges(graph, FrameNode(i))
               /\ Edges(graph, FrameNode(i))[recursion_stack[i].edge] = FrameNode(i + 1)
               /\ FrameNode(i + 1)' = FrameNode(i + 1)
    <3>1. i + 1 \in 1 .. top - 1
      BY <2>3
    <3> QED BY <1>0, <1>5, <1>6, <2>1, <3>1 DEF FramesChain, Edge
  <2> QED BY <1>6, <2>2, <2>3
<1>18. StackRooted'
  <2>1. recursion_stack' # << >>
    BY <1>6, <1>13
  <2>2. 1 \in 1 .. top - 1
    BY <1>13
  <2>3. \A n \in OnStack : node_state'[FrameNode(1)'].depth <= node_state'[n].depth
    BY <1>4, <1>6, <2>2 DEF StackRooted, Depth
  <2> QED BY <1>8, <2>1, <2>3 DEF StackRooted, Depth
<1>19. LowLinkReached'
  BY <1>4, <1>8 DEF LowLinkReached
<1>20. LinksCover'
  <2> SUFFICES ASSUME NEW n \in OnStack, NEW e \in DOMAIN Edges(graph, n), Followed(n, e)'
               PROVE  Followed(n, e)
    BY <1>4, <1>8 DEF LinksCover, Depth
  <2>1. CASE n = c
    BY <1>7, <2>1
  <2>2. CASE n # c
    <3> SUFFICES ASSUME NEW i \in 1 .. top, FrameNode(i) = n
                 PROVE  e < recursion_stack[i].edge
      BY <1>5 DEF Followed
    <3>1. i \in 1 .. top - 1
      BY <1>1, <2>2
    <3> QED BY <1>6, <3>1 DEF Followed
  <2> QED BY <2>1, <2>2
<1>21. BlackLinked'
  BY <1>8, <1>9, <1>11 DEF BlackLinked
<1>22. BlackReachesGray'
  <2> SUFFICES ASSUME NEW n \in Black'
               PROVE  \E i \in 1 .. top - 1 :
                         Depth(FrameNode(i)) < Depth(n) /\ Reaches(n, FrameNode(i))
    <3>1. \A i \in 1 .. top - 1 : Depth(FrameNode(i))' = Depth(FrameNode(i))
      BY <1>4, <1>6 DEF Depth
    <3>2. \A i \in 1 .. top - 1 : \A n \in Black' : Reaches(n, FrameNode(i))' <=> Reaches(n, FrameNode(i))
      BY <1>6, <1>8
    <3> QED BY <1>6, <1>8, <3>1, <3>2 DEF BlackReachesGray
  <2>1. CASE n = c
    BY <1>13, <2>1
  <2>2. CASE n \in Black
    <3>1. PICK i \in 1 .. top : Depth(FrameNode(i)) < Depth(n) /\ Reaches(n, FrameNode(i))
      BY <1>5, <2>2 DEF BlackReachesGray
    <3>2. CASE i # top
      <4>1. i \in 1 .. top - 1
        BY <3>2
      <4> QED BY <3>1, <4>1
    <3>3. CASE i = top
      <4>1. Reaches(n, FrameNode(b))
        BY <1>1, <1>13, <3>1, <3>3, ReachesOn
      <4>2. b \in 1 .. top
        OBVIOUS
      <4>3. Depth(FrameNode(b)) \in Nat /\ Depth(c) \in Nat /\ Depth(n) \in Nat
        BY <1>5, <1>10, <2>2, <4>2
      <4>4. Depth(FrameNode(b)) < Depth(n)
        BY <1>1, <1>13, <3>1, <3>3, <4>3
      <4> QED BY <4>1, <4>4
    <3> QED BY <3>2, <3>3
  <2> QED BY <1>9, <2>1, <2>2
<1>23. GrayReaches'
  <2> SUFFICES ASSUME NEW i \in 1 .. top - 1, NEW n \in OnStack, Depth(FrameNode(i))' <= Depth(n)'
               PROVE  Reaches(FrameNode(i), n)'
    BY <1>6, <1>8 DEF GrayReaches
  <2>1. i \in 1 .. top /\ FrameNode(i)' = FrameNode(i)
    BY <1>6
  <2>2. Depth(FrameNode(i)) <= Depth(n)
    BY <1>4, <2>1 DEF Depth
  <2>3. Reaches(FrameNode(i), n)
    BY <1>5, <2>1, <2>2 DEF GrayReaches
  <2> QED BY <1>8, <2>1, <2>3
<1>24. LinksPropagate'
  <2> SUFFICES ASSUME NEW n \in Black', NEW i \in 1 .. top - 1, RightAbove(n, i)'
               PROVE  Link(FrameNode(i))' <= Link(n)' \/ ReturnsFrom(n, i)'
    BY <1>6 DEF LinksPropagate
  <2>1. /\ i \in 1 .. top /\ i < top /\ FrameNode(i)' = FrameNode(i)
        /\ Link(FrameNode(i))' = Link(FrameNode(i)) /\ Link(n)' = Link(n)
        /\ n \in OnStack
    <3>1. i \in 1 .. top /\ i < top /\ FrameNode(i)' = FrameNode(i)
      BY <1>6
    <3>2. n \in OnStack
      BY <1>5, <1>9, <1>10
    <3> QED BY <1>4, <3>1, <3>2 DEF Link
  <2>2. Depth(FrameNode(i)) < Depth(n)
    BY <1>4, <2>1 DEF RightAbove, Depth
  <2>3. ASSUME i < top - 1
        PROVE  Depth(n) < Depth(FrameNode(i + 1))
    <3>1. i + 1 \in 1 .. top - 1 /\ FrameNode(i + 1)' = FrameNode(i + 1)
      BY <1>6, <2>3
    <3>2. node_state'[n].depth < node_state'[FrameNode(i + 1)'].depth
      BY <1>6, <2>3 DEF RightAbove, Depth
    <3> QED BY <1>4, <3>1, <3>2 DEF Depth
  <2>4. Depth(n) \in Nat /\ Depth(c) \in Nat /\ Depth(FrameNode(i)) \in Nat
    BY <1>5, <1>10, <2>1
  \* the node lies below the one that is left
  <2>5. CASE Depth(n) < Depth(c)
    <3>1. n \in Black
      BY <1>9, <2>4, <2>5
    <3>2. RightAbove(n, i)
      <4>1. ASSUME i + 1 = top
            PROVE  Depth(n) < Depth(FrameNode(i + 1))
        BY <1>1, <2>5, <4>1
      <4>2. i < top - 1 \/ i + 1 = top
        BY <2>1
      <4> QED BY <1>0, <2>2, <2>3, <4>1, <4>2 DEF RightAbove
    <3>3. ~ ReturnsFrom(n, i)
      BY <1>0, <2>1 DEF ReturnsFrom
    <3> QED BY <1>5, <2>1, <3>1, <3>2, <3>3 DEF LinksPropagate
  \* the node is the one that is left, or lies above it
  <2>6. CASE Depth(c) <= Depth(n)
    <3>1. i = top - 1
      <4>1. SUFFICES ASSUME i < top - 1 PROVE FALSE
        BY <2>1
      <4>2. i + 1 \in 1 .. top /\ i + 1 < top
        BY <4>1
      <4>3. Depth(FrameNode(i + 1)) < Depth(c) /\ Depth(FrameNode(i + 1)) \in Nat
        BY <1>1, <1>5, <1>10, <4>2
      <4> QED BY <2>3, <2>4, <2>6, <4>1, <4>3
    <3>2. recursion_stack[i].edge \in DOMAIN Edges(graph, FrameNode(i)) /\ Edge(FrameNode(i), recursion_stack[i].edge) = c
      <4>1. i + 1 = top
        BY <3>1
      <4> QED BY <1>0, <1>1, <1>5, <2>1, <4>1 DEF FramesChain
    <3>3. Link(c) <= Link(n)
      <4>1. CASE n = c
        BY <1>5, <1>10, <4>1
      <4>2. CASE n # c
        BY <1>5, <1>7, <1>10, <2>1, <2>4, <2>6, <4>2
      <4> QED BY <4>1, <4>2
    <3>4. Depth(FrameNode(i)) < Depth(c)
      BY <1>1, <1>5, <2>1
    <3>5. c \in Black'
      BY <1>9
    <3>6. recursion_stack'[i].edge = recursion_stack[i].edge /\ i = Len(recursion_stack')
      BY <1>6, <3>1
    <3>7. /\ recursion_stack'[i].edge \in DOMAIN Edges(graph, FrameNode(i)')
          /\ Edges(graph, FrameNode(i)')[recursion_stack'[i].edge] = c
      BY <2>1, <3>2, <3>6 DEF Edge
    <3>8. node_state'[FrameNode(i)'].depth < node_state'[c].depth
      BY <1>4, <2>1, <3>4 DEF Depth
    <3>9. node_state'[c].depth <= node_state'[n].depth /\ node_state'[c].low_link <= node_state'[n].low_link
      BY <1>4, <2>6, <3>3 DEF Depth, Link
    <3>10. ReturnsFrom(n, i)'
      BY <1>4, <3>5, <3>6, <3>7, <3>8, <3>9 DEF ReturnsFrom, Depth, Link, Edge
    <3> QED BY <3>10
  <2> QED BY <2>4, <2>5, <2>6
<1>25. ComponentsClosed' /\ ComponentsMutual' /\ SizesCount'
  BY <1>4, <1>8 DEF ComponentsClosed, ComponentsMutual, SizesCount
<1> QED BY <1>14, <1>15, <1>16, <1>17, <1>18, <1>19, <1>20, <1>21, <1>22, <1>23, <1>24, <1>25

\* The root of a component takes everything from itself upwards off the stack.
LEMMA RootFacts ==
    ASSUME IInv, Backtrack, NEW c, c = Frame.node, c \in OnStack, Link(c) = Depth(c),
           NEW M \in SUBSET OnStack, \A n \in OnStack : n \in M <=> Depth(c) <= Depth(n)
    PROVE  /\ UNCHANGED << graph, node, depth >>
           /\ component' = [ n \in DOMAIN component \cup M |->
                               IF n \in M THEN Len(component_sizes) ELSE component[n] ]
           /\ component_sizes' = Append(component_sizes, Cardinality(M))
           /\ Visited' = Visited
           /\ OnStack' = OnStack \ M
           /\ \A n \in Visited : Depth(n)' = Depth(n) /\ Link(n)' = Link(n)
           /\ node_state' \in [Visited -> [ depth : 0 .. Size(graph) - 1,
                                            low_link : 0 .. Size(graph) - 1,
                                            on_stack : BOOLEAN ]]
           /\ component_nodes' \in Seq(Visited)
           /\ Range(component_nodes') = OnStack \ M
           /\ Deepening(component_nodes)'
<1> USE DEF IInv
<1>1. PICK len \in Nat : len = Len(component_nodes)
  <2>1. component_nodes \in Seq(Visited)
    BY DEF TypeOK
  <2>2. Len(component_nodes) \in Nat
    BY <2>1
  <2> QED BY <2>2
<1>2. DOMAIN component_nodes = 1 .. len /\ component_nodes \in Seq(Visited)
  BY <1>1 DEF TypeOK
<1>3. \A i \in 1 .. len : component_nodes[i] \in OnStack /\ component_nodes[i] \in Visited
  BY <1>2 DEF StacksAgree, Range, OnStack
<1>4. \A x \in OnStack : \E i \in 1 .. len : component_nodes[i] = x
  BY <1>2 DEF StacksAgree, Range
<1>5. \A i, j \in 1 .. len : i < j => Depth(component_nodes[i]) < Depth(component_nodes[j])
  BY <1>2 DEF StacksAgree, Deepening, Depth
<1>6. \A n \in OnStack : Depth(n) \in Nat
  BY StackFacts DEF OnStack
<1>7. PICK k \in 1 .. len : k = FromRoot(c) /\ component_nodes[k] = c
  BY <1>2, <1>4 DEF FromRoot
<1>8. \A i \in 1 .. len : component_nodes[i] \in M <=> k <= i
  <2> TAKE i \in 1 .. len
  <2>1. Depth(component_nodes[i]) \in Nat /\ Depth(c) \in Nat
    BY <1>3, <1>6
  <2>2. CASE i < k
    BY <1>5, <1>7, <2>1, <2>2
  <2>3. CASE i = k
    BY <1>3, <1>7, <2>1, <2>3
  <2>4. CASE k < i
    BY <1>3, <1>5, <1>7, <2>1, <2>4
  <2> QED BY <2>2, <2>3, <2>4
<1>9. Range(SubSeq(component_nodes, k, len)) = M
  <2>1. Range(SubSeq(component_nodes, k, len)) = { component_nodes[i] : i \in k .. len }
    BY <1>1, <1>2, SuffixRange
  <2>2. ASSUME NEW x \in M
        PROVE  x \in { component_nodes[i] : i \in k .. len }
    <3>1. PICK i \in 1 .. len : component_nodes[i] = x
      BY <1>4
    <3>2. i \in k .. len
      BY <1>8, <3>1
    <3> QED BY <3>1, <3>2
  <2>3. ASSUME NEW i \in k .. len
        PROVE  component_nodes[i] \in M
    <3>1. i \in 1 .. len /\ k <= i
      OBVIOUS
    <3> QED BY <1>8, <3>1
  <2> QED BY <2>1, <2>2, <2>3
<1>10. node_state[c].low_link = node_state[c].depth
  BY DEF Link, Depth
<1>11. /\ UNCHANGED << graph, node, depth >>
       /\ component_nodes' = SubSeq(component_nodes, 1, k - 1)
       /\ node_state' = [ n \in Visited |-> [node_state[n] EXCEPT !.on_stack = @ /\ n \notin M] ]
       /\ component' = [ n \in DOMAIN component \cup M |->
                           IF n \in M THEN Len(component_sizes) ELSE component[n] ]
       /\ component_sizes' = Append(component_sizes, Cardinality(M))
  BY <1>1, <1>7, <1>9, <1>10 DEF Backtrack
<1>12. node_state \in [Visited -> [ depth : 0 .. Size(graph) - 1,
                                    low_link : 0 .. Size(graph) - 1,
                                    on_stack : BOOLEAN ]]
  BY DEF TypeOK
<1>13. \A n \in Visited : /\ node_state'[n].depth = node_state[n].depth
                          /\ node_state'[n].low_link = node_state[n].low_link
                          /\ node_state'[n].on_stack = (node_state[n].on_stack /\ n \notin M)
  BY <1>11, <1>12
<1>14. Visited' = Visited
  BY <1>11 DEF Visited
<1>15. OnStack' = OnStack \ M
  BY <1>13, <1>14 DEF OnStack
<1>16. node_state' \in [Visited -> [ depth : 0 .. Size(graph) - 1,
                                     low_link : 0 .. Size(graph) - 1,
                                     on_stack : BOOLEAN ]]
  BY <1>11, <1>12
<1>17. /\ component_nodes' \in Seq(Visited)
       /\ Len(component_nodes') = k - 1
       /\ \A i \in 1 .. k - 1 : component_nodes'[i] = component_nodes[i]
  <2>1. k - 1 \in 0 .. len
    OBVIOUS
  <2> QED BY <1>1, <1>2, <1>11, <2>1, PrefixFacts
<1>18. DOMAIN component_nodes' = 1 .. k - 1
  BY <1>17
<1>19. Range(component_nodes') = OnStack \ M
  <2>1. ASSUME NEW x \in OnStack \ M
        PROVE  \E i \in 1 .. k - 1 : component_nodes'[i] = x
    <3>1. PICK i \in 1 .. len : component_nodes[i] = x
      BY <1>4
    <3>2. i \in 1 .. k - 1
      BY <1>8, <3>1
    <3> QED BY <1>17, <3>1, <3>2
  <2>2. ASSUME NEW i \in 1 .. k - 1
        PROVE  component_nodes'[i] \in OnStack \ M
    <3>1. i \in 1 .. len /\ ~ (k <= i)
      OBVIOUS
    <3> QED BY <1>3, <1>8, <1>17, <3>1
  <2> QED BY <1>18, <2>1, <2>2 DEF Range
<1>20. Deepening(component_nodes)'
  <2> SUFFICES ASSUME NEW i \in 1 .. k - 1, NEW j \in 1 .. k - 1, i < j
               PROVE  node_state'[component_nodes'[i]].depth < node_state'[component_nodes'[j]].depth
    BY <1>18 DEF Deepening
  <2>1. i \in 1 .. len /\ j \in 1 .. len
    OBVIOUS
  <2>2. Depth(component_nodes[i]) < Depth(component_nodes[j])
    BY <1>5, <2>1
  <2> QED BY <1>3, <1>13, <1>17, <2>1, <2>2 DEF Depth
<1> QED BY <1>11, <1>13, <1>14, <1>15, <1>16, <1>17, <1>19, <1>20 DEF Depth, Link

\* With a component: what is taken off the stack is strongly connected and closed.
LEMMA RootInvariant ==
    ASSUME IInv, Backtrack, Link(Frame.node) = Depth(Frame.node)
    PROVE  IInv'
<1> USE DEF IInv
<1>0. PICK top \in Nat : top = Len(recursion_stack)
  BY StackFacts
<1>1. PICK c : c = FrameNode(top)
  OBVIOUS
<1>1a. c = Frame.node
  BY <1>0, <1>1 DEF Frame, Last, FrameNode
<1>1b. Link(c) = Depth(c)
  BY <1>1a
<1>2. PICK M \in SUBSET OnStack : \A n \in OnStack : n \in M <=> Depth(c) <= Depth(n)
  <2>1. { n \in OnStack : Depth(c) <= Depth(n) } \in SUBSET OnStack
    OBVIOUS
  <2> QED BY <2>1
<1>3. recursion_stack # << >> /\ OutOfEdges /\ recursion_stack' = Front(recursion_stack)
  BY DEF Backtrack
<1>4. /\ 1 \in 1 .. top /\ top \in 1 .. top
      /\ DOMAIN recursion_stack = 1 .. top
      /\ \A i \in 1 .. top : FrameNode(i) \in OnStack
      /\ \A i, j \in 1 .. top : i < j => Depth(FrameNode(i)) < Depth(FrameNode(j))
      /\ c \in OnStack /\ c \in Gray
  BY <1>0, <1>1, <1>3, BacktrackFacts
<1>5. /\ recursion_stack' \in Seq([node : Visited, edge : Nat \ {0}])
      /\ Len(recursion_stack') = top - 1
      /\ DOMAIN recursion_stack' = 1 .. top - 1
      /\ \A i \in 1 .. top - 1 : recursion_stack'[i] = recursion_stack[i]
      /\ \A i \in 1 .. top - 1 : FrameNode(i)' = FrameNode(i)
      /\ Gray' = Gray \ {c}
  BY <1>0, <1>1, <1>3, BacktrackFacts
<1>6. /\ \A e \in DOMAIN Edges(graph, c) : Followed(c, e)
      /\ \A n \in OnStack : Depth(c) < Depth(n) => n \in Black /\ Link(c) <= Link(n)
      /\ \A x : x \in Gray <=> \E i \in 1 .. top : FrameNode(i) = x
  BY <1>0, <1>1, <1>3, BacktrackFacts
<1>7. /\ UNCHANGED << graph, node, depth >>
      /\ component' = [ n \in DOMAIN component \cup M |->
                          IF n \in M THEN Len(component_sizes) ELSE component[n] ]
      /\ component_sizes' = Append(component_sizes, Cardinality(M))
      /\ Visited' = Visited
      /\ OnStack' = OnStack \ M
      /\ \A n \in Visited : Depth(n)' = Depth(n) /\ Link(n)' = Link(n)
  BY <1>1a, <1>1b, <1>2, <1>4, RootFacts
<1>8. /\ \A m \in Visited : Depth(m) \in Nat /\ Link(m) \in Nat
      /\ \A x, y \in OnStack : Depth(x) = Depth(y) => x = y
      /\ OnStack \subseteq Visited /\ Black \subseteq OnStack /\ M \subseteq OnStack
      /\ c \in M /\ Link(c) = Depth(c)
  <2>1. \A m \in Visited : Depth(m) \in Nat /\ Link(m) \in Nat
    BY StackFacts
  <2>2. \A x, y \in OnStack : Depth(x) = Depth(y) => x = y
    BY StackFacts
  <2>3. OnStack \subseteq Visited /\ Black \subseteq OnStack /\ M \subseteq OnStack
    BY <1>2 DEF OnStack, Black
  <2>4. Depth(c) \in Nat
    BY <1>4, <2>1, <2>3
  <2> QED BY <1>1b, <1>2, <1>4, <2>1, <2>2, <2>3, <2>4
<1>9. /\ \A x, e : Edge(x, e)' = Edge(x, e)
      /\ \A x : Edges(graph, x)' = Edges(graph, x)
      /\ \A x, y : Reaches(x, y)' <=> Reaches(x, y)
  BY <1>7, ReachesUnchanged DEF Edge
\* every member but the root is black, and its link does not pass the root
<1>10. \A n \in M : n = c \/ (n \in Black /\ Depth(c) < Depth(n))
  <2> TAKE n \in M
  <2>1. Depth(c) <= Depth(n) /\ Depth(n) \in Nat /\ Depth(c) \in Nat /\ n \in OnStack
    BY <1>2, <1>4, <1>8
  <2>2. Depth(c) = Depth(n) \/ Depth(c) < Depth(n)
    BY <2>1
  <2>3. CASE Depth(c) = Depth(n)
    <3>1. \A x, y \in OnStack : Depth(x) = Depth(y) => x = y
      BY <1>8
    <3>2. c \in OnStack /\ n \in OnStack
      BY <1>4, <2>1
    <3>3. c = n
      BY <2>3, <3>1, <3>2
    <3> QED BY <3>3
  <2>4. CASE Depth(c) < Depth(n)
    BY <1>6, <2>1, <2>4
  <2> QED BY <2>2, <2>3, <2>4
<1>11. \A n \in M : Depth(c) <= Link(n)
  <2> TAKE n \in M
  <2>1. Link(c) <= Link(n)
    <3>1. CASE n = c
      BY <1>8, <3>1
    <3>2. CASE n \in Black /\ Depth(c) < Depth(n)
      BY <1>6, <1>8, <3>2
    <3> QED BY <1>10, <3>1, <3>2
  <2> QED BY <1>8, <2>1
<1>12. \A n \in M : \A e \in DOMAIN Edges(graph, n) : Edge(n, e) \in DOMAIN component \cup M
  <2> TAKE n \in M
  <2> TAKE e \in DOMAIN Edges(graph, n)
  <2>1. Followed(n, e)
    <3>1. CASE n = c
      BY <1>6, <3>1
    <3>2. CASE n \in Black
      BY <1>4, <1>6, <3>2 DEF Followed, Black
    <3> QED BY <1>10, <3>1, <3>2
  <2>2. Edge(n, e) \in Visited /\ (Edge(n, e) \in OnStack => Link(n) <= Depth(Edge(n, e)))
    BY <1>8, <2>1 DEF LinksCover
  <2>3. CASE Edge(n, e) \in OnStack
    <3>1. Depth(c) <= Link(n) /\ Link(n) <= Depth(Edge(n, e))
      BY <1>11, <2>2, <2>3
    <3>2. Depth(c) \in Nat /\ Link(n) \in Nat /\ Depth(Edge(n, e)) \in Nat
      BY <1>4, <1>8, <2>2
    <3>3. Depth(c) <= Depth(Edge(n, e))
      BY <3>1, <3>2
    <3> QED BY <1>2, <2>3, <3>3
  <2> QED BY <2>2, <2>3 DEF StackOrComponent
\* the members reach each other by way of the root
<1>13. \A n \in M : Reaches(c, n) /\ Reaches(n, c)
  <2> TAKE n \in M
  <2>1. Reaches(c, n)
    BY <1>1, <1>2, <1>4 DEF GrayReaches
  <2>2. CASE n = c
    BY <2>2, ReachesSelf
  <2>3. CASE n \in Black
    <3>1. PICK i \in 1 .. top : Reaches(n, FrameNode(i))
      BY <1>4, <2>3 DEF BlackReachesGray
    <3>2. Depth(FrameNode(i)) <= Depth(c)
      <4>1. i = top \/ i < top
        OBVIOUS
      <4>2. Depth(FrameNode(i)) \in Nat /\ Depth(c) \in Nat
        BY <1>4, <1>8
      <4> QED BY <1>1, <1>4, <4>1, <4>2
    <3>3. Reaches(FrameNode(i), c)
      BY <1>4, <3>2 DEF GrayReaches
    <3> QED BY <2>1, <3>1, <3>3, ReachesOn
  <2> QED BY <1>10, <2>1, <2>2, <2>3
\* below the root nothing changes
<1>14. \A n \in OnStack' : n \in OnStack /\ Depth(n) < Depth(c)
  BY <1>2, <1>4, <1>7, <1>8
<1>15. Black' = Black \ M
  <2>1. ASSUME NEW n \in Black' PROVE n \in Black \ M
    BY <1>5, <1>7, <1>8, <2>1 DEF Black
  <2>2. ASSUME NEW n \in Black \ M PROVE n \in Black'
    BY <1>5, <1>7, <1>8, <2>2 DEF Black
  <2> QED BY <2>1, <2>2
<1>16. \A i \in 1 .. top - 1 : /\ i \in 1 .. top
                               /\ FrameNode(i) \in OnStack'
                               /\ Depth(FrameNode(i)) < Depth(c)
  <2> TAKE i \in 1 .. top - 1
  <2>1. i \in 1 .. top /\ i < top
    OBVIOUS
  <2>2. Depth(FrameNode(i)) < Depth(c) /\ FrameNode(i) \in OnStack
    BY <1>1, <1>4, <2>1
  <2>3. Depth(FrameNode(i)) \in Nat /\ Depth(c) \in Nat
    BY <1>4, <1>8, <2>2
  <2>4. FrameNode(i) \notin M
    BY <1>2, <2>2, <2>3
  <2> QED BY <1>7, <2>1, <2>2, <2>4
<1>17. IsFiniteSet(M) /\ Cardinality(M) \in Nat
  <2>1. M \in SUBSET Nodes(graph)
    BY <1>8 DEF TypeOK
  <2> QED BY <2>1, GraphFacts, FS_Subset, FS_CardinalityType
<1>18. PICK count \in Nat : count = Len(component_sizes)
  <2>1. component_sizes \in Seq(Nat)
    BY DEF TypeOK
  <2>2. Len(component_sizes) \in Nat
    BY <2>1
  <2> QED BY <2>2
<1>19. /\ component_sizes' \in Seq(Nat)
       /\ Len(component_sizes') = count + 1
       /\ DOMAIN component_sizes' = 1 .. count + 1
       /\ \A id \in 1 .. count : component_sizes'[id] = component_sizes[id]
       /\ component_sizes'[count + 1] = Cardinality(M)
       /\ DOMAIN component_sizes = 1 .. count
  <2>1. component_sizes \in Seq(Nat)
    BY DEF TypeOK
  <2> QED BY <1>7, <1>17, <1>18, <2>1, AppendFacts
<1>20. /\ DOMAIN component' = DOMAIN component \cup M
       /\ \A n \in M : component'[n] = count
       /\ \A n \in DOMAIN component : n \notin M /\ component'[n] = component[n]
       /\ \A n \in DOMAIN component : component[n] \in Nat /\ component[n] < count
  <2>1. \A n \in DOMAIN component : n \notin M
    BY <1>8 DEF StackOrComponent
  <2>2. \A n \in DOMAIN component : component[n] \in Nat
    BY DEF TypeOK
  <2>3. \A n \in DOMAIN component : component[n] < count
    BY <1>18 DEF ComponentsClosed
  <2> QED BY <1>7, <1>18, <2>1, <2>2, <2>3
<1>21. IsGraph(graph)' /\ TypeOK'
  <2>1. /\ node_state' \in [Visited -> [ depth : 0 .. Size(graph) - 1,
                                         low_link : 0 .. Size(graph) - 1,
                                         on_stack : BOOLEAN ]]
        /\ component_nodes' \in Seq(Visited)
    BY <1>1a, <1>1b, <1>2, <1>4, RootFacts
  <2>2. DOMAIN component' \subseteq Visited /\ component' \in [DOMAIN component' -> Nat]
    BY <1>7, <1>8, <1>18, <1>20 DEF TypeOK
  <2>3. /\ node \in 0 .. Size(graph) /\ depth \in 0 .. Size(graph)
        /\ Visited \subseteq Nodes(graph)
    BY DEF TypeOK
  <2> QED BY <1>5, <1>7, <1>19, <2>1, <2>2, <2>3 DEF TypeOK, IsGraph
<1>22. DepthsCount' /\ StackOrComponent'
  <2>1. DepthsCount'
    BY <1>7 DEF DepthsCount
  <2>2. StackOrComponent'
    BY <1>7, <1>8, <1>20 DEF StackOrComponent
  <2> QED BY <2>1, <2>2
<1>23. StacksAgree'
  <2>1. Range(component_nodes') = OnStack' /\ Deepening(component_nodes)'
    <3>1. Range(component_nodes') = OnStack \ M /\ Deepening(component_nodes)'
      BY <1>1a, <1>1b, <1>2, <1>4, RootFacts
    <3> QED BY <1>7, <3>1
  <2>2. \A i \in 1 .. top - 1 : FrameNode(i)' \in OnStack'
    BY <1>5, <1>16
  <2>3. ASSUME NEW i \in 1 .. top - 1, NEW j \in 1 .. top - 1, i < j
        PROVE  node_state'[FrameNode(i)'].depth < node_state'[FrameNode(j)'].depth
    <3>1. Depth(FrameNode(i)) < Depth(FrameNode(j))
      BY <1>4, <1>16, <2>3
    <3>2. FrameNode(i) \in Visited /\ FrameNode(j) \in Visited
      BY <1>4, <1>8, <1>16
    <3> QED BY <1>5, <1>7, <3>1, <3>2 DEF Depth
  <2> QED BY <1>5, <2>1, <2>2, <2>3 DEF StacksAgree, Deepening, FrameNode
<1>24. FramesChain'
  <2> SUFFICES ASSUME NEW i \in 1 .. top - 1
               PROVE  /\ recursion_stack'[i].edge <= Len(Edges(graph, FrameNode(i)')) + 1
                      /\ i < top - 1 =>
                            /\ recursion_stack'[i].edge \in DOMAIN Edges(graph, FrameNode(i)')
                            /\ Edges(graph, FrameNode(i)')[recursion_stack'[i].edge] = FrameNode(i + 1)'
    BY <1>5, <1>7 DEF FramesChain, Edge
  <2>1. i \in 1 .. top /\ i < top
    OBVIOUS
  <2>2. recursion_stack[i].edge <= Len(Edges(graph, FrameNode(i))) + 1
    BY <1>4, <2>1 DEF FramesChain
  <2>3. ASSUME i < top - 1
        PROVE  /\ recursion_stack[i].edge \in DOMAIN Edges(graph, FrameNode(i))
               /\ Edges(graph, FrameNode(i))[recursion_stack[i].edge] = FrameNode(i + 1)
               /\ FrameNode(i + 1)' = FrameNode(i + 1)
    <3>1. i + 1 \in 1 .. top - 1
      BY <2>3
    <3> QED BY <1>0, <1>4, <1>5, <2>1, <3>1 DEF FramesChain, Edge
  <2> QED BY <1>5, <2>2, <2>3
<1>25. StackRooted'
  <2> SUFFICES ASSUME NEW n \in OnStack'
               PROVE  recursion_stack' # << >> /\ node_state'[FrameNode(1)'].depth <= node_state'[n].depth
    BY DEF StackRooted, Depth
  <2>1. Depth(FrameNode(1)) <= Depth(n) /\ Depth(n) < Depth(c)
    BY <1>14 DEF StackRooted
  <2>2. 1 # top
    <3>1. Depth(n) \in Nat /\ Depth(c) \in Nat
      BY <1>4, <1>8, <1>14
    <3> SUFFICES ASSUME 1 = top PROVE FALSE
      OBVIOUS
    <3>2. c = FrameNode(1)
      BY <1>1
    <3>3. Depth(c) <= Depth(n)
      BY <2>1, <3>2
    <3> QED BY <2>1, <3>1, <3>3
  <2>3. 1 \in 1 .. top - 1
    BY <1>4, <2>2
  <2>4. FrameNode(1)' = FrameNode(1) /\ FrameNode(1) \in Visited /\ n \in Visited
    BY <1>4, <1>5, <1>8, <1>14, <2>3
  <2>5. node_state'[FrameNode(1)'].depth <= node_state'[n].depth
    BY <1>7, <2>1, <2>4 DEF Depth
  <2>6. recursion_stack' # << >>
    BY <1>5, <2>3
  <2> QED BY <2>5, <2>6
<1>26. LowLinkReached'
  <2> SUFFICES ASSUME NEW n \in OnStack'
               PROVE  /\ Link(n)' <= Depth(n)'
                      /\ \E m \in OnStack' : Depth(m)' = Link(n)' /\ Reaches(n, m)
    BY <1>9 DEF LowLinkReached, Link, Depth
  <2>1. PICK m \in OnStack : Depth(m) = Link(n) /\ Reaches(n, m) /\ Link(n) <= Depth(n)
    BY <1>14 DEF LowLinkReached, Link, Depth
  <2>2. n \in Visited /\ m \in Visited /\ Depth(n) < Depth(c)
    BY <1>8, <1>14
  <2>3. Depth(m) \in Nat /\ Depth(n) \in Nat /\ Depth(c) \in Nat
    BY <1>4, <1>8, <2>2
  <2>4. m \in OnStack'
    BY <1>2, <1>7, <2>1, <2>2, <2>3
  <2> QED BY <1>7, <2>1, <2>2, <2>4
<1>27. LinksCover'
  <2> SUFFICES ASSUME NEW n \in OnStack', NEW e \in DOMAIN Edges(graph, n), Followed(n, e)'
               PROVE  /\ Edge(n, e) \in Visited
                      /\ Edge(n, e) \in OnStack' => Link(n)' <= Depth(Edge(n, e))'
    BY <1>7, <1>9 DEF LinksCover
  <2>1. n \in OnStack /\ n \in Visited /\ n # c
    BY <1>7, <1>8, <1>14
  <2>2. Followed(n, e)
    <3> SUFFICES ASSUME NEW i \in 1 .. top, FrameNode(i) = n
                 PROVE  e < recursion_stack[i].edge
      BY <1>4 DEF Followed
    <3>1. i \in 1 .. top - 1
      BY <1>1, <2>1
    <3> QED BY <1>5, <3>1 DEF Followed
  <2>3. Edge(n, e) \in Visited /\ (Edge(n, e) \in OnStack => Link(n) <= Depth(Edge(n, e)))
    BY <2>1, <2>2 DEF LinksCover
  <2>4. Link(n)' = Link(n) /\ Depth(Edge(n, e))' = Depth(Edge(n, e))
    BY <1>7, <1>9, <2>1, <2>3 DEF Depth
  <2> QED BY <1>7, <2>3, <2>4
<1>28. BlackLinked'
  <2> SUFFICES ASSUME NEW n \in Black' PROVE Link(n)' < Depth(n)'
    BY DEF BlackLinked
  <2>1. n \in Black /\ n \in Visited
    BY <1>8, <1>15
  <2> QED BY <1>7, <2>1 DEF BlackLinked
<1>29. BlackReachesGray'
  <2> SUFFICES ASSUME NEW n \in Black'
               PROVE  \E i \in 1 .. top - 1 : Depth(FrameNode(i))' < Depth(n)' /\ Reaches(n, FrameNode(i))'
    BY <1>5 DEF BlackReachesGray
  <2>1. n \in Black /\ n \in OnStack' /\ n \in Visited
    BY <1>7, <1>8, <1>15
  <2>2. PICK i \in 1 .. top : Depth(FrameNode(i)) < Depth(n) /\ Reaches(n, FrameNode(i))
    BY <1>4, <2>1 DEF BlackReachesGray
  <2>3. i # top
    <3>1. Depth(n) < Depth(c) /\ Depth(n) \in Nat /\ Depth(c) \in Nat
      BY <1>4, <1>8, <1>14, <2>1
    <3> QED BY <1>1, <2>2, <3>1
  <2>4. i \in 1 .. top - 1
    BY <2>3
  <2>5. FrameNode(i)' = FrameNode(i) /\ FrameNode(i) \in Visited
    BY <1>4, <1>5, <1>8, <2>4
  <2>6. node_state'[FrameNode(i)'].depth < node_state'[n].depth
    BY <1>7, <2>1, <2>2, <2>5 DEF Depth
  <2>7. Reaches(n, FrameNode(i))'
    BY <1>9, <2>2, <2>5
  <2> QED BY <2>4, <2>6, <2>7 DEF Depth
<1>30. GrayReaches'
  <2> SUFFICES ASSUME NEW i \in 1 .. top - 1, NEW n \in OnStack', Depth(FrameNode(i))' <= Depth(n)'
               PROVE  Reaches(FrameNode(i), n)'
    BY <1>5 DEF GrayReaches
  <2>1. /\ i \in 1 .. top /\ FrameNode(i)' = FrameNode(i) /\ FrameNode(i) \in Visited
        /\ n \in OnStack /\ n \in Visited
    BY <1>4, <1>5, <1>8, <1>14, <1>16
  <2>2. Depth(FrameNode(i)) <= Depth(n)
    BY <1>7, <2>1 DEF Depth
  <2>3. Reaches(FrameNode(i), n)
    BY <1>4, <2>1, <2>2 DEF GrayReaches
  <2> QED BY <1>9, <2>1, <2>3
<1>31. LinksPropagate'
  <2> SUFFICES ASSUME NEW n \in Black', NEW i \in 1 .. top - 1, RightAbove(n, i)'
               PROVE  Link(FrameNode(i))' <= Link(n)'
    BY <1>5 DEF LinksPropagate
  <2>1. n \in Black /\ n \in OnStack' /\ n \in Visited /\ Depth(n) < Depth(c)
    BY <1>7, <1>8, <1>14, <1>15
  <2>2. i \in 1 .. top /\ i < top /\ FrameNode(i)' = FrameNode(i) /\ FrameNode(i) \in Visited
    BY <1>4, <1>5, <1>8, <1>16
  <2>3. Depth(FrameNode(i)) < Depth(n)
    BY <1>7, <2>1, <2>2 DEF RightAbove, Depth
  <2>4. ASSUME i < top - 1
        PROVE  Depth(n) < Depth(FrameNode(i + 1))
    <3>1. i + 1 \in 1 .. top - 1
      BY <2>4
    <3>2. FrameNode(i + 1)' = FrameNode(i + 1) /\ FrameNode(i + 1) \in Visited
      BY <1>4, <1>5, <1>8, <1>16, <3>1
    <3>3. node_state'[n].depth < node_state'[FrameNode(i + 1)'].depth
      BY <1>5, <2>4 DEF RightAbove, Depth
    <3> QED BY <1>7, <2>1, <3>2, <3>3 DEF Depth
  <2>5. RightAbove(n, i)
    <3>1. ASSUME i + 1 = top
          PROVE  Depth(n) < Depth(FrameNode(i + 1))
      BY <1>1, <2>1, <3>1
    <3>2. i < top - 1 \/ i + 1 = top
      BY <2>2
    <3> QED BY <1>0, <2>3, <2>4, <3>1, <3>2 DEF RightAbove
  <2>6. ~ ReturnsFrom(n, i)
    BY <1>0, <2>2 DEF ReturnsFrom
  <2>7. Link(FrameNode(i)) <= Link(n)
    BY <1>4, <2>1, <2>2, <2>5, <2>6 DEF LinksPropagate
  <2> QED BY <1>7, <2>1, <2>2, <2>7 DEF Link
<1>32. ComponentsClosed'
  <2> SUFFICES ASSUME NEW n \in DOMAIN component'
               PROVE  /\ component'[n] < count + 1
                      /\ \A e \in DOMAIN Edges(graph, n) :
                            Edge(n, e) \in DOMAIN component' /\ component'[Edge(n, e)] <= component'[n]
    BY <1>9, <1>19 DEF ComponentsClosed
  <2>1. CASE n \in DOMAIN component
    BY <1>20, <2>1 DEF ComponentsClosed
  <2>2. CASE n \in M
    <3>1. component'[n] = count
      BY <1>20, <2>2
    <3>2. ASSUME NEW e \in DOMAIN Edges(graph, n)
          PROVE  Edge(n, e) \in DOMAIN component' /\ component'[Edge(n, e)] <= count
      <4>1. Edge(n, e) \in DOMAIN component \cup M
        BY <1>12, <2>2
      <4>2. CASE Edge(n, e) \in DOMAIN component
        BY <1>20, <4>2
      <4>3. CASE Edge(n, e) \in M
        BY <1>20, <4>3
      <4> QED BY <4>1, <4>2, <4>3
    <3> QED BY <3>1, <3>2
  <2> QED BY <1>20, <2>1, <2>2
<1>33. ComponentsMutual'
  <2> SUFFICES ASSUME NEW x \in DOMAIN component', NEW y \in DOMAIN component'
               PROVE  component'[x] = component'[y] <=> Reaches(x, y) /\ Reaches(y, x)
    BY <1>9 DEF ComponentsMutual
  \* the finished components are closed
  <2>1. ASSUME NEW a \in DOMAIN component, NEW z, Reaches(a, z)
        PROVE  z \in DOMAIN component
    <3>1. DOMAIN component \in SUBSET Nodes(graph)
      BY DEF TypeOK
    <3>2. Closed(DOMAIN component)
      BY DEF Closed, ComponentsClosed, Range, Edge
    <3> QED BY <2>1, <3>1, <3>2, ReachesInside
  <2>2. CASE x \in M /\ y \in M
    <3>1. Reaches(x, y) /\ Reaches(y, x)
      BY <1>13, <2>2, ReachesOn
    <3> QED BY <1>20, <2>2, <3>1
  <2>3. CASE x \in DOMAIN component /\ y \in DOMAIN component
    BY <1>20, <2>3 DEF ComponentsMutual
  <2>4. CASE x \in M /\ y \in DOMAIN component
    <3>1. ~ Reaches(y, x)
      BY <1>20, <2>1, <2>4
    <3>2. component'[x] # component'[y]
      BY <1>20, <2>4
    <3> QED BY <3>1, <3>2
  <2>5. CASE x \in DOMAIN component /\ y \in M
    <3>1. ~ Reaches(x, y)
      BY <1>20, <2>1, <2>5
    <3>2. component'[x] # component'[y]
      BY <1>20, <2>5
    <3> QED BY <3>1, <3>2
  <2> QED BY <1>20, <2>2, <2>3, <2>4, <2>5
<1>34. SizesCount'
  <2> SUFFICES ASSUME NEW id \in 1 .. count + 1
               PROVE  component_sizes'[id]
                          = Cardinality({ n \in DOMAIN component' : component'[n] = id - 1 })
    BY <1>19 DEF SizesCount
  <2>1. CASE id \in 1 .. count
    <3>1. { n \in DOMAIN component' : component'[n] = id - 1 }
              = { n \in DOMAIN component : component[n] = id - 1 }
      <4>1. id - 1 # count
        BY <2>1
      <4> QED BY <1>20, <4>1
    <3> QED BY <1>19, <2>1, <3>1 DEF SizesCount
  <2>2. CASE id = count + 1
    <3>1. { n \in DOMAIN component' : component'[n] = count } = M
      BY <1>20
    <3>2. id - 1 = count
      BY <2>2
    <3> QED BY <1>19, <2>2, <3>1, <3>2
  <2> QED BY <2>1, <2>2
<1> QED BY <1>21, <1>22, <1>23, <1>24, <1>25, <1>26, <1>27, <1>28, <1>29, <1>30, <1>31, <1>32,
           <1>33, <1>34

-----------------------------------------------------------------------------
(* The invariant of every behaviour                                         *)

\* Nothing is visited in the beginning.
LEMMA FreshInvariant == IsGraph(graph) /\ Fresh => IInv
<1> SUFFICES ASSUME IsGraph(graph), Fresh PROVE IInv
  OBVIOUS
<1>1. /\ node = 0 /\ recursion_stack = << >> /\ component_nodes = << >> /\ depth = 0
      /\ node_state = [ n \in {} |-> 0 ] /\ component = [ n \in {} |-> 0 ]
      /\ component_sizes = << >>
  BY DEF Fresh
<1>2. IsGraph(graph)
  OBVIOUS
<1>3. Size(graph) \in Nat /\ 0 \in 0 .. Size(graph)
  <2>1. Size(graph) \in Nat
    BY <1>2, GraphFacts
  <2> QED BY <2>1
<1>4. Visited = {} /\ OnStack = {} /\ DOMAIN component = {}
  BY <1>1 DEF Visited, OnStack
<1>5. /\ DOMAIN recursion_stack = {} /\ DOMAIN component_nodes = {}
      /\ DOMAIN component_sizes = {}
  BY <1>1
<1>6. TypeOK
  <2>1. /\ recursion_stack \in Seq([node : Visited, edge : Nat \ {0}])
        /\ component_nodes \in Seq(Visited)
        /\ component_sizes \in Seq(Nat)
    BY <1>1
  <2>2. node_state \in [Visited -> [ depth    : 0 .. Size(graph) - 1,
                                     low_link : 0 .. Size(graph) - 1,
                                     on_stack : BOOLEAN ]]
    BY <1>1, <1>4
  <2>3. component \in [DOMAIN component -> Nat]
    BY <1>1, <1>4
  <2> QED BY <1>1, <1>3, <1>4, <2>1, <2>2, <2>3 DEF TypeOK
<1>7. DepthsCount
  BY <1>1, <1>4, FS_EmptySet DEF DepthsCount
<1>8. StackOrComponent
  BY <1>1, <1>4 DEF StackOrComponent
<1>9. StacksAgree
  BY <1>4, <1>5 DEF StacksAgree, Deepening, Range
<1>10. FramesChain /\ StackRooted /\ LowLinkReached /\ LinksCover
  BY <1>4, <1>5 DEF FramesChain, StackRooted, LowLinkReached, LinksCover
<1>11. BlackLinked /\ BlackReachesGray /\ GrayReaches /\ LinksPropagate
  BY <1>4, <1>5 DEF BlackLinked, BlackReachesGray, GrayReaches, LinksPropagate, Black
<1>12. ComponentsClosed /\ ComponentsMutual /\ SizesCount
  BY <1>4, <1>5 DEF ComponentsClosed, ComponentsMutual, SizesCount
<1> QED BY <1>2, <1>6, <1>7, <1>8, <1>9, <1>10, <1>11, <1>12 DEF IInv

LEMMA InitInvariant == Init => IInv
BY FreshInvariant, GraphAssumption DEF Init

\* The outer loop steps over a node that is visited.
LEMMA SkipInvariant ==
    ASSUME IInv, node \in Visited, node < Size(graph), node' = node + 1,
           UNCHANGED << graph, recursion_stack, component_nodes, node_state, depth, component,
                        component_sizes >>
    PROVE  IInv'
<1>1. node \in Nat /\ Size(graph) \in Nat
  BY GraphFacts DEF IInv, TypeOK
<1>2. node' \in 0 .. Size(graph)
  BY <1>1
<1>3. \A n \in 0 .. node' - 1 : n \in 0 .. node - 1 \/ n = node
  BY <1>1
<1>4. TypeOK'
  BY <1>2 DEF IInv, TypeOK, Visited
<1>5. StackOrComponent'
  BY <1>3 DEF IInv, StackOrComponent, Visited, OnStack
<1>6. DepthsCount' /\ StacksAgree' /\ FramesChain' /\ StackRooted'
  BY DEF IInv, DepthsCount, StacksAgree, FramesChain, StackRooted, Visited, OnStack, Deepening,
         Depth, FrameNode, Edge
<1>7. LowLinkReached' /\ LinksCover'
  BY DEF IInv, LowLinkReached, LinksCover, Visited, OnStack, Depth, Link, FrameNode, Edge,
         Followed, Reaches, Closed
<1>8. BlackLinked' /\ BlackReachesGray' /\ GrayReaches' /\ LinksPropagate'
  BY DEF IInv, BlackLinked, BlackReachesGray, GrayReaches, LinksPropagate, RightAbove,
         ReturnsFrom, Black, Gray, Visited, OnStack, Depth, Link, FrameNode, Edge, Reaches, Closed
<1>9. IsGraph(graph)' /\ ComponentsClosed' /\ ComponentsMutual' /\ SizesCount'
  BY DEF IInv, ComponentsClosed, ComponentsMutual, SizesCount, Edge, Reaches, Closed
<1> QED BY <1>4, <1>5, <1>6, <1>7, <1>8, <1>9 DEF IInv

\* The outer loop steps over a visited node or pushes the first frame of a search.
LEMMA StartInvariant ==
    ASSUME IInv, StartSearch
    PROVE  IInv'
<1>1. node \in Nat /\ Size(graph) \in Nat /\ node < Size(graph) /\ node' = node + 1
  BY GraphFacts DEF IInv, TypeOK, StartSearch
<1>2. CASE node \in Visited
  BY <1>1, <1>2, SkipInvariant DEF StartSearch
<1>3. CASE node \notin Visited
  <2>1. node \in Nodes(graph) \ Visited
    BY <1>1, <1>3 DEF Nodes
  <2>2. Visit(node) /\ recursion_stack = << >> /\ recursion_stack' = << [node |-> node, edge |-> 1] >>
    BY <1>3 DEF StartSearch
  <2>3. recursion_stack' = Append(recursion_stack, [node |-> node, edge |-> 1])
    BY <2>2
  <2>4. UNCHANGED << graph, component, component_sizes >>
    BY DEF StartSearch
  <2>5. node' \in 0 .. Size(graph)
    BY <1>1
  <2>6. Visited' = Visited \cup {node}
    BY <2>1, <2>2, VisitFacts DEF IInv
  <2>7. \A m \in 0 .. node' - 1 : m \in Visited'
    <3>1. \A m \in 0 .. node' - 1 : m \in 0 .. node - 1 \/ m = node
      BY <1>1
    <3> QED BY <2>6, <3>1 DEF IInv, StackOrComponent
  <2> QED BY <2>1, <2>2, <2>3, <2>4, <2>5, <2>7, PushInvariant
<1> QED BY <1>2, <1>3

\* The break pushes a frame for the node the edge of the top frame leads to.
LEMMA DescendInvariant ==
    ASSUME IInv, Descend
    PROVE  IInv'
<1>1. PICK top \in Nat : top = Len(recursion_stack)
  BY StackFacts DEF IInv
<1>2. DOMAIN recursion_stack = 1 .. top
  BY <1>1, StackFacts DEF IInv
<1>3. top \in 1 .. top
  <2>1. top # 0
    BY <1>1, EmptySeq DEF Descend, IInv, TypeOK
  <2> QED BY <2>1
<1>4. FrameNode(top) \in OnStack /\ recursion_stack[top].edge \in Nat \ {0}
  BY <1>2, <1>3, StackFacts DEF IInv
<1>5. Frame = recursion_stack[top]
  BY <1>1 DEF Frame, Last
<1>6. FrameNode(top) \in Nodes(graph)
  BY <1>4 DEF IInv, TypeOK, OnStack
<1>7. Edges(graph, FrameNode(top)) \in Seq(Nodes(graph))
  BY <1>6 DEF IInv, IsGraph
<1>8. recursion_stack[top].edge \in DOMAIN Edges(graph, FrameNode(top))
  <2>1. ~ (recursion_stack[top].edge > Len(Edges(graph, FrameNode(top))))
    BY <1>5 DEF Descend, OutOfEdges, FrameNode
  <2> QED BY <1>4, <1>7, <2>1
<1>9. Neighbor = Edge(FrameNode(top), recursion_stack[top].edge)
  BY <1>5 DEF Neighbor, Edge, FrameNode
<1>10. Neighbor \in Nodes(graph) \ Visited
  BY <1>7, <1>8, <1>9 DEF Descend, Edge
<1>11. /\ Visit(Neighbor)
       /\ recursion_stack' = Append(recursion_stack, [node |-> Neighbor, edge |-> 1])
       /\ UNCHANGED << graph, node, component, component_sizes >>
  BY DEF Descend
<1>12. Visited' = Visited \cup {Neighbor}
  BY <1>10, <1>11, VisitFacts DEF IInv
<1>13. node' \in 0 .. Size(graph) /\ \A m \in 0 .. node' - 1 : m \in Visited'
  BY <1>11, <1>12 DEF IInv, TypeOK, StackOrComponent
<1> QED BY <1>1, <1>8, <1>9, <1>10, <1>11, <1>13, PushInvariant

\* A step that changes nothing keeps everything.
LEMMA StutterInvariant ==
    ASSUME IInv, UNCHANGED vars
    PROVE  IInv'
<1>1. UNCHANGED << graph, node, recursion_stack, component_nodes, node_state, depth, component,
                   component_sizes >>
  BY DEF vars, search
<1>2. TypeOK' /\ StackOrComponent' /\ DepthsCount'
  BY <1>1 DEF IInv, TypeOK, StackOrComponent, DepthsCount, Visited, OnStack, Depth
<1>3. StacksAgree' /\ FramesChain' /\ StackRooted'
  BY <1>1 DEF IInv, StacksAgree, FramesChain, StackRooted, Visited, OnStack, Deepening,
              Depth, FrameNode, Edge
<1>4. LowLinkReached' /\ LinksCover'
  BY <1>1 DEF IInv, LowLinkReached, LinksCover, Visited, OnStack, Depth, Link, FrameNode, Edge,
              Followed, Reaches, Closed
<1>5. BlackLinked' /\ BlackReachesGray' /\ GrayReaches' /\ LinksPropagate'
  BY <1>1 DEF IInv, BlackLinked, BlackReachesGray, GrayReaches, LinksPropagate, RightAbove,
              ReturnsFrom, Black, Gray, Visited, OnStack, Depth, Link, FrameNode, Edge, Reaches,
              Closed
<1>6. IsGraph(graph)' /\ ComponentsClosed' /\ ComponentsMutual' /\ SizesCount'
  BY <1>1 DEF IInv, ComponentsClosed, ComponentsMutual, SizesCount, Edge, Reaches, Closed
<1> QED BY <1>2, <1>3, <1>4, <1>5, <1>6 DEF IInv

\* Every step keeps the invariant.
LEMMA NextInvariant == IInv /\ [Next]_vars => IInv'
<1> SUFFICES ASSUME IInv, [Next]_vars PROVE IInv'
  OBVIOUS
<1>1. CASE StartSearch
  BY <1>1, StartInvariant
<1>2. CASE Descend
  BY <1>2, DescendInvariant
<1>3. CASE FollowEdge
  BY <1>3, FollowInvariant
<1>4. CASE Backtrack
  <2>1. CASE Link(Frame.node) = Depth(Frame.node)
    BY <1>4, <2>1, RootInvariant
  <2>2. CASE Link(Frame.node) # Depth(Frame.node)
    BY <1>4, <2>2, LeaveInvariant
  <2> QED BY <2>1, <2>2
<1>5. CASE Returned
  BY <1>5, StutterInvariant DEF Returned
<1>6. CASE UNCHANGED vars
  BY <1>6, StutterInvariant
<1> QED BY <1>1, <1>2, <1>3, <1>4, <1>5, <1>6 DEF Next

\* The invariant holds in every state of compute.
THEOREM Invariance == Spec => []IInv
<1>1. Init => IInv
  BY InitInvariant
<1>2. IInv /\ [Next]_vars => IInv'
  BY NextInvariant
<1> QED BY <1>1, <1>2, PTL DEF Spec

\* The members of compute have their types: no frame, depth or link leaves its range.
THEOREM TypeCorrect == Spec => []TypeOK
<1>1. IInv => TypeOK
  BY DEF IInv
<1> QED BY <1>1, Invariance, PTL

\* The recursion stack and the stack of nodes without a component agree, so that the
\* loop that takes a component off the stack finds its root.
THEOREM StacksStayAligned == Spec => []StacksAgree
<1>1. IInv => StacksAgree
  BY DEF IInv
<1> QED BY <1>1, Invariance, PTL

\* Low links belong to nodes without a component that can be reached.
THEOREM LowLinksReached == Spec => []LowLinkReached
<1>1. IInv => LowLinkReached
  BY DEF IInv
<1> QED BY <1>1, Invariance, PTL

\* When the search is over every node has a component.
LEMMA FinishedComplete ==
    ASSUME IInv, Finished
    PROVE  DOMAIN component = Nodes(graph)
<1>1. OnStack = {}
  BY DEF IInv, Finished, StackRooted
<1>2. Visited = DOMAIN component
  BY <1>1 DEF IInv, StackOrComponent
<1>3. \A n \in Nodes(graph) : n \in Visited
  BY DEF IInv, StackOrComponent, Finished, Nodes
<1>4. Visited \subseteq Nodes(graph)
  BY DEF IInv, TypeOK
<1> QED BY <1>2, <1>3, <1>4

LEMMA InvariantStrong == IInv => ComponentsStrong
<1> SUFFICES ASSUME IInv PROVE ComponentsStrong
  OBVIOUS
<1>1. ComponentsMutual /\ SizesCount
  BY DEF IInv
<1>2. Finished => DOMAIN component = Nodes(graph)
  BY FinishedComplete
<1> QED BY <1>1, <1>2 DEF ComponentsStrong, ComponentsMutual, SizesCount

\* The components compute returns are the strongly connected components of the
\* graph, with their sizes, whatever graph it is given.
THEOREM ComponentsAreStrong == Spec => []ComponentsStrong
BY InvariantStrong, Invariance, PTL

LEMMA InvariantSinks == IInv => SinksFirst
<1> SUFFICES ASSUME IInv, NEW x \in DOMAIN component, NEW y \in Nodes(graph), Reaches(x, y)
             PROVE  y \in DOMAIN component /\ component[y] <= component[x]
  BY DEF SinksFirst
<1>1. \A n \in DOMAIN component : component[n] \in Nat /\ n \in Nodes(graph)
  BY DEF IInv, TypeOK
<1>2. PICK S : S = { n \in DOMAIN component : component[n] <= component[x] }
  OBVIOUS
<1>3. S \in SUBSET Nodes(graph) /\ x \in S
  BY <1>1, <1>2
<1>4. Closed(S)
  <2> SUFFICES ASSUME NEW n \in S, NEW e \in DOMAIN Edges(graph, n)
               PROVE  Edges(graph, n)[e] \in S
    BY DEF Closed, Range
  <2>1. n \in DOMAIN component /\ component[n] <= component[x]
    BY <1>2
  <2>2. Edge(n, e) \in DOMAIN component /\ component[Edge(n, e)] <= component[n]
    BY <2>1 DEF IInv, ComponentsClosed
  <2>3. component[Edge(n, e)] <= component[x]
    BY <1>1, <2>1, <2>2
  <2> QED BY <1>2, <2>2, <2>3 DEF Edge
<1>5. y \in S
  BY <1>3, <1>4, ReachesInside
<1> QED BY <1>2, <1>5

\* Nothing a finished node reaches is left out or numbered after it.
THEOREM SinksComeFirst == Spec => []SinksFirst
BY InvariantSinks, Invariance, PTL

\* No step puts a node that has a component into another one.
LEMMA StepsKeepComponents ==
    ASSUME IInv, Next
    PROVE  \A n \in DOMAIN component : n \in DOMAIN component' /\ component'[n] = component[n]
<1>1. CASE StartSearch \/ Descend \/ FollowEdge \/ Returned
  BY <1>1 DEF StartSearch, Descend, FollowEdge, Returned, vars, search
<1>2. CASE Backtrack
  <2>1. PICK top \in Nat : top = Len(recursion_stack)
    BY StackFacts DEF IInv
  <2>2. PICK c : c = FrameNode(top)
    OBVIOUS
  <2>3. c = Frame.node
    BY <2>1, <2>2 DEF Frame, Last, FrameNode
  <2>4. c \in OnStack
    BY <1>2, <2>1, <2>2, BacktrackFacts DEF Backtrack
  <2>5. CASE Link(c) # Depth(c)
    BY <1>2, <2>3, <2>5 DEF Backtrack, Link, Depth
  <2>6. CASE Link(c) = Depth(c)
    <3>1. PICK M \in SUBSET OnStack : \A n \in OnStack : n \in M <=> Depth(c) <= Depth(n)
      <4>1. { n \in OnStack : Depth(c) <= Depth(n) } \in SUBSET OnStack
        OBVIOUS
      <4> QED BY <4>1
    <3>2. component' = [ n \in DOMAIN component \cup M |->
                           IF n \in M THEN Len(component_sizes) ELSE component[n] ]
      BY <1>2, <2>3, <2>4, <2>6, <3>1, RootFacts
    <3>3. \A n \in DOMAIN component : n \notin M
      BY DEF IInv, StackOrComponent
    <3> QED BY <3>2, <3>3
  <2> QED BY <2>5, <2>6
<1> QED BY <1>1, <1>2 DEF Next

\* Nor does the whole search.
THEOREM ComponentsStay == Spec => ComponentIsFinal
<1> DEFINE Stay == \A n \in DOMAIN component :
                     n \in DOMAIN component' /\ component'[n] = component[n]
<1>1. IInv /\ [Next]_vars => [Stay]_vars
  BY StepsKeepComponents
<1>2. ComponentIsFinal <=> [][Stay]_vars
  BY PTL DEF ComponentIsFinal
<1> HIDE DEF Stay
<1> QED BY <1>1, <1>2, Invariance, PTL DEF Spec
-----------------------------------------------------------------------------
(* The graph of the timetable                                               *)

\* stops are numbered, and a station lists each of its stops once and no others; a line
\* goes through a stop once, and every stop knows its lines
Adaptable(table) ==
    LET stops == DOMAIN table.station
    IN  /\ IsFiniteSet(stops) /\ stops = 0 .. Cardinality(stops) - 1
        /\ table.station \in [stops -> stops]
        /\ table.stops \in [stops -> Seq(stops)]
        /\ \A s \in stops :
              LET home == table.stops[table.station[s]]
              IN  /\ \E i \in DOMAIN home : \A k \in DOMAIN home : home[k] = s <=> k = i
                  /\ \A k \in DOMAIN home : table.station[home[k]] = table.station[s]
        /\ table.transfers \in [stops -> Seq([stop : stops, duration : Nat])]
        /\ \A id \in DOMAIN table.lines :
              LET on == table.lines[id].stops
              IN  on \in Seq(stops) /\ \A i, k \in DOMAIN on : on[i] = on[k] => i = k
        /\ table.stop_to_line \in [stops -> Seq(DOMAIN table.lines)]
        /\ \A s \in stops, id \in DOMAIN table.lines :
              (\E i \in DOMAIN table.stop_to_line[s] : table.stop_to_line[s][i] = id)
              <=> \E k \in DOMAIN table.lines[id].stops : table.lines[id].stops[k] = s

ASSUME AdaptableAssumption == \A table \in TimeTables : Adaptable(table)

\* "a stop is either mapped to a parent station or is a station itself": feeds do not put
\* a station into another one
ASSUME StationAssumption ==
    \A table \in TimeTables :
        \A s \in DOMAIN table.station : table.station[table.station[s]] = table.station[s]

-----------------------------------------------------------------------------
(* The inductive invariant                                                  *)

\* the number of edges of all stops before one
EdgesBefore ==
    LET before[n \in 0 .. NumStops] ==
            IF n = 0 THEN 0 ELSE before[n - 1] + Len(Targets(n - 1))
    IN  before

\* the first pass has counted the edges of the stops it is done with
Counted ==
    pass = "count" => num_edges = EdgesBefore[stop]

ForwardStar ==
    [ nodes : Seq(Nat), edges : Seq(Nat), required_nodes : Int, required_edges : Int ]

\* the second one has added them, in the room allocated for all
Added ==
    pass \in {"build", "adapted"} =>
        /\ building \in ForwardStar
        /\ building.required_nodes = NumStops - stop
        /\ building.required_edges = EdgesBefore[NumStops] - EdgesBefore[stop]
        /\ Len(building.nodes) = NumStops + 1
        /\ building.nodes[NumStops + 1] = EdgesBefore[NumStops]
        /\ \A n \in 0 .. stop - 1 : building.nodes[n + 1] = EdgesBefore[n]
        /\ Len(building.edges) = EdgesBefore[stop]
        /\ \A n \in 0 .. stop - 1 : \A i \in DOMAIN Targets(n) :
              building.edges[EdgesBefore[n] + i] = Targets(n)[i]

AdaptorInv ==
    /\ timetable \in TimeTables
    /\ pass \in {"count", "build", "adapted"}
    /\ stop \in 0 .. NumStops
    /\ Counted /\ Added

\* The graph that is searched is the one that was built, and nothing is searched before.
ConnectivityInv ==
    /\ AdaptorInv
    /\ IInv
    /\ IF pass = "adapted" THEN stop = NumStops /\ graph = building ELSE Fresh

-----------------------------------------------------------------------------
(* What leads from a stop                                                   *)

LEMMA Numbered ==
    ASSUME timetable \in TimeTables
    PROVE  /\ Adaptable(timetable)
           /\ NumStops \in Nat
           /\ DOMAIN timetable.station = 0 .. NumStops - 1
<1>1. Adaptable(timetable)
  BY AdaptableAssumption
<1>2. IsFiniteSet(DOMAIN timetable.station)
  BY <1>1 DEF Adaptable
<1>3. DOMAIN timetable.station = 0 .. NumStops - 1
  BY <1>1 DEF Adaptable, NumStops
<1> QED
  BY <1>1, <1>2, <1>3, FS_CardinalityType DEF NumStops

\* The lines that go on from a stop are those that serve it before their last one.
LEMMA OnwardFacts ==
    ASSUME timetable \in TimeTables, NEW from \in DOMAIN timetable.station
    PROVE  /\ Onward(from) \in Seq(DOMAIN timetable.lines)
           /\ \A r \in DOMAIN Onward(from) :
                 LET on == timetable.lines[Onward(from)[r]].stops
                     k  == Offset(timetable.lines[Onward(from)[r]], from)
                 IN  k \in DOMAIN on /\ k + 1 \in DOMAIN on /\ on[k] = from
           /\ \A id \in DOMAIN timetable.lines : \A k \in DOMAIN timetable.lines[id].stops :
                 timetable.lines[id].stops[k] = from /\ k < Len(timetable.lines[id].stops)
                 => \E r \in DOMAIN Onward(from) :
                       Onward(from)[r] = id /\ Offset(timetable.lines[id], from) = k
<1> DEFINE ids == timetable.stop_to_line[from]
           Lines == DOMAIN timetable.lines
           places == { i \in DOMAIN ids : LET line == timetable.lines[ids[i]]
                                          IN  Offset(line, from) < Len(line.stops) }
<1>1. /\ Adaptable(timetable)
      /\ NumStops \in Nat /\ DOMAIN timetable.station = 0 .. NumStops - 1
  BY Numbered
<1>2. ids \in Seq(Lines)
  BY <1>1 DEF Adaptable
<1>3. Onward(from) = Selected(ids, places)
  BY DEF Onward
<1>4. ASSUME NEW id \in Lines, NEW k \in DOMAIN timetable.lines[id].stops,
             timetable.lines[id].stops[k] = from
      PROVE  Offset(timetable.lines[id], from) = k
  <2>1. /\ timetable.lines[id].stops \in Seq(DOMAIN timetable.station)
        /\ \A i, j \in DOMAIN timetable.lines[id].stops :
              timetable.lines[id].stops[i] = timetable.lines[id].stops[j] => i = j
    BY <1>1 DEF Adaptable
  <2>2. timetable.lines[id].stops \in Seq(Nat)
    BY <1>1, <2>1
  <2> QED
    BY <1>4, <2>1, <2>2, OffsetOfStop
<1>5. \A id \in Lines : (\E i \in DOMAIN ids : ids[i] = id)
                        <=> \E k \in DOMAIN timetable.lines[id].stops :
                               timetable.lines[id].stops[k] = from
  BY <1>1 DEF Adaptable
<1>6. \A id \in Lines : timetable.lines[id].stops \in Seq(DOMAIN timetable.station)
  BY <1>1 DEF Adaptable
<1>7. places \in SUBSET DOMAIN ids
  OBVIOUS
<1>8. \A i \in DOMAIN ids : ids[i] \in Lines
  BY <1>2
<1>9. \A i \in places : ids[i] \in Lines /\ Offset(timetable.lines[ids[i]], from)
                                            < Len(timetable.lines[ids[i]].stops)
  BY <1>8
<1>10. ASSUME NEW id \in Lines, NEW k \in DOMAIN timetable.lines[id].stops,
              timetable.lines[id].stops[k] = from, k < Len(timetable.lines[id].stops)
       PROVE  \E i \in places : ids[i] = id
  <2>1. PICK i \in DOMAIN ids : ids[i] = id
    BY <1>5, <1>10
  <2> QED
    BY <1>4, <1>10, <2>1
<1> HIDE DEF places, ids, Lines
<1>11. /\ Selected(ids, places) \in Seq(Lines)
       /\ \A r \in DOMAIN Selected(ids, places) :
             \E i \in places : Selected(ids, places)[r] = ids[i]
       /\ \A i \in places : \E r \in DOMAIN Selected(ids, places) :
             Selected(ids, places)[r] = ids[i]
  BY <1>2, <1>7, SelectedFacts
<1>12. ASSUME NEW r \in DOMAIN Onward(from)
       PROVE  LET on == timetable.lines[Onward(from)[r]].stops
                  k  == Offset(timetable.lines[Onward(from)[r]], from)
              IN  k \in DOMAIN on /\ k + 1 \in DOMAIN on /\ on[k] = from
  <2>1. PICK i \in places : Onward(from)[r] = ids[i]
    BY <1>3, <1>11
  <2>2. PICK id \in Lines : id = ids[i]
    BY <1>9
  <2>3. PICK k \in DOMAIN timetable.lines[id].stops : timetable.lines[id].stops[k] = from
    BY <1>5, <1>7, <2>1, <2>2
  <2>4. Offset(timetable.lines[id], from) = k
    BY <1>4, <2>3
  <2>5. k < Len(timetable.lines[id].stops)
    BY <1>9, <2>2, <2>4
  <2>6. k + 1 \in DOMAIN timetable.lines[id].stops
    BY <1>6, <2>3, <2>5
  <2> QED
    BY <2>1, <2>2, <2>3, <2>4, <2>6
<1>13. ASSUME NEW id \in Lines, NEW k \in DOMAIN timetable.lines[id].stops,
              timetable.lines[id].stops[k] = from, k < Len(timetable.lines[id].stops)
       PROVE  \E r \in DOMAIN Onward(from) :
                 Onward(from)[r] = id /\ Offset(timetable.lines[id], from) = k
  BY <1>3, <1>4, <1>10, <1>11, <1>13
<1> QED
  BY <1>3, <1>11, <1>12, <1>13 DEF Lines

\* They lead to the stop behind it.
LEMMA NextStopsFacts ==
    ASSUME timetable \in TimeTables, NEW from \in DOMAIN timetable.station
    PROVE  /\ NextStops(from) \in Seq(DOMAIN timetable.station)
           /\ Len(NextStops(from)) = Len(Onward(from)) /\ Len(Onward(from)) \in Nat
           /\ \A r \in DOMAIN NextStops(from) :
                 \E id \in DOMAIN timetable.lines : \E k \in DOMAIN timetable.lines[id].stops :
                    LET on == timetable.lines[id].stops
                    IN  k + 1 \in DOMAIN on /\ on[k] = from /\ NextStops(from)[r] = on[k + 1]
           /\ \A id \in DOMAIN timetable.lines : \A k \in DOMAIN timetable.lines[id].stops :
                 LET on == timetable.lines[id].stops
                 IN  on[k] = from /\ k < Len(on)
                     => \E r \in DOMAIN NextStops(from) : NextStops(from)[r] = on[k + 1]
<1> DEFINE Behind(r) == LET line == timetable.lines[Onward(from)[r]]
                      IN  line.stops[Offset(line, from) + 1]
<1>1. NextStops(from) = [ r \in DOMAIN Onward(from) |-> Behind(r) ]
  BY DEF NextStops
<1>2. Onward(from) \in Seq(DOMAIN timetable.lines)
  BY OnwardFacts
<1>3. DOMAIN Onward(from) = 1 .. Len(Onward(from)) /\ Len(Onward(from)) \in Nat
  BY <1>2
<1>4. \A id \in DOMAIN timetable.lines : timetable.lines[id].stops \in Seq(DOMAIN timetable.station)
  BY Numbered DEF Adaptable
<1>5. ASSUME NEW r \in DOMAIN Onward(from)
      PROVE  /\ Behind(r) \in DOMAIN timetable.station
             /\ \E id \in DOMAIN timetable.lines : \E k \in DOMAIN timetable.lines[id].stops :
                   LET on == timetable.lines[id].stops
                   IN  k + 1 \in DOMAIN on /\ on[k] = from /\ Behind(r) = on[k + 1]
  <2>1. PICK id \in DOMAIN timetable.lines : id = Onward(from)[r]
    BY <1>2
  <2>2. PICK k : k = Offset(timetable.lines[id], from)
    OBVIOUS
  <2>3. /\ k \in DOMAIN timetable.lines[id].stops /\ k + 1 \in DOMAIN timetable.lines[id].stops
        /\ timetable.lines[id].stops[k] = from
    BY <2>1, <2>2, OnwardFacts
  <2>4. Behind(r) = timetable.lines[id].stops[k + 1]
    BY <2>1, <2>2
  <2>5. timetable.lines[id].stops[k + 1] \in DOMAIN timetable.station
    BY <1>4, <2>3
  <2> HIDE DEF Behind
  <2> QED
    BY <2>3, <2>4, <2>5
<1>6. ASSUME NEW id \in DOMAIN timetable.lines, NEW k \in DOMAIN timetable.lines[id].stops,
             timetable.lines[id].stops[k] = from, k < Len(timetable.lines[id].stops)
      PROVE  \E r \in DOMAIN Onward(from) : Behind(r) = timetable.lines[id].stops[k + 1]
  <2>1. PICK r \in DOMAIN Onward(from) :
               Onward(from)[r] = id /\ Offset(timetable.lines[id], from) = k
    BY <1>6, OnwardFacts
  <2> QED
    BY <2>1
<1> HIDE DEF Behind
<1>7. [ r \in 1 .. Len(Onward(from)) |-> Behind(r) ] \in Seq(DOMAIN timetable.station)
  BY <1>3, <1>5, IsASeq
<1>8. /\ NextStops(from) \in Seq(DOMAIN timetable.station)
      /\ Len(NextStops(from)) = Len(Onward(from))
      /\ DOMAIN NextStops(from) = DOMAIN Onward(from)
      /\ \A r \in DOMAIN NextStops(from) : NextStops(from)[r] = Behind(r)
  BY <1>1, <1>3, <1>7
<1> QED
  BY <1>3, <1>5, <1>6, <1>8

\* A stop leads to its station and the other stops there, as many as were counted.
LEMMA StationFacts ==
    ASSUME timetable \in TimeTables, NEW from \in DOMAIN timetable.station
    PROVE  /\ StationTargets(from) \in Seq(DOMAIN timetable.station)
           /\ Len(StationTargets(from)) = CountDirect(from) /\ CountDirect(from) \in Nat
           /\ \A r \in DOMAIN StationTargets(from) :
                 \/ StationTargets(from)[r] = StationOf(from)
                 \/ StationOf(StationTargets(from)[r]) = StationOf(from)
           /\ \A to \in DOMAIN timetable.station :
                 to # from /\ StationOf(to) = StationOf(from)
                 => \E r \in DOMAIN StationTargets(from) : StationTargets(from)[r] = to
<1> DEFINE Stops == DOMAIN timetable.station
           station == StationOf(from)
           home == timetable.stops[station]
           all == << station >> \o home
           places == { i \in DOMAIN all : all[i] # from }
<1>1. Adaptable(timetable)
  BY Numbered
<1>2. station \in Stops /\ home \in Seq(Stops)
  BY <1>1 DEF Adaptable, StationOf
<1>3. PICK place \in DOMAIN home : \A k \in DOMAIN home : home[k] = from <=> k = place
  BY <1>1 DEF Adaptable, StationOf
<1>4. \A k \in DOMAIN home : StationOf(home[k]) = station
  BY <1>1 DEF Adaptable, StationOf
<1>5. ASSUME NEW to \in Stops, StationOf(to) = station
      PROVE  \E k \in DOMAIN home : home[k] = to
  BY <1>1, <1>5 DEF Adaptable, StationOf
<1>6. StationTargets(from) = Selected(all, places)
  BY DEF StationTargets
<1> HIDE DEF home
<1>7. /\ all \in Seq(Stops) /\ Len(all) = Len(home) + 1
      /\ \A i \in 1 .. Len(home) + 1 : all[i] = IF i = 1 THEN station ELSE home[i - 1]
  <2> HIDE DEF station, Stops
  <2>1. << station >> \in Seq(Stops) /\ Len(<< station >>) = 1 /\ << station >>[1] = station
    BY <1>2
  <2>2. /\ all \in Seq(Stops) /\ Len(all) = 1 + Len(home)
        /\ \A i \in 1 .. 1 + Len(home) : all[i] = IF i <= 1 THEN << station >>[i] ELSE home[i - 1]
    BY <1>2, <2>1, ConcatProperties
  <2> HIDE DEF all
  <2> QED
    BY <1>2, <2>1, <2>2
<1> HIDE DEF all
<1>8. /\ DOMAIN home = 1 .. Len(home) /\ Len(home) \in Nat
      /\ DOMAIN all = 1 .. Len(home) + 1
  BY <1>2, <1>7
<1>9. places = (1 .. Len(home) + 1) \ ({place + 1} \cup (IF station = from THEN {1} ELSE {}))
  <2> SUFFICES ASSUME NEW i \in 1 .. Len(home) + 1
               PROVE  all[i] = from <=> i = place + 1 \/ (station = from /\ i = 1)
    BY <1>8
  <2>1. CASE i = 1
    BY <1>3, <1>7, <1>8, <2>1
  <2>2. CASE i # 1
    <3>1. i - 1 \in DOMAIN home /\ all[i] = home[i - 1]
      BY <1>7, <1>8, <2>2
    <3>2. home[i - 1] = from <=> i - 1 = place
      BY <1>3, <3>1
    <3> QED
      BY <1>8, <2>2, <3>1, <3>2
  <2> QED
    BY <2>1, <2>2
<1>10. Cardinality(places) = CountDirect(from) /\ CountDirect(from) \in Nat
  <2>1. IsFiniteSet(1 .. Len(home) + 1) /\ Cardinality(1 .. Len(home) + 1) = Len(home) + 1
    BY <1>8, FS_Interval
  <2>2. place + 1 \in 1 .. Len(home) + 1 /\ Len(home) >= 1
    BY <1>3, <1>8
  <2> DEFINE rest == (1 .. Len(home) + 1) \ {place + 1}
  <2>3. IsFiniteSet(rest) /\ Cardinality(rest) = Len(home)
    <3> DEFINE whole == 1 .. Len(home) + 1
    <3>1. IsFiniteSet(whole) /\ place + 1 \in whole /\ Cardinality(whole) = Len(home) + 1
      BY <2>1, <2>2
    <3> HIDE DEF whole
    <3>2. IsFiniteSet(whole \ {place + 1}) /\ Cardinality(whole \ {place + 1}) = Len(home) + 1 - 1
      BY <3>1, FS_RemoveElement
    <3> QED
      BY <1>8, <3>2 DEF whole
  <2>4. 1 \in rest
    BY <1>3, <1>8
  <2>5. places = IF station = from THEN rest \ {1} ELSE rest
    BY <1>9
  <2>6. Cardinality(places) = IF station = from THEN Len(home) - 1 ELSE Len(home)
    <3> HIDE DEF rest, places
    <3> QED
      BY <2>3, <2>4, <2>5, FS_RemoveElement
  <2>7. CountDirect(from) = (IF station # from THEN 1 ELSE 0) + Len(home) - 1
    BY DEF CountDirect, home
  <2> HIDE DEF places, station
  <2> QED
    BY <1>8, <2>2, <2>6, <2>7
<1>11. places \in SUBSET DOMAIN all
  OBVIOUS
<1>12. ASSUME NEW i \in places PROVE all[i] = station \/ StationOf(all[i]) = station
  <2>1. i \in 1 .. Len(home) + 1
    BY <1>8
  <2>2. i # 1 => i - 1 \in DOMAIN home
    BY <1>8, <2>1
  <2> HIDE DEF station
  <2> QED
    BY <1>2, <1>4, <1>7, <2>1, <2>2
<1>13. ASSUME NEW to \in Stops, to # from, StationOf(to) = station
       PROVE  \E i \in places : all[i] = to
  <2>1. PICK k \in DOMAIN home : home[k] = to
    BY <1>5, <1>13
  <2>2. k + 1 \in 1 .. Len(home) + 1 /\ k + 1 # 1 /\ k + 1 - 1 = k
    BY <1>8
  <2>3. all[k + 1] = to
    BY <1>7, <2>1, <2>2
  <2> QED
    BY <1>8, <1>13, <2>2, <2>3
<1> HIDE DEF places, Stops
<1>14. /\ Selected(all, places) \in Seq(Stops)
       /\ Len(Selected(all, places)) = Cardinality(places)
       /\ \A r \in DOMAIN Selected(all, places) :
             \E i \in places : Selected(all, places)[r] = all[i]
       /\ \A i \in places : \E r \in DOMAIN Selected(all, places) :
             Selected(all, places)[r] = all[i]
  BY <1>7, <1>11, SelectedFacts
<1> HIDE DEF station
<1>15. /\ \A r \in DOMAIN StationTargets(from) :
             \/ StationTargets(from)[r] = station
             \/ StationOf(StationTargets(from)[r]) = station
       /\ \A to \in Stops :
             to # from /\ StationOf(to) = station
             => \E r \in DOMAIN StationTargets(from) : StationTargets(from)[r] = to
  BY <1>6, <1>12, <1>13, <1>14
<1> QED
  BY <1>6, <1>10, <1>14, <1>15 DEF station, Stops

\* A stop leads on by transfers, in its station and by lines, and nowhere else.
LEMMA TargetsFacts ==
    ASSUME timetable \in TimeTables, NEW from \in DOMAIN timetable.station
    PROVE  /\ Targets(from) \in Seq(DOMAIN timetable.station)
           /\ Len(Targets(from)) \in Nat
           /\ Len(Targets(from)) = Len(timetable.transfers[from]) + CountDirect(from)
                                   + Len(Onward(from))
           /\ Range(Targets(from)) = Range(TransferTargets(from)) \cup Range(StationTargets(from))
                                     \cup Range(NextStops(from))
<1> DEFINE Stops == DOMAIN timetable.station
<1>1. timetable.transfers[from] \in Seq([stop : Stops, duration : Nat])
  BY Numbered DEF Adaptable
<1>2. /\ TransferTargets(from) \in Seq(Stops)
      /\ Len(TransferTargets(from)) = Len(timetable.transfers[from])
      /\ Len(timetable.transfers[from]) \in Nat
  <2>1. /\ DOMAIN timetable.transfers[from] = 1 .. Len(timetable.transfers[from])
        /\ Len(timetable.transfers[from]) \in Nat
    BY <1>1
  <2>2. \A i \in DOMAIN timetable.transfers[from] : timetable.transfers[from][i].stop \in Stops
    <3> SUFFICES ASSUME NEW i \in DOMAIN timetable.transfers[from]
                 PROVE  timetable.transfers[from][i].stop \in Stops
      OBVIOUS
    <3> HIDE DEF Stops
    <3>1. timetable.transfers[from][i] \in [stop : Stops, duration : Nat]
      BY <1>1, <2>1, ElementOfSeq
    <3> QED
      BY <3>1
  <2>3. [ i \in 1 .. Len(timetable.transfers[from]) |-> timetable.transfers[from][i].stop ] \in Seq(Stops)
    BY <2>1, <2>2, IsASeq
  <2>4. TransferTargets(from)
        = [ i \in 1 .. Len(timetable.transfers[from]) |-> timetable.transfers[from][i].stop ]
    BY <2>1 DEF TransferTargets
  <2> HIDE DEF Stops
  <2> QED
    BY <2>1, <2>3, <2>4
<1>3. /\ StationTargets(from) \in Seq(Stops)
      /\ Len(StationTargets(from)) = CountDirect(from) /\ CountDirect(from) \in Nat
  BY StationFacts
<1>4. /\ NextStops(from) \in Seq(Stops)
      /\ Len(NextStops(from)) = Len(Onward(from)) /\ Len(Onward(from)) \in Nat
  BY NextStopsFacts
<1> HIDE DEF Stops
<1>5. ASSUME NEW s \in Seq(Stops), NEW t \in Seq(Stops)
      PROVE  /\ s \o t \in Seq(Stops) /\ Len(s \o t) = Len(s) + Len(t)
             /\ Range(s \o t) = Range(s) \cup Range(t)
  <2>1. /\ s \o t \in Seq(Stops) /\ Len(s \o t) = Len(s) + Len(t)
        /\ \A i \in 1 .. Len(s) + Len(t) : (s \o t)[i] = IF i <= Len(s) THEN s[i] ELSE t[i - Len(s)]
    BY ConcatProperties
  <2>2. /\ DOMAIN s = 1 .. Len(s) /\ Len(s) \in Nat
        /\ DOMAIN t = 1 .. Len(t) /\ Len(t) \in Nat
        /\ DOMAIN (s \o t) = 1 .. Len(s) + Len(t)
    BY <2>1
  <2> DEFINE st == s \o t
  <2>3. \A i \in DOMAIN s : i \in DOMAIN st /\ st[i] = s[i]
    BY <2>1, <2>2
  <2>4. \A i \in DOMAIN t : i + Len(s) \in DOMAIN st /\ st[i + Len(s)] = t[i]
    BY <2>1, <2>2
  <2>5. \A i \in DOMAIN st : \/ i \in DOMAIN s /\ st[i] = s[i]
                             \/ i - Len(s) \in DOMAIN t /\ st[i] = t[i - Len(s)]
    BY <2>1, <2>2
  <2> HIDE DEF st
  <2>6. Range(st) = Range(s) \cup Range(t)
    BY <2>3, <2>4, <2>5 DEF Range
  <2> QED
    BY <2>1, <2>6 DEF st
<1>6. /\ TransferTargets(from) \o StationTargets(from) \in Seq(Stops)
      /\ Len(TransferTargets(from) \o StationTargets(from))
         = Len(timetable.transfers[from]) + CountDirect(from)
      /\ Range(TransferTargets(from) \o StationTargets(from))
         = Range(TransferTargets(from)) \cup Range(StationTargets(from))
  BY <1>2, <1>3, <1>5
<1>7. /\ Targets(from) \in Seq(Stops)
      /\ Len(Targets(from)) = Len(timetable.transfers[from]) + CountDirect(from) + Len(Onward(from))
      /\ Range(Targets(from)) = Range(TransferTargets(from)) \cup Range(StationTargets(from))
                                \cup Range(NextStops(from))
  BY <1>4, <1>5, <1>6 DEF Targets
<1> QED
  BY <1>2, <1>3, <1>4, <1>7 DEF Stops

-----------------------------------------------------------------------------
(* The two passes                                                           *)

\* The recursion that adds up the edges has a solution up to any stop.
LEMMA SomeSums ==
    ASSUME NEW n \in Nat
    PROVE  \E f : f = [ k \in 0 .. n |-> IF k = 0 THEN 0 ELSE f[k - 1] + Len(Targets(k - 1)) ]
<1> DEFINE Solves(f, m) ==
             f = [ k \in 0 .. m |-> IF k = 0 THEN 0 ELSE f[k - 1] + Len(Targets(k - 1)) ]
           unsolved == { m \in Nat : ~ \E f : Solves(f, m) }
<1>1. ASSUME NEW m \in unsolved, \A k \in unsolved : m <= k
      PROVE  FALSE
  <2>1. m \in Nat
    OBVIOUS
  <2>2. CASE m = 0
    <3>1. Solves([ k \in 0 .. 0 |-> 0 ], 0)
      OBVIOUS
    <3> QED
      BY <2>2, <3>1
  <2>3. CASE m # 0
    <3>1. m - 1 \in Nat /\ m - 1 \notin unsolved
      <4>1. \A k \in unsolved : m <= k
        BY <1>1
      <4> HIDE DEF unsolved
      <4> QED
        BY <2>1, <2>3, <4>1
    <3>2. PICK f : Solves(f, m - 1)
      BY <3>1
    <3> DEFINE g == [ k \in 0 .. m |-> IF k = m THEN f[m - 1] + Len(Targets(m - 1)) ELSE f[k] ]
    <3>3. \A k \in 0 .. m : g[k] = IF k = 0 THEN 0 ELSE g[k - 1] + Len(Targets(k - 1))
      <4> SUFFICES ASSUME NEW k \in 0 .. m
                   PROVE  g[k] = IF k = 0 THEN 0 ELSE g[k - 1] + Len(Targets(k - 1))
        OBVIOUS
      <4>1. CASE k = m
        <5>1. k # 0 /\ k - 1 \in 0 .. m /\ k - 1 # m
          BY <2>1, <2>3, <4>1
        <5>2. g[k - 1] = f[m - 1]
          BY <4>1, <5>1
        <5> QED
          BY <4>1, <5>1, <5>2
      <4>2. CASE k # m
        <5>1. k \in 0 .. m - 1
          BY <2>1, <4>2
        <5>2. g[k] = f[k]
          BY <4>2
        <5>3. f[k] = IF k = 0 THEN 0 ELSE f[k - 1] + Len(Targets(k - 1))
          BY <3>2, <5>1
        <5>4. k # 0 => k - 1 \in 0 .. m /\ k - 1 # m
          BY <2>1, <5>1
        <5>5. k # 0 => g[k - 1] = f[k - 1]
          BY <5>4
        <5> HIDE DEF g
        <5> QED
          BY <5>2, <5>3, <5>5
      <4> QED
        BY <4>1, <4>2
    <3>4. Solves(g, m)
      BY <3>3
    <3> HIDE DEF g, Solves
    <3> QED
      BY <3>4
  <2> QED
    BY <2>2, <2>3
<1> HIDE DEF Solves
<1>2. unsolved = {}
  <2>1. unsolved \subseteq Nat
    OBVIOUS
  <2> HIDE DEF unsolved
  <2> QED
    BY <1>1, <2>1, LeastOfNumbers
<1>3. \E f : Solves(f, n)
  BY <1>2
<1> QED
  BY <1>3 DEF Solves

\* The sums grow by the edges of one stop after the other.
LEMMA Sums ==
    ASSUME timetable \in TimeTables
    PROVE  /\ EdgesBefore[0] = 0
           /\ \A n \in 0 .. NumStops : EdgesBefore[n] \in Nat
           /\ \A n \in 0 .. NumStops - 1 :
                 /\ Len(Targets(n)) \in Nat
                 /\ EdgesBefore[n + 1] = EdgesBefore[n] + Len(Targets(n))
           /\ \A m, n \in 0 .. NumStops : m <= n => EdgesBefore[m] <= EdgesBefore[n]
<1> DEFINE Solves(f) == f = [ k \in 0 .. NumStops |->
                                IF k = 0 THEN 0 ELSE f[k - 1] + Len(Targets(k - 1)) ]
<1>1. NumStops \in Nat /\ \A n \in 0 .. NumStops - 1 : Len(Targets(n)) \in Nat
  BY Numbered, TargetsFacts
<1>2. \E f : Solves(f)
  BY <1>1, SomeSums
<1>3. EdgesBefore = CHOOSE f : Solves(f)
  BY DEF EdgesBefore
<1>4. Solves(EdgesBefore)
  <2> HIDE DEF Solves
  <2> QED
    BY <1>2, <1>3
<1>5. /\ EdgesBefore[0] = 0
      /\ \A n \in 0 .. NumStops - 1 : EdgesBefore[n + 1] = EdgesBefore[n] + Len(Targets(n))
  <2>1. EdgesBefore[0] = 0
    BY <1>1, <1>4
  <2>2. ASSUME NEW n \in 0 .. NumStops - 1
        PROVE  EdgesBefore[n + 1] = EdgesBefore[n] + Len(Targets(n))
    <3>1. n + 1 \in 0 .. NumStops /\ n + 1 # 0 /\ n + 1 - 1 = n
      BY <1>1
    <3>2. \A k \in 0 .. NumStops :
             EdgesBefore[k] = IF k = 0 THEN 0 ELSE EdgesBefore[k - 1] + Len(Targets(k - 1))
      BY <1>4
    <3>3. EdgesBefore[n + 1] = EdgesBefore[n + 1 - 1] + Len(Targets(n + 1 - 1))
      BY <3>1, <3>2
    <3> QED
      BY <3>1, <3>3
  <2> QED
    BY <2>1, <2>2
<1> HIDE DEF Solves
<1>6. \A n \in 0 .. NumStops : EdgesBefore[n] \in Nat
  <2> DEFINE bad == { n \in 0 .. NumStops : EdgesBefore[n] \notin Nat }
  <2>1. ASSUME NEW n \in bad, \A k \in bad : n <= k
        PROVE  FALSE
    <3>1. n \in 0 .. NumStops /\ EdgesBefore[n] \notin Nat
      OBVIOUS
    <3>2. n # 0
      BY <1>5, <3>1
    <3>3. n - 1 \in 0 .. NumStops - 1 /\ n - 1 \in 0 .. NumStops /\ ~ (n <= n - 1) /\ n - 1 + 1 = n
      BY <1>1, <3>1, <3>2
    <3>4. EdgesBefore[n - 1] \in Nat
      BY <2>1, <3>3
    <3>5. EdgesBefore[n] = EdgesBefore[n - 1] + Len(Targets(n - 1))
      BY <1>5, <3>3
    <3>6. Len(Targets(n - 1)) \in Nat
      BY <1>1, <3>3
    <3> QED
      BY <3>1, <3>4, <3>5, <3>6
  <2>2. bad \subseteq Nat
    BY <1>1
  <2>3. bad = {}
    <3> HIDE DEF bad
    <3> QED
      BY <2>1, <2>2, LeastOfNumbers
  <2> QED
    BY <2>3
<1>7. ASSUME NEW m \in 0 .. NumStops, NEW n \in 0 .. NumStops, m <= n
      PROVE  EdgesBefore[m] <= EdgesBefore[n]
  <2> DEFINE bad == { k \in m .. NumStops : ~ (EdgesBefore[m] <= EdgesBefore[k]) }
  <2>1. ASSUME NEW l \in bad, \A k \in bad : l <= k
        PROVE  FALSE
    <3>1. l \in m .. NumStops /\ l \in 0 .. NumStops /\ ~ (EdgesBefore[m] <= EdgesBefore[l])
      BY <1>1
    <3>2. l # m
      BY <1>6, <3>1
    <3>3. l - 1 \in m .. NumStops /\ l - 1 \in 0 .. NumStops - 1 /\ ~ (l <= l - 1) /\ l - 1 + 1 = l
      BY <1>1, <3>1, <3>2
    <3>4. EdgesBefore[m] <= EdgesBefore[l - 1]
      BY <2>1, <3>3
    <3>5. EdgesBefore[l] = EdgesBefore[l - 1] + Len(Targets(l - 1)) /\ Len(Targets(l - 1)) \in Nat
      BY <1>1, <1>5, <3>3
    <3>6. EdgesBefore[m] \in Nat /\ EdgesBefore[l - 1] \in Nat
      BY <1>1, <1>6, <3>3
    <3> QED
      BY <3>1, <3>4, <3>5, <3>6
  <2>2. bad \subseteq Nat
    BY <1>1
  <2>3. bad = {}
    <3> HIDE DEF bad
    <3> QED
      BY <2>1, <2>2, LeastOfNumbers
  <2> QED
    BY <1>1, <1>7, <2>3
<1> QED
  BY <1>1, <1>5, <1>6, <1>7

\* The timetable stays, and all that is read off it.
LEMMA SameTargets ==
    ASSUME timetable' = timetable
    PROVE  NumStops' = NumStops /\ EdgesBefore' = EdgesBefore /\ \A n : Targets(n)' = Targets(n)
<1>1. NumStops' = NumStops
  BY DEF NumStops
<1>2. \A n : Targets(n)' = Targets(n)
  BY DEF Targets, TransferTargets, StationTargets, NextStops, StationOf, Onward
<1>3. EdgesBefore' = EdgesBefore
  BY <1>1, <1>2 DEF EdgesBefore
<1> QED
  BY <1>1, <1>2, <1>3

\* What the operations of the factory do to the members of the graph.
LEMMA FactoryMembers ==
    ASSUME NEW g \in ForwardStar, NEW targets \in Seq(Nat),
           Len(g.nodes) - g.required_nodes \in 1 .. Len(g.nodes)
    PROVE  /\ AddEdges(AddNode(g), targets) \in ForwardStar
           /\ AddEdges(AddNode(g), targets).nodes
              = [g.nodes EXCEPT ![Len(g.nodes) - g.required_nodes] = Len(g.edges)]
           /\ AddEdges(AddNode(g), targets).edges = g.edges \o targets
           /\ AddEdges(AddNode(g), targets).required_nodes = g.required_nodes - 1
           /\ AddEdges(AddNode(g), targets).required_edges = g.required_edges - Len(targets)
<1> DEFINE M == [g.nodes EXCEPT ![Len(g.nodes) - g.required_nodes] = Len(g.edges)]
           r == g.required_nodes - 1
           h == [g EXCEPT !.nodes = M, !.required_nodes = r]
           F == g.edges \o targets
           q == g.required_edges - Len(targets)
<1>1. g.nodes \in Seq(Nat) /\ g.edges \in Seq(Nat) /\ g.required_nodes \in Int /\ g.required_edges \in Int
  BY DEF ForwardStar
<1>2. M \in Seq(Nat) /\ r \in Int /\ F \in Seq(Nat) /\ q \in Int
  <2>1. Len(g.edges) \in Nat /\ Len(targets) \in Nat
    BY <1>1
  <2> QED
    BY <1>1, <2>1, ExceptSeq, ConcatProperties
<1>3. AddNode(g) = h
  BY DEF AddNode
<1> HIDE DEF M, r
<1>4. h \in ForwardStar /\ h.nodes = M /\ h.edges = g.edges /\ h.required_nodes = r
      /\ h.required_edges = g.required_edges
  BY <1>2 DEF ForwardStar
<1> HIDE DEF h
<1>5. AddEdges(h, targets) = [h EXCEPT !.edges = F, !.required_edges = q]
  <2>1. AddEdges(h, targets)
        = [h EXCEPT !.edges = h.edges \o targets, !.required_edges = h.required_edges - Len(targets)]
    BY DEF AddEdges
  <2> QED
    BY <1>4, <2>1, Zenon
<1> HIDE DEF F, q
<1> DEFINE i == [h EXCEPT !.edges = F, !.required_edges = q]
<1>6. i \in ForwardStar /\ i.nodes = h.nodes /\ i.edges = F /\ i.required_nodes = h.required_nodes
      /\ i.required_edges = q
  BY <1>2, <1>4 DEF ForwardStar
<1> HIDE DEF i
<1>7. AddEdges(AddNode(g), targets) = i
  BY <1>3, <1>5 DEF i
<1> QED
  BY <1>4, <1>6, <1>7 DEF M, r, F, q

LEMMA InitAdaptor == AdaptorInit => AdaptorInv
<1> SUFFICES ASSUME AdaptorInit PROVE AdaptorInv
  OBVIOUS
<1>1. timetable \in TimeTables /\ pass = "count" /\ stop = 0 /\ num_edges = 0
  BY DEF AdaptorInit
<1>2. NumStops \in Nat /\ EdgesBefore[0] = 0
  BY <1>1, Numbered, Sums
<1> QED
  BY <1>1, <1>2 DEF AdaptorInv, Counted, Added

\* The first pass counts what leads from the next stop.
LEMMA CountKeeps == AdaptorInv /\ CountStop => AdaptorInv'
<1> SUFFICES ASSUME AdaptorInv, CountStop PROVE AdaptorInv'
  OBVIOUS
<1>1. /\ pass = "count" /\ pass' = "count" /\ stop < NumStops /\ stop' = stop + 1
      /\ timetable' = timetable
      /\ num_edges' = num_edges + Len(timetable.transfers[stop]) + CountDirect(stop)
                                + Len(Onward(stop))
  BY DEF CountStop
<1>2. timetable \in TimeTables /\ stop \in 0 .. NumStops /\ num_edges = EdgesBefore[stop]
  BY <1>1 DEF AdaptorInv, Counted
<1>3. NumStops \in Nat /\ stop \in DOMAIN timetable.station /\ stop \in 0 .. NumStops - 1
  BY <1>1, <1>2, Numbered
<1>4. /\ EdgesBefore[stop] \in Nat /\ EdgesBefore[stop + 1] = EdgesBefore[stop] + Len(Targets(stop))
      /\ Len(timetable.transfers[stop]) \in Nat
      /\ CountDirect(stop) \in Nat /\ Len(Onward(stop)) \in Nat
  <2>1. timetable.transfers[stop] \in Seq([stop : DOMAIN timetable.station, duration : Nat])
    BY <1>2, <1>3, Numbered DEF Adaptable
  <2> QED
    BY <1>2, <1>3, <2>1, Sums, StationFacts, NextStopsFacts, LenProperties
<1>5. Len(Targets(stop)) = Len(timetable.transfers[stop]) + CountDirect(stop) + Len(Onward(stop))
  BY <1>2, <1>3, TargetsFacts
<1>6. num_edges' = EdgesBefore[stop + 1]
  <2>1. PICK before \in Nat, transfers \in Nat, direct \in Nat, lines \in Nat :
               /\ before = EdgesBefore[stop] /\ transfers = Len(timetable.transfers[stop])
               /\ direct = CountDirect(stop) /\ lines = Len(Onward(stop))
    BY <1>4
  <2>2. EdgesBefore[stop + 1] = before + (transfers + direct + lines)
    BY <1>4, <1>5, <2>1
  <2>3. num_edges' = before + transfers + direct + lines
    BY <1>1, <1>2, <2>1
  <2>4. before + (transfers + direct + lines) = before + transfers + direct + lines
    OBVIOUS
  <2> QED
    BY <2>2, <2>3, <2>4
<1>7. NumStops' = NumStops /\ EdgesBefore' = EdgesBefore
  BY <1>1, SameTargets
<1> QED
  BY <1>1, <1>2, <1>3, <1>6, <1>7 DEF AdaptorInv, Counted, Added

\* The graph is allocated for all of it.
LEMMA AllocateKeeps == AdaptorInv /\ AllocateGraph => AdaptorInv'
<1> SUFFICES ASSUME AdaptorInv, AllocateGraph PROVE AdaptorInv'
  OBVIOUS
<1>1. /\ pass = "count" /\ stop = NumStops
      /\ building' = Allocate(NumStops, num_edges) /\ stop' = 0 /\ pass' = "build"
      /\ timetable' = timetable /\ num_edges' = num_edges
  BY DEF AllocateGraph
<1>2. timetable \in TimeTables /\ num_edges = EdgesBefore[NumStops]
  BY <1>1 DEF AdaptorInv, Counted
<1>3. NumStops \in Nat /\ EdgesBefore[0] = 0 /\ EdgesBefore[NumStops] \in Nat
  BY <1>2, Numbered, Sums
<1>4. NumStops' = NumStops /\ EdgesBefore' = EdgesBefore
  BY <1>1, SameTargets
<1> DEFINE nodes == [ i \in 1 .. NumStops + 1 |-> IF i = NumStops + 1 THEN num_edges ELSE 0 ]
<1>5. nodes \in Seq(Nat) /\ Len(nodes) = NumStops + 1 /\ nodes[NumStops + 1] = num_edges
  <2>1. \A i \in 1 .. NumStops + 1 : (IF i = NumStops + 1 THEN num_edges ELSE 0) \in Nat
    BY <1>2, <1>3
  <2>2. NumStops + 1 \in Nat /\ NumStops + 1 \in 1 .. NumStops + 1
    BY <1>3
  <2>3. nodes \in Seq(Nat)
    BY <2>1, <2>2, IsASeq
  <2> QED
    BY <2>2, <2>3
<1>6. building' = [ nodes |-> nodes, edges |-> << >>, required_nodes |-> NumStops,
                    required_edges |-> num_edges ]
  BY <1>1 DEF Allocate
<1> HIDE DEF nodes
<1>7. /\ building' \in ForwardStar
      /\ building'.required_nodes = NumStops /\ building'.required_edges = num_edges
      /\ building'.nodes = nodes /\ building'.edges = << >>
  <2>1. << >> \in Seq(Nat)
    OBVIOUS
  <2> QED
    BY <1>2, <1>3, <1>5, <1>6, <2>1 DEF ForwardStar
<1>8. Len(building'.edges) = 0 /\ \A n \in 0 .. 0 - 1 : FALSE
  BY <1>7
<1>9. Added'
  BY <1>1, <1>2, <1>3, <1>4, <1>5, <1>7, <1>8 DEF Added
<1>10. Counted' /\ stop' \in 0 .. NumStops'
  BY <1>1, <1>3, <1>4 DEF Counted
<1> QED
  BY <1>1, <1>2, <1>9, <1>10 DEF AdaptorInv

\* There is room for the edges of the next stop, and they are put behind the others.
LEMMA BuildKeeps == AdaptorInv /\ BuildStop => AdaptorInv'
<1> SUFFICES ASSUME AdaptorInv, BuildStop PROVE AdaptorInv'
  OBVIOUS
<1>1. /\ pass = "build" /\ stop < NumStops /\ stop' = stop + 1
      /\ timetable' = timetable /\ num_edges' = num_edges
  BY DEF BuildStop
<1>2. timetable \in TimeTables /\ stop \in 0 .. NumStops /\ Added
  BY DEF AdaptorInv
<1> DEFINE added == Targets(stop)
           nodes == building.nodes
           edges == building.edges
<1>3. /\ NumStops \in Nat /\ stop \in DOMAIN timetable.station /\ stop \in 0 .. NumStops - 1
      /\ stop + 1 \in 0 .. NumStops /\ NumStops \in 0 .. NumStops /\ stop \in Nat
  BY <1>1, <1>2, Numbered
<1>4. /\ EdgesBefore[stop] \in Nat /\ EdgesBefore[stop + 1] \in Nat /\ EdgesBefore[NumStops] \in Nat
      /\ EdgesBefore[stop + 1] = EdgesBefore[stop] + Len(added) /\ Len(added) \in Nat
      /\ EdgesBefore[stop + 1] <= EdgesBefore[NumStops]
  <2>1. /\ \A n \in 0 .. NumStops : EdgesBefore[n] \in Nat
        /\ \A n \in 0 .. NumStops - 1 : EdgesBefore[n + 1] = EdgesBefore[n] + Len(Targets(n))
        /\ \A n \in 0 .. NumStops - 1 : Len(Targets(n)) \in Nat
    BY <1>2, Sums
  <2>2. \A m, n \in 0 .. NumStops : m <= n => EdgesBefore[m] <= EdgesBefore[n]
    BY <1>2, Sums
  <2>3. stop + 1 <= NumStops
    BY <1>3
  <2>4. EdgesBefore[stop + 1] <= EdgesBefore[NumStops]
    BY <1>3, <2>2, <2>3
  <2>5. EdgesBefore[stop] \in Nat /\ EdgesBefore[stop + 1] \in Nat /\ EdgesBefore[NumStops] \in Nat
    BY <1>3, <2>1
  <2>6. EdgesBefore[stop + 1] = EdgesBefore[stop] + Len(added) /\ Len(added) \in Nat
    BY <1>3, <2>1
  <2> QED
    BY <2>4, <2>5, <2>6
<1>5. /\ building \in ForwardStar
      /\ building.required_nodes = NumStops - stop
      /\ building.required_edges = EdgesBefore[NumStops] - EdgesBefore[stop]
      /\ Len(nodes) = NumStops + 1
      /\ nodes[NumStops + 1] = EdgesBefore[NumStops]
      /\ \A n \in 0 .. stop - 1 : nodes[n + 1] = EdgesBefore[n]
      /\ Len(edges) = EdgesBefore[stop]
      /\ \A n \in 0 .. stop - 1 : \A i \in DOMAIN Targets(n) :
            edges[EdgesBefore[n] + i] = Targets(n)[i]
  BY <1>1, <1>2 DEF Added
<1>6. Len(added) <= building.required_edges
  BY <1>4, <1>5
<1>7. pass' = "build" /\ building' = AddEdges(AddNode(building), added)
  BY <1>1, <1>6 DEF BuildStop
<1>8. nodes \in Seq(Nat) /\ edges \in Seq(Nat)
  BY <1>5 DEF ForwardStar
<1>9. added \in Seq(Nat)
  <2>1. added \in Seq(DOMAIN timetable.station) /\ DOMAIN timetable.station \subseteq Nat
    BY <1>2, <1>3, TargetsFacts, Numbered
  <2> HIDE DEF added
  <2> QED
    BY <2>1, SeqMonotonic
<1> HIDE DEF added
<1>10. Len(nodes) - building.required_nodes = stop + 1
  BY <1>3, <1>5
<1> DEFINE moved == [nodes EXCEPT ![stop + 1] = Len(edges)]
<1>11. /\ building' \in ForwardStar /\ building'.nodes = moved /\ building'.edges = edges \o added
       /\ building'.required_nodes = building.required_nodes - 1
       /\ building'.required_edges = building.required_edges - Len(added)
  <2>1. building \in ForwardStar
    BY <1>5
  <2>2. Len(building.nodes) - building.required_nodes = stop + 1 /\ stop + 1 \in 1 .. Len(building.nodes)
    BY <1>3, <1>5, <1>10
  <2> QED
    BY <1>7, <1>9, <2>1, <2>2, FactoryMembers
<1>12. /\ moved \in Seq(Nat) /\ Len(moved) = NumStops + 1 /\ moved[stop + 1] = Len(edges)
       /\ \A i \in 1 .. NumStops + 1 : i # stop + 1 => moved[i] = nodes[i]
  <2> HIDE DEF nodes, edges
  <2>1. stop + 1 \in 1 .. Len(nodes) /\ Len(edges) \in Nat
    BY <1>3, <1>4, <1>5
  <2> QED
    BY <1>5, <1>8, <2>1, ExceptSeq
<1>13. /\ edges \o added \in Seq(Nat) /\ Len(edges \o added) = Len(edges) + Len(added)
       /\ \A i \in 1 .. Len(edges) + Len(added) :
             (edges \o added)[i] = IF i <= Len(edges) THEN edges[i] ELSE added[i - Len(edges)]
  BY <1>8, <1>9, ConcatProperties
<1> DEFINE all == edges \o added
<1>14. ASSUME NEW n \in 0 .. stop, NEW i \in DOMAIN Targets(n)
       PROVE  all[EdgesBefore[n] + i] = Targets(n)[i]
  <2>1. n \in 0 .. NumStops - 1 /\ n \in 0 .. NumStops /\ n + 1 \in 0 .. NumStops
    BY <1>3
  <2>2. i \in 1 .. Len(Targets(n)) /\ Len(Targets(n)) \in Nat /\ i \in Nat /\ i # 0
    <3>1. Targets(n) \in Seq(DOMAIN timetable.station)
      BY <1>2, <2>1, TargetsFacts, Numbered
    <3> QED
      BY <3>1
  <2>3. EdgesBefore[n] \in Nat /\ EdgesBefore[n + 1] = EdgesBefore[n] + Len(Targets(n))
    BY <1>2, <2>1, Sums
  <2> HIDE DEF nodes, edges
  <2>4. CASE n = stop
    <3>1. EdgesBefore[n] + i \in 1 .. Len(edges) + Len(added)
      BY <1>4, <1>5, <2>2, <2>4 DEF added
    <3>2. ~ (EdgesBefore[n] + i <= Len(edges)) /\ EdgesBefore[n] + i - Len(edges) = i
      BY <1>4, <1>5, <2>2, <2>3, <2>4
    <3>3. PICK at \in Nat : at = EdgesBefore[n] + i
      BY <2>2, <2>3
    <3>4. (edges \o added)[at] = added[at - Len(edges)]
      BY <1>13, <3>1, <3>2, <3>3
    <3>5. at - Len(edges) = i
      BY <1>4, <1>5, <2>2, <2>3, <2>4, <3>3
    <3>6. Targets(n) = added
      BY <2>4 DEF added
    <3> QED
      BY <3>3, <3>4, <3>5, <3>6, Zenon
  <2>5. CASE n # stop
    <3>1. n \in 0 .. stop - 1 /\ n + 1 <= stop
      BY <1>3, <2>1, <2>5
    <3>2. EdgesBefore[n + 1] <= EdgesBefore[stop] /\ EdgesBefore[n + 1] \in Nat
      BY <1>2, <2>1, <3>1, Sums
    <3>3. EdgesBefore[n] + i <= Len(edges) /\ EdgesBefore[n] + i \in 1 .. Len(edges) + Len(added)
      <4>1. PICK before \in Nat, length \in Nat, size \in Nat, more \in Nat :
                   /\ before = EdgesBefore[n] /\ length = Len(Targets(n))
                   /\ size = Len(edges) /\ more = Len(added)
        BY <1>4, <1>5, <2>2, <2>3
      <4>2. before + length <= size /\ i <= length
        BY <1>5, <2>2, <2>3, <3>2, <4>1
      <4>3. before + i <= size /\ before + i \in 1 .. size + more
        BY <2>2, <4>1, <4>2
      <4> QED
        BY <4>1, <4>3
    <3>4. edges[EdgesBefore[n] + i] = Targets(n)[i]
      BY <1>5, <3>1
    <3> HIDE DEF edges
    <3> QED
      BY <1>13, <3>3, <3>4
  <2> QED
    BY <2>4, <2>5
<1>15. \A n \in 0 .. stop : moved[n + 1] = EdgesBefore[n]
  <2> SUFFICES ASSUME NEW n \in 0 .. stop PROVE moved[n + 1] = EdgesBefore[n]
    OBVIOUS
  <2> HIDE DEF moved, edges, nodes
  <2>1. CASE n = stop
    BY <1>5, <1>12, <2>1
  <2>2. CASE n # stop
    <3>1. n \in 0 .. stop - 1 /\ n + 1 \in 1 .. NumStops + 1 /\ n + 1 # stop + 1
      BY <1>3, <2>2
    <3> QED
      BY <1>5, <1>12, <3>1
  <2> QED
    BY <2>1, <2>2
<1>16. moved[NumStops + 1] = EdgesBefore[NumStops]
  <2>1. NumStops + 1 \in 1 .. NumStops + 1 /\ NumStops + 1 # stop + 1
    BY <1>3
  <2> HIDE DEF moved, edges, nodes
  <2> QED
    BY <1>5, <1>12, <2>1
<1>17. /\ NumStops' = NumStops /\ EdgesBefore' = EdgesBefore
       /\ \A n : Targets(n)' = Targets(n)
  BY <1>1, SameTargets
<1>18. /\ building' \in ForwardStar /\ building'.nodes = moved /\ building'.edges = all
       /\ building'.required_nodes = NumStops - (stop + 1)
       /\ building'.required_edges = EdgesBefore[NumStops] - EdgesBefore[stop + 1]
  <2> HIDE DEF moved, edges, nodes
  <2>1. building.required_nodes - 1 = NumStops - (stop + 1) /\ NumStops - (stop + 1) \in Int
    BY <1>3, <1>5
  <2>2. PICK before \in Nat, total \in Nat, length \in Nat :
               before = EdgesBefore[stop] /\ total = EdgesBefore[NumStops] /\ length = Len(added)
    BY <1>4
  <2>3. /\ building.required_edges - Len(added) = total - before - length
        /\ EdgesBefore[NumStops] - EdgesBefore[stop + 1] = total - (before + length)
    BY <1>4, <1>5, <2>2
  <2>4. total - before - length = total - (before + length) /\ total - (before + length) \in Int
    OBVIOUS
  <2> QED
    BY <1>11, <1>12, <1>13, <2>1, <2>3, <2>4
<1>19. stop + 1 - 1 = stop /\ Len(all) = EdgesBefore[stop + 1]
  BY <1>3, <1>4, <1>5, <1>13
<1> HIDE DEF moved, all, edges, nodes
<1>20. Added'
  <2>1. ASSUME NEW n \in 0 .. stop
        PROVE  /\ building'.nodes[n + 1] = EdgesBefore'[n]
               /\ \A i \in DOMAIN (Targets(n)') : building'.edges[EdgesBefore'[n] + i] = Targets(n)'[i]
    BY <1>14, <1>15, <1>17, <1>18
  <2>2. 0 .. stop' - 1 = 0 .. stop
    BY <1>1, <1>3
  <2>3. /\ building' \in ForwardStar
        /\ building'.required_nodes = NumStops' - stop'
        /\ building'.required_edges = EdgesBefore'[NumStops'] - EdgesBefore'[stop']
        /\ Len(building'.nodes) = NumStops' + 1
        /\ building'.nodes[NumStops' + 1] = EdgesBefore'[NumStops']
        /\ Len(building'.edges) = EdgesBefore'[stop']
    BY <1>1, <1>12, <1>16, <1>17, <1>18, <1>19
  <2> QED
    BY <2>1, <2>2, <2>3, Zenon DEF Added
<1>21. Counted' /\ stop' \in 0 .. NumStops'
  BY <1>1, <1>3, <1>7, <1>17 DEF Counted
<1> QED
  BY <1>1, <1>2, <1>7, <1>20, <1>21 DEF AdaptorInv

LEMMA ReturnKeeps == AdaptorInv /\ ReturnGraph => AdaptorInv' /\ building' = building
<1> SUFFICES ASSUME AdaptorInv, ReturnGraph PROVE AdaptorInv' /\ building' = building
  OBVIOUS
<1>1. /\ pass = "build" /\ stop = NumStops /\ pass' = "adapted"
      /\ UNCHANGED << timetable, stop, num_edges, building >>
  BY DEF ReturnGraph
<1>2. /\ NumStops' = NumStops /\ EdgesBefore' = EdgesBefore
      /\ \A n : Targets(n)' = Targets(n)
  BY <1>1, SameTargets
<1>3. Added'
  BY <1>1, <1>2 DEF AdaptorInv, Added
<1> QED
  BY <1>1, <1>2, <1>3 DEF AdaptorInv, Counted

-----------------------------------------------------------------------------
(* The graph                                                                *)

\* The graph that is returned is complete, and what leads from its nodes is what leads
\* from the stops.
LEMMA GraphBuilt ==
    ASSUME AdaptorInv, pass \in {"build", "adapted"}, stop = NumStops
    PROVE  /\ Valid(building) /\ IsGraph(building)
           /\ Nodes(building) = DOMAIN timetable.station
           /\ \A n \in DOMAIN timetable.station : Edges(building, n) = Targets(n)
<1>1. timetable \in TimeTables /\ Added
  BY DEF AdaptorInv
<1> DEFINE Stops == DOMAIN timetable.station
           nodes == building.nodes
           edges == building.edges
<1>2. /\ NumStops \in Nat /\ Stops = 0 .. NumStops - 1
  BY <1>1, Numbered
<1>3. /\ building \in ForwardStar
      /\ building.required_nodes = NumStops - stop
      /\ building.required_edges = EdgesBefore[NumStops] - EdgesBefore[stop]
      /\ Len(nodes) = NumStops + 1
      /\ nodes[NumStops + 1] = EdgesBefore[NumStops]
      /\ \A n \in 0 .. NumStops - 1 : nodes[n + 1] = EdgesBefore[n]
      /\ Len(edges) = EdgesBefore[NumStops]
      /\ \A n \in 0 .. NumStops - 1 : \A i \in DOMAIN Targets(n) :
            edges[EdgesBefore[n] + i] = Targets(n)[i]
  BY <1>1 DEF Added
<1>4. nodes \in Seq(Nat) /\ edges \in Seq(Nat)
  BY <1>3 DEF ForwardStar
<1>5. Valid(building)
  <2>1. EdgesBefore[NumStops] \in Nat
    BY <1>1, <1>2, Sums
  <2>2. NumStops - NumStops = 0 /\ EdgesBefore[NumStops] - EdgesBefore[NumStops] = 0
    BY <1>2, <2>1
  <2> QED
    BY <1>3, <2>2 DEF Valid
<1>6. Nodes(building) = Stops
  <2>1. Size(building) = NumStops
    BY <1>2, <1>3 DEF Size
  <2> QED
    BY <1>2, <2>1 DEF Nodes
<1>7. ASSUME NEW n \in Stops
      PROVE  Edges(building, n) = Targets(n) /\ Targets(n) \in Seq(Stops)
  <2>1. n \in 0 .. NumStops - 1 /\ n \in Nat /\ n \in 0 .. NumStops /\ n + 1 \in 0 .. NumStops
    BY <1>2
  <2>2. /\ Targets(n) \in Seq(Stops) /\ Len(Targets(n)) \in Nat
        /\ DOMAIN Targets(n) = 1 .. Len(Targets(n))
    BY <1>1, TargetsFacts
  <2>3. PICK first \in Nat, length \in Nat : first = EdgesBefore[n] /\ length = Len(Targets(n))
    BY <1>1, <2>1, <2>2, Sums
  <2>4. nodes[n + 1] = first /\ nodes[n + 2] = first + length
    <3>1. EdgesBefore[n + 1] = first + length
      BY <1>1, <2>1, <2>3, Sums
    <3>2. nodes[n + 1] = first
      BY <1>3, <2>1, <2>3
    <3>3. nodes[n + 2] = EdgesBefore[n + 1]
      <4>1. n + 2 = n + 1 + 1
        BY <2>1
      <4>2. CASE n + 1 = NumStops
        BY <1>3, <4>1, <4>2
      <4>3. CASE n + 1 # NumStops
        <5>1. n + 1 \in 0 .. NumStops - 1
          BY <1>2, <2>1, <4>3
        <5> QED
          BY <1>3, <4>1, <5>1
      <4> QED
        BY <4>2, <4>3
    <3> QED
      BY <3>1, <3>2, <3>3
  <2>5. ASSUME NEW i \in 1 .. length
        PROVE  edges[first + 1 + i - 1] = Targets(n)[i]
    <3>1. first + 1 + i - 1 = first + i
      OBVIOUS
    <3>2. i \in DOMAIN Targets(n)
      BY <2>2, <2>3
    <3> QED
      BY <1>3, <2>1, <2>3, <3>1, <3>2
  <2> DEFINE part == SubSeq(edges, first + 1, first + length)
  <2>6. \A k \in first + 1 .. first + length : edges[k] \in Stops
    <3> SUFFICES ASSUME NEW k \in first + 1 .. first + length PROVE edges[k] \in Stops
      OBVIOUS
    <3>1. k - first \in 1 .. length /\ first + 1 + (k - first) - 1 = k
      OBVIOUS
    <3>2. edges[k] = Targets(n)[k - first]
      BY <2>5, <3>1
    <3> HIDE DEF Stops
    <3> QED
      BY <2>2, <2>3, <3>1, <3>2, ElementOfSeq
  <2>7. /\ part \in Seq(Stops) /\ Len(part) = length
        /\ \A i \in 1 .. length : part[i] = edges[first + 1 + i - 1]
    <3>1. first + 1 \in Int /\ first + length \in Int /\ first + length - (first + 1) + 1 = length
          /\ (first + 1 <= first + length <=> length # 0)
      OBVIOUS
    <3> HIDE DEF Stops, edges
    <3>2. /\ part \in Seq(Stops)
          /\ Len(part) = IF first + 1 <= first + length THEN first + length - (first + 1) + 1 ELSE 0
          /\ \A i \in 1 .. first + length - (first + 1) + 1 : part[i] = edges[first + 1 + i - 1]
      BY <2>6, <3>1, SubSeqProperties
    <3> HIDE DEF part
    <3> QED
      BY <3>1, <3>2
  <2>8. Edges(building, n) = part
    BY <2>4 DEF Edges
  <2> HIDE DEF part, edges, Stops
  <2>9. part = Targets(n)
    BY <2>2, <2>3, <2>5, <2>7, SeqEqual
  <2> QED
    BY <2>2, <2>8, <2>9
<1>8. IsGraph(building)
  <2>1. nodes # << >>
    BY <1>2, <1>3
  <2> HIDE DEF Stops
  <2> QED
    BY <1>4, <1>6, <1>7, <2>1 DEF IsGraph
<1> QED
  BY <1>5, <1>6, <1>7, <1>8

\* A set of stops is left by no journey if and only if no edge of the graph leaves it.
LEMMA LeadsAreEdges ==
    ASSUME timetable \in TimeTables, Nodes(graph) = DOMAIN timetable.station,
           \A n \in DOMAIN timetable.station : Edges(graph, n) = Targets(n),
           NEW stops \in SUBSET DOMAIN timetable.station
    PROVE  Leads(stops) <=> Closed(stops)
<1>1. ASSUME NEW s \in stops
      PROVE  Range(Edges(graph, s)) = Range(TransferTargets(s)) \cup Range(StationTargets(s))
                                      \cup Range(NextStops(s))
  BY TargetsFacts
<1>2. \A id \in DOMAIN timetable.lines : timetable.lines[id].stops \in Seq(DOMAIN timetable.station)
  BY Numbered DEF Adaptable
<1>3. ASSUME Leads(stops), NEW s \in stops
      PROVE  Range(Edges(graph, s)) \subseteq stops
  <2>1. Range(TransferTargets(s)) \subseteq stops
    BY <1>3 DEF Leads
  <2>2. Range(StationTargets(s)) \subseteq stops
    <3> SUFFICES ASSUME NEW r \in DOMAIN StationTargets(s) PROVE StationTargets(s)[r] \in stops
      BY DEF Range
    <3>1. /\ StationTargets(s) \in Seq(DOMAIN timetable.station)
          /\ \/ StationTargets(s)[r] = StationOf(s)
             \/ StationOf(StationTargets(s)[r]) = StationOf(s)
      BY StationFacts
    <3>2. StationOf(StationOf(s)) = StationOf(s)
      BY StationAssumption DEF StationOf
    <3>3. StationTargets(s)[r] \in DOMAIN timetable.station
      BY <3>1
    <3>4. StationOf(StationTargets(s)[r]) = StationOf(s)
      BY <3>1, <3>2
    <3> QED
      BY <1>3, <3>3, <3>4 DEF Leads
  <2>3. Range(NextStops(s)) \subseteq stops
    <3> SUFFICES ASSUME NEW r \in DOMAIN NextStops(s) PROVE NextStops(s)[r] \in stops
      BY DEF Range
    <3>1. PICK id \in DOMAIN timetable.lines : \E k \in DOMAIN timetable.lines[id].stops :
                 LET on == timetable.lines[id].stops
                 IN  k + 1 \in DOMAIN on /\ on[k] = s /\ NextStops(s)[r] = on[k + 1]
      BY NextStopsFacts
    <3>3. PICK on : on = timetable.lines[id].stops
      OBVIOUS
    <3>2. PICK k \in DOMAIN on : k + 1 \in DOMAIN on /\ on[k] = s /\ NextStops(s)[r] = on[k + 1]
      BY <3>1, <3>3
    <3>4. on \in Seq(DOMAIN timetable.station)
      BY <1>2, <3>3
    <3>5. k < k + 1
      BY <3>2, <3>4
    <3> QED
      BY <1>3, <3>3, <3>2, <3>5 DEF Leads
  <2> QED
    BY <1>1, <2>1, <2>2, <2>3
<1>4. ASSUME Closed(stops), NEW s \in stops
      PROVE  /\ { to \in DOMAIN timetable.station : StationOf(to) = StationOf(s) } \subseteq stops
             /\ Range(TransferTargets(s)) \subseteq stops
             /\ Range(NextStops(s)) \subseteq stops
  <2>1. /\ Range(TransferTargets(s)) \subseteq stops /\ Range(NextStops(s)) \subseteq stops
        /\ Range(StationTargets(s)) \subseteq stops
    BY <1>1, <1>4 DEF Closed
  <2>2. ASSUME NEW to \in DOMAIN timetable.station, StationOf(to) = StationOf(s)
        PROVE  to \in stops
    <3>1. CASE to = s
      BY <3>1
    <3>2. CASE to # s
      <4>1. PICK r \in DOMAIN StationTargets(s) : StationTargets(s)[r] = to
        BY <2>2, <3>2, StationFacts
      <4> QED
        BY <2>1, <4>1 DEF Range
    <3> QED
      BY <3>1, <3>2
  <2> QED
    BY <2>1, <2>2
<1>5. ASSUME Closed(stops), NEW id \in DOMAIN timetable.lines,
             NEW i \in DOMAIN timetable.lines[id].stops, NEW j \in DOMAIN timetable.lines[id].stops,
             i < j, timetable.lines[id].stops[i] \in stops
      PROVE  timetable.lines[id].stops[j] \in stops
  <2>1. PICK on \in Seq(DOMAIN timetable.station) : on = timetable.lines[id].stops
    BY <1>2
  <2>2. DOMAIN on = 1 .. Len(on) /\ Len(on) \in Nat
    OBVIOUS
  <2> DEFINE missed == { k \in i .. Len(on) : on[k] \notin stops }
  <2>3. ASSUME NEW k \in missed, \A l \in missed : k <= l
        PROVE  FALSE
    <3>1. k \in i .. Len(on) /\ on[k] \notin stops /\ i \in 1 .. Len(on)
      BY <2>1, <2>2
    <3>2. k # i
      BY <1>5, <2>1, <3>1
    <3>3. /\ k - 1 \in i .. Len(on) /\ k - 1 \in DOMAIN on /\ ~ (k <= k - 1) /\ k - 1 < Len(on)
          /\ k - 1 + 1 = k
      BY <2>2, <3>1, <3>2
    <3>4. on[k - 1] \in stops
      BY <2>3, <3>3
    <3>5. PICK from \in stops, here \in DOMAIN on :
                 from = on[here] /\ here < Len(on) /\ on[here + 1] = on[k]
      BY <3>3, <3>4
    <3>6. \E r \in DOMAIN NextStops(from) : NextStops(from)[r] = on[here + 1]
      <4>1. from \in DOMAIN timetable.station
        BY <3>5
      <4>2. \A l \in DOMAIN timetable.lines : \A m \in DOMAIN timetable.lines[l].stops :
               timetable.lines[l].stops[m] = from /\ m < Len(timetable.lines[l].stops)
               => \E r \in DOMAIN NextStops(from) :
                     NextStops(from)[r] = timetable.lines[l].stops[m + 1]
        BY <4>1, NextStopsFacts
      <4>3. here \in DOMAIN on /\ on[here] = from /\ here < Len(on)
        BY <3>5
      <4> QED
        BY <1>5, <2>1, <4>2, <4>3
    <3>7. on[here + 1] \in stops
      BY <1>4, <1>5, <3>6 DEF Range
    <3> QED
      BY <3>1, <3>5, <3>7
  <2>4. missed \subseteq Nat
    BY <2>1, <2>2
  <2>5. missed = {}
    <3> HIDE DEF missed
    <3> QED
      BY <2>3, <2>4, LeastOfNumbers
  <2>6. j \in i .. Len(on)
    BY <1>5, <2>1, <2>2
  <2> QED
    BY <2>1, <2>5, <2>6
<1>6. Closed(stops) => Leads(stops)
  BY <1>4, <1>5 DEF Leads
<1>7. Leads(stops) => Closed(stops)
  BY <1>3 DEF Closed
<1> QED
  BY <1>6, <1>7

\* So journeys are ways in the graph.
LEMMA JourneysAreWays ==
    ASSUME timetable \in TimeTables, Nodes(graph) = DOMAIN timetable.station,
           \A n \in DOMAIN timetable.station : Edges(graph, n) = Targets(n)
    PROVE  \A x, y : Journey(x, y) <=> Reaches(x, y)
<1>1. \A stops \in SUBSET DOMAIN timetable.station : Leads(stops) <=> Closed(stops)
  BY LeadsAreEdges
<1> QED
  BY <1>1 DEF Journey, Reaches

-----------------------------------------------------------------------------
(* The service                                                              *)

LEMMA InitConnectivity == ConnectivityInit => ConnectivityInv
<1> SUFFICES ASSUME ConnectivityInit PROVE ConnectivityInv
  OBVIOUS
<1>1. AdaptorInv /\ IInv
  BY InitAdaptor, InitInvariant DEF ConnectivityInit
<1>2. pass # "adapted" /\ Fresh
  BY DEF ConnectivityInit, AdaptorInit, Init
<1> QED
  BY <1>1, <1>2 DEF ConnectivityInv

\* A search that has not begun may begin with any graph.
LEMMA AdaptKeeps == ConnectivityInv /\ AdaptTimetable => ConnectivityInv'
<1> SUFFICES ASSUME ConnectivityInv, AdaptTimetable PROVE ConnectivityInv'
  OBVIOUS
<1>1. pass # "adapted" /\ Adapt
  BY DEF AdaptTimetable, Adapt, CountStop, AllocateGraph, BuildStop, ReturnGraph
<1>2. AdaptorInv /\ IInv /\ Fresh
  BY <1>1 DEF ConnectivityInv
<1>3. AdaptorInv'
  BY <1>1, <1>2, CountKeeps, AllocateKeeps, BuildKeeps, ReturnKeeps DEF Adapt
<1>4. Fresh'
  BY <1>2 DEF AdaptTimetable, search, Fresh
<1>5. graph' = IF pass' = "adapted" THEN building' ELSE graph
  BY DEF AdaptTimetable
<1>6. ASSUME pass' = "adapted"
      PROVE  stop' = NumStops' /\ IsGraph(building)'
  <2>1. ReturnGraph
    BY <1>1, <1>6 DEF Adapt, CountStop, AllocateGraph, BuildStop
  <2>2. /\ pass = "build" /\ stop = NumStops /\ building' = building
        /\ stop' = stop /\ timetable' = timetable
    BY <2>1 DEF ReturnGraph
  <2>3. IsGraph(building)
    BY <1>2, <2>2, GraphBuilt
  <2> QED
    BY <2>2, <2>3, SameTargets
<1>7. IsGraph(graph)'
  BY <1>2, <1>5, <1>6 DEF IInv
<1>8. (IsGraph(graph) /\ Fresh => IInv)'
  BY FreshInvariant, PTL
<1> QED
  BY <1>3, <1>4, <1>5, <1>6, <1>7, <1>8 DEF ConnectivityInv

\* The search leaves its graph alone.
LEMMA NextKeepsGraph == [Next]_vars => graph' = graph
BY DEF Next, vars, StartSearch, Descend, FollowEdge, Backtrack, Returned

LEMMA AdaptorStays == AdaptorInv /\ UNCHANGED adaptor => AdaptorInv'
<1> SUFFICES ASSUME AdaptorInv, UNCHANGED adaptor PROVE AdaptorInv'
  OBVIOUS
<1>1. UNCHANGED << timetable, pass, stop, num_edges, building >>
  BY DEF adaptor
<1>2. /\ NumStops' = NumStops /\ EdgesBefore' = EdgesBefore
      /\ \A n : Targets(n)' = Targets(n)
  BY <1>1, SameTargets
<1>3. Added'
  BY <1>1, <1>2 DEF AdaptorInv, Added
<1> QED
  BY <1>1, <1>2, <1>3 DEF AdaptorInv, Counted

LEMMA ComputeKeeps == ConnectivityInv /\ ComputeSCC => ConnectivityInv'
<1> SUFFICES ASSUME ConnectivityInv, ComputeSCC PROVE ConnectivityInv'
  OBVIOUS
<1>1. pass = "adapted" /\ Next /\ UNCHANGED adaptor
  BY DEF ComputeSCC
<1>2. AdaptorInv /\ IInv /\ stop = NumStops /\ graph = building
  BY <1>1 DEF ConnectivityInv
<1>3. AdaptorInv' /\ IInv' /\ graph' = graph
  BY <1>1, <1>2, AdaptorStays, NextInvariant, NextKeepsGraph
<1>4. pass' = pass /\ stop' = stop /\ building' = building /\ NumStops' = NumStops
  BY <1>1, SameTargets DEF adaptor
<1> QED
  BY <1>1, <1>2, <1>3, <1>4 DEF ConnectivityInv

LEMMA OthersKeep == ConnectivityInv /\ UNCHANGED << adaptor, vars >> => ConnectivityInv'
<1> SUFFICES ASSUME ConnectivityInv, UNCHANGED adaptor, UNCHANGED vars PROVE ConnectivityInv'
  OBVIOUS
<1>1. AdaptorInv' /\ IInv'
  BY AdaptorStays, StutterInvariant DEF ConnectivityInv
<1>2. /\ pass' = pass /\ stop' = stop /\ building' = building /\ NumStops' = NumStops
      /\ graph' = graph
  BY SameTargets DEF adaptor, vars
<1>3. Fresh => Fresh'
  BY DEF Fresh, vars, search
<1> QED
  BY <1>1, <1>2, <1>3 DEF ConnectivityInv

LEMMA ConnectivityKeeps == ConnectivityInv /\ [ConnectivityNext]_connectivity => ConnectivityInv'
<1>1. HandleTile => UNCHANGED << adaptor, vars >>
  BY DEF HandleTile
<1>2. UNCHANGED connectivity => UNCHANGED << adaptor, vars >>
  BY DEF connectivity
<1> QED
  BY <1>1, <1>2, AdaptKeeps, ComputeKeeps, OthersKeep DEF ConnectivityNext

\* The adaptor's passes and the search keep their invariants when one hands its graph to
\* the other.
THEOREM ConnectivityInvariant == ConnectivitySpec => []ConnectivityInv
BY InitConnectivity, ConnectivityKeeps, PTL DEF ConnectivitySpec

\* What the first pass counts is what the second one adds.
THEOREM AllocationIsExact == ConnectivitySpec => []AllocationExact
<1>1. ConnectivityInv => AllocationExact
  <2> SUFFICES ASSUME ConnectivityInv PROVE AllocationExact
    OBVIOUS
  <2>1. pass # "thrown"
    BY DEF ConnectivityInv, AdaptorInv
  <2>2. pass = "adapted" => Valid(graph)
    BY GraphBuilt DEF ConnectivityInv
  <2> QED
    BY <2>1, <2>2 DEF AllocationExact
<1> QED
  BY <1>1, ConnectivityInvariant, PTL

\* The service's components are the strongly connected components of the graph, numbered
\* against its edges.
THEOREM ServiceComponents == ConnectivitySpec => [](ComponentsStrong /\ SinksFirst)
<1>1. ConnectivityInv => ComponentsStrong /\ SinksFirst
  BY InvariantStrong, InvariantSinks DEF ConnectivityInv
<1> QED
  BY <1>1, ConnectivityInvariant, PTL

\* Stops share a component if and only if there are journeys from each to the other.
THEOREM ComponentsAreJourneys == ConnectivitySpec => []ComponentsOfJourneys
<1>1. ConnectivityInv => ComponentsOfJourneys
  <2> SUFFICES ASSUME ConnectivityInv, Done,
                      NEW x \in DOMAIN timetable.station, NEW y \in DOMAIN timetable.station
               PROVE  component[x] = component[y] <=> Journey(x, y) /\ Journey(y, x)
    BY DEF ComponentsOfJourneys
  <2>1. AdaptorInv /\ IInv /\ pass = "adapted" /\ stop = NumStops /\ graph = building /\ Finished
    BY DEF ConnectivityInv, Done
  <2>2. timetable \in TimeTables
    BY <2>1 DEF AdaptorInv
  <2>3. /\ Nodes(graph) = DOMAIN timetable.station
        /\ \A n \in DOMAIN timetable.station : Edges(graph, n) = Targets(n)
    BY <2>1, GraphBuilt
  <2>4. DOMAIN component = DOMAIN timetable.station
    BY <2>1, <2>3, FinishedComplete
  <2>5. component[x] = component[y] <=> Reaches(x, y) /\ Reaches(y, x)
    BY <2>1, <2>4 DEF IInv, ComponentsMutual
  <2> QED
    BY <2>2, <2>3, <2>5, JourneysAreWays
<1> QED
  BY <1>1, ConnectivityInvariant, PTL

\* Neither the adaptor nor a tile moves a stop from one component to another.
THEOREM ServiceKeepsComponents == ConnectivitySpec => ComponentIsFinal
<1> DEFINE Stay == \A n \in DOMAIN component :
                     n \in DOMAIN component' /\ component'[n] = component[n]
<1>1. ConnectivityInv /\ [ConnectivityNext]_connectivity => [Stay]_vars
  <2> SUFFICES ASSUME ConnectivityInv, [ConnectivityNext]_connectivity PROVE [Stay]_vars
    OBVIOUS
  <2>1. CASE AdaptTimetable
    BY <2>1 DEF AdaptTimetable, search
  <2>2. CASE ComputeSCC
    BY <2>2, StepsKeepComponents DEF ComputeSCC, ConnectivityInv
  <2>3. CASE HandleTile \/ UNCHANGED connectivity
    BY <2>3 DEF HandleTile, connectivity
  <2> QED
    BY <2>1, <2>2, <2>3 DEF ConnectivityNext
<1>2. ComponentIsFinal <=> [][Stay]_vars
  BY PTL DEF ComponentIsFinal
<1> HIDE DEF Stay
<1> QED
  BY <1>1, <1>2, ConnectivityInvariant, PTL DEF ConnectivitySpec
================================================================================
