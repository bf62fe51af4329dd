------------------------------ MODULE RoadGraph ------------------------------
(***************************************************************************)
(* The construction of the road graph (backend/src/graph/road-graph.ts):   *)
(* the largest strongly connected component, whose nodes are the routable  *)
(* ones, by Kosaraju's algorithm.  The first pass is a depth first search  *)
(* with an explicit stack that lists the nodes in the order in which they  *)
(* are finished; the second one collects components along reversed edges,  *)
(* starting from the node that was finished last.                          *)
(*                                                                         *)
(* An action is one iteration of a while loop.  The order of the rows that *)
(* the database returns decides which node or neighbour comes next: any.   *)
(***************************************************************************)
EXTENDS Naturals, SequencesExt

CONSTANT Nodes      \* nodes of the graph

ASSUME NodesAssumption == IsFiniteSet(Nodes)

VARIABLES
    edges,          \* pairs <<from, to>>, fixed when the graph is loaded
    phase,          \* "finish", "collect" or "built"
    visited,        \* nodes the first pass has pushed
    stack,          \* nodes of the pass in progress
    ahead,          \* ahead[n]: neighbours from nextNeighborIndex of the frame of n on
    finishOrder,    \* finished nodes that the second pass has not taken yet
    assigned,       \* nodes that the second pass has pushed
    component,      \* the component being collected
    largest         \* largestComponent, then routableNodeIds

graphVars == <<edges, phase, visited, stack, ahead, finishOrder, assigned, component,
               largest>>

Neighbors(n) == {m \in Nodes : <<n, m>> \in edges}
ReverseNeighbors(n) == {m \in Nodes : <<m, n>> \in edges}

\* The types of the variables of the construction.
GraphTypeOK ==
    /\ edges \in SUBSET (Nodes \X Nodes)
    /\ phase \in {"finish", "collect", "built"}
    /\ visited \in SUBSET Nodes
    /\ stack \in Seq(Nodes)
    /\ ahead \in [Nodes -> SUBSET Nodes]
    /\ finishOrder \in Seq(Nodes)
    /\ assigned \in SUBSET Nodes
    /\ component \in SUBSET Nodes
    /\ largest \in SUBSET Nodes

\* Any graph.  Loops are left out: a traversal that looks at an edge has
\* visited its origin already, and skips edges to nodes it has visited.
GraphInit ==
    /\ edges \in SUBSET {e \in Nodes \X Nodes : e[1] # e[2]}
    /\ phase = "finish"
    /\ visited = {}
    /\ stack = <<>>
    /\ ahead = [n \in Nodes |-> {}]
    /\ finishOrder = <<>>
    /\ assigned = {}
    /\ component = {}
    /\ largest = {}

-----------------------------------------------------------------------------
(* The first pass                                                          *)

StartTree(n) ==
    /\ phase = "finish" /\ stack = <<>>
    /\ n \notin visited
    /\ visited' = visited \cup {n}
    /\ stack' = <<n>>
    /\ ahead' = [ahead EXCEPT ![n] = Neighbors(n)]
    /\ UNCHANGED <<edges, phase, finishOrder, assigned, component, largest>>

\* The frame on top of the stack turns to its next neighbour m.
TurnsTo(m) ==
    /\ phase = "finish" /\ stack # <<>>
    /\ m \in ahead[Last(stack)]

\* m was visited before: only nextNeighborIndex moves on.
PassOver(m) ==
    /\ TurnsTo(m)
    /\ m \in visited
    /\ ahead' = [ahead EXCEPT ![Last(stack)] = @ \ {m}]
    /\ UNCHANGED <<edges, phase, visited, stack, finishOrder, assigned, component, largest>>

\* m is new: its own frame is put on top, at index 0.
Descend(m) ==
    /\ TurnsTo(m)
    /\ m \notin visited
    /\ visited' = visited \cup {m}
    /\ stack' = Append(stack, m)
    /\ ahead' = [ahead EXCEPT ![Last(stack)] = @ \ {m}, ![m] = Neighbors(m)]
    /\ UNCHANGED <<edges, phase, finishOrder, assigned, component, largest>>

RetreatEarly ==
    /\ phase = "finish" /\ stack # <<>>
    /\ Cardinality(ahead[Last(stack)]) <= 1
    /\ finishOrder' = Append(finishOrder, Last(stack))
    /\ stack' = Front(stack)
    /\ UNCHANGED <<edges, phase, visited, ahead, assigned, component, largest>>

\* No neighbour left: the node is finished.
Retreat ==
    /\ phase = "finish" /\ stack # <<>>
    /\ ahead[Last(stack)] = {}
    /\ finishOrder' = Append(finishOrder, Last(stack))
    /\ stack' = Front(stack)
    /\ UNCHANGED <<edges, phase, visited, ahead, assigned, component, largest>>

FirstPassDone ==
    /\ phase = "finish" /\ stack = <<>>
    /\ visited = Nodes
    /\ phase' = "collect"
    /\ UNCHANGED <<edges, visited, stack, ahead, finishOrder, assigned, component, largest>>

-----------------------------------------------------------------------------
(* The second pass                                                         *)

\* The node n begins a component, unless it has one; the others are left.
Take(n, others) ==
    /\ phase = "collect" /\ stack = <<>>
    /\ finishOrder' = others
    /\ component' = {}
    /\ assigned' = assigned \cup {n}
    /\ stack' = IF n \in assigned THEN <<>> ELSE <<n>>
    /\ UNCHANGED <<edges, phase, visited, ahead, largest>>

TakeLastFinished == finishOrder # <<>> /\ Take(Last(finishOrder), Front(finishOrder))

\* Pop a node and push, in some order, what was found next to it; when none
\* is left the component is compared with the largest one so far.
CollectAlong(found) ==
    /\ component' = component \cup {Last(stack)}
    /\ assigned' = assigned \cup found
    /\ \E order \in SetToSeqs(found) : stack' = Front(stack) \o order
    /\ largest' = IF stack' = <<>> /\ Cardinality(component') > Cardinality(largest)
                  THEN component' ELSE largest
    /\ UNCHANGED <<edges, phase, visited, ahead, finishOrder>>

Collecting == phase = "collect" /\ stack # <<>>

CollectForward == Collecting /\ CollectAlong(Neighbors(Last(stack)) \ assigned)
Collect == Collecting /\ CollectAlong(ReverseNeighbors(Last(stack)) \ assigned)

Built ==
    /\ phase = "collect" /\ stack = <<>> /\ finishOrder = <<>>
    /\ phase' = "built"
    /\ UNCHANGED <<edges, visited, stack, ahead, finishOrder, assigned, component, largest>>

GraphNext ==
    \/ \E n \in Nodes : StartTree(n)
    \/ \E m \in Nodes : PassOver(m)
    \/ \E m \in Nodes : Descend(m)
    \/ Retreat
    \/ FirstPassDone
    \/ TakeLastFinished
    \/ Collect
    \/ Built

-----------------------------------------------------------------------------
Wider(near) == near \cup UNION {Neighbors(m) : m \in near}

\* The nodes to which there is a path from n.
ReachableFrom(n) ==
    LET within[k \in 0 .. Cardinality(Nodes)] ==
            IF k = 0 THEN {n} ELSE Wider(within[k - 1])
    IN within[Cardinality(Nodes) - 1]

ComponentOf(n) == {m \in ReachableFrom(n) : n \in ReachableFrom(m)}

\* The routable nodes are a strongly connected component, and none has more
\* nodes: whatever the order in which the database returns nodes and edges,
\* snapping leads to nodes between which every route exists.
RoutableIsLargestComponent ==
    phase = "built" =>
        \A n \in Nodes :
            LET own == ComponentOf(n)
            IN IF n \in largest THEN own = largest
                                ELSE Cardinality(own) <= Cardinality(largest)
=============================================================================
