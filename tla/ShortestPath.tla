---------------------------- MODULE ShortestPath ----------------------------
(***************************************************************************)
(* The search for a shortest path (backend/src/algorithms/pathfinding.ts)  *)
(* on the graph that RoadGraph has built, with the heap of BinaryHeap as   *)
(* its queue.  dijkstraShortestPath and aStarShortestPath differ in the    *)
(* heuristic only, which a query brings along as the field air.            *)
(*                                                                         *)
(* An action is one iteration of the while loop up to the loop over the    *)
(* neighbours, or one iteration of that loop.  The neighbours come in any  *)
(* order: that of the rows of the table edges.                             *)
(***************************************************************************)
EXTENDS RoadGraph, BinaryHeap

\* A query is [start, goal, length, air]: the two nodes, the length of an
\* edge between any two nodes if there is one, and the heuristic.
CONSTANTS Queries, NoNode

EdgeLength(q, n, m) == q.length[n, m]

\* The heuristic is the great circle to the goal, and an edge is as long as
\* the great circle between its ends: the triangle inequality.
ASSUME Consistency ==
    \A q \in Queries :
        /\ q.goal \in Nodes => q.air[q.goal] = 0
        /\ \A n \in Nodes : q.air[n] \in Nat
        /\ \A n, m \in Nodes : EdgeLength(q, n, m) \in Nat
        /\ \A n, m \in Nodes : n # m => q.air[n] <= EdgeLength(q, n, m) + q.air[m]

VARIABLES
    query,
    distances, previous,    \* the two maps
    settled, queue, nodesExplored,
    current,                \* the entry whose neighbours are visited
    rest,                   \* the neighbours still to be visited
    search                  \* "idle", "running", "found" or "none"

searchVars == <<query, distances, previous, settled, queue, nodesExplored, current, rest, search>>
vars == <<graphVars, searchVars>>

NoQuery == [start |-> NoNode, goal |-> NoNode, length |-> <<>>, air |-> <<>>]

\* map.set(n, value)
MapSet(map, n, value) ==
    [m \in DOMAIN map \cup {n} |-> IF m = n THEN value ELSE map[m]]

Entry(n, d) == [nodeId |-> n, distanceM |-> d]
ItemWithoutHeuristic(q, n, d) == [value |-> Entry(n, d), priority |-> d]
Item(q, n, d) == [value |-> Entry(n, d), priority |-> d + q.air[n]]

Init ==
    /\ GraphInit
    /\ query = NoQuery
    /\ distances = <<>> /\ previous = <<>>
    /\ settled = {}
    /\ queue = <<>>
    /\ nodesExplored = 0
    /\ current = Entry(NoNode, 0)
    /\ rest = {}
    /\ search = "idle"

StartSearch(q) ==
    /\ phase = "built" /\ search = "idle"
    /\ {q.start, q.goal} \subseteq Nodes
    /\ query' = q
    /\ distances' = MapSet(<<>>, q.start, 0)
    /\ queue' = Push(<<>>, Item(q, q.start, 0))
    /\ search' = "running"
    /\ UNCHANGED <<graphVars, previous, settled, nodesExplored, current, rest>>

\* getNode() knows one of the two nodes no longer.
UnknownNode(q) ==
    /\ phase = "built" /\ search = "idle"
    /\ ~ {q.start, q.goal} \subseteq Nodes
    /\ query' = q
    /\ search' = "none"
    /\ UNCHANGED <<graphVars, distances, previous, settled, queue, nodesExplored,
                   current, rest>>

Iterating == search = "running" /\ rest = {}

\* The entry is older than the one the node was settled with.
SkipStale ==
    /\ Iterating /\ queue # <<>>
    /\ Top(queue).nodeId \in settled
    /\ queue' = Pop(queue)
    /\ UNCHANGED <<graphVars, query, distances, previous, settled, nodesExplored,
                   current, rest, search>>

\* Settle the node of the first entry; at the goal the search ends.
SettleTop ==
    LET entry == Top(queue) IN
    /\ Iterating /\ queue # <<>>
    /\ queue' = Pop(queue)
    /\ current' = entry
    /\ settled' = settled \cup {entry.nodeId}
    /\ nodesExplored' = nodesExplored + 1
    /\ IF entry.nodeId = query.goal
       THEN search' = "found" /\ rest' = {}
       ELSE rest' = Neighbors(entry.nodeId) /\ UNCHANGED search
    /\ UNCHANGED <<graphVars, query, distances, previous>>

Settle ==
    /\ Iterating /\ queue # <<>>
    /\ Top(queue).nodeId \notin settled
    /\ SettleTop

ImprovesUnknown(n, d) == n \notin DOMAIN distances
Improves(n, d) == n \in DOMAIN distances => d < distances[n]

Visit(n) ==
    LET d == current.distanceM + EdgeLength(query, current.nodeId, n) IN
    /\ search = "running"
    /\ n \in rest
    /\ rest' = rest \ {n}
    /\ IF n \notin settled /\ Improves(n, d)
       THEN /\ distances' = MapSet(distances, n, d)
            /\ previous' = MapSet(previous, n, current.nodeId)
            /\ queue' = Push(queue, Item(query, n, d))
       ELSE UNCHANGED <<distances, previous, queue>>
    /\ UNCHANGED <<graphVars, query, settled, nodesExplored, current, search>>

Exhausted ==
    /\ Iterating /\ queue = <<>>
    /\ search' = "none"
    /\ UNCHANGED <<graphVars, query, distances, previous, settled, queue, nodesExplored,
                   current, rest>>

Next ==
    \/ GraphNext /\ UNCHANGED searchVars
    \/ \E q \in Queries : StartSearch(q) \/ UnknownNode(q)
    \/ SkipStale
    \/ Settle
    \/ \E n \in Nodes : Visit(n)
    \/ Exhausted

Spec == Init /\ [][Next]_vars

Found == search = "found"
Ended == search \in {"found", "none"}

\* buildPathCoordinates: the nodes back from n to the start, or <<>> when an
\* entry of previous is missing.
PathTo(n) ==
    LET back[k \in 0 .. Cardinality(Nodes)] ==
            IF k = 0 THEN <<n>>
            ELSE LET path == back[k - 1]
                 IN IF path = <<>> \/ path[1] = query.start THEN path
                    ELSE IF path[1] \notin DOMAIN previous THEN <<>>
                    ELSE <<previous[path[1]]>> \o path
    IN back[Cardinality(Nodes)]

LengthOf(path) ==
    LET sum[k \in 1 .. Len(path)] ==
            IF k = 1 THEN 0 ELSE sum[k - 1] + EdgeLength(query, path[k - 1], path[k])
    IN sum[Len(path)]

-----------------------------------------------------------------------------
\* The paths that visit no node twice, and their lengths.
Itineraries == UNION {SetToSeqs(S) : S \in (SUBSET Nodes) \ {{}}}

SimplePaths(n, m) ==
    {p \in Itineraries :
        /\ p[1] = n /\ Last(p) = m
        /\ \A i \in 1 .. Len(p) - 1 : <<p[i], p[i + 1]>> \in edges}

Distances(n, m) == {LengthOf(p) : p \in SimplePaths(n, m)}

\* Types; previous leads to settled nodes only, and no node is counted twice
\* in nodesExplored.
SearchTypeOK ==
    /\ GraphTypeOK
    /\ query \in Queries \cup {NoQuery}
    /\ DOMAIN distances \subseteq Nodes /\ \A n \in DOMAIN distances : distances[n] \in Nat
    /\ DOMAIN previous \subseteq DOMAIN distances \ {query.start}
    /\ \A n \in DOMAIN previous : previous[n] \in settled
    /\ settled \subseteq DOMAIN distances
    /\ rest \subseteq Nodes
    /\ nodesExplored = Cardinality(settled)
    /\ search \in {"idle", "running", "found", "none"}

\* Whatever was improved, pushed twice and skipped: the path returned runs
\* from the start to the goal along edges, is as long as the distance returned
\* with it, and no path is shorter; none is returned only if there is none.
Shortest ==
    /\ Found => /\ PathTo(query.goal) \in SimplePaths(query.start, query.goal)
                /\ LengthOf(PathTo(query.goal)) = current.distanceM
                /\ \A d \in Distances(query.start, query.goal) : current.distanceM <= d
    /\ search = "none" /\ {query.start, query.goal} \subseteq Nodes =>
          Distances(query.start, query.goal) = {}

\* A* looks at no node that every path to the goal would be a detour through,
\* and settles a node at its final distance.
OnlyPromising ==
    Found =>
        \A n \in settled :
            /\ \A d \in Distances(query.start, n) : distances[n] <= d
            /\ distances[n] + query.air[n] <= current.distanceM

\* The queue hands out the smallest priority, and no position breaks the heap.
QueueIsOrdered == HeapOrdered(queue)

\* Snapping chooses routable nodes (findNearestNode with isRoutableNode):
\* between two of them a route is always found.
RoutablePairsHaveRoutes ==
    Ended /\ query.start \in largest /\ query.goal \in largest => Found
=============================================================================
