--------------------------- MODULE MCShortestPath ---------------------------
EXTENDS ShortestPath

MCNodes == 1 .. 4
Start == 1
Goal == 4

Least(a, b) == IF a < b THEN a ELSE b
Gap(a, b) == IF a < b THEN b - a ELSE a - b

\* Edges from node i to node j.  Curved: a detour over the nodes between is
\* shorter than the direct edge.  Straight: it is as long.  Equal: it is
\* longer, there are many ties, and nodes 2 and 3 are in the same place.
Lengths == {[e \in Nodes \X Nodes |-> IF e[1] < e[2] THEN Gap(e[1], e[2]) * Gap(e[1], e[2])
                                                    ELSE 2 * Gap(e[1], e[2])],
            [e \in Nodes \X Nodes |-> Gap(e[1], e[2])],
            [e \in Nodes \X Nodes |-> IF {e[1], e[2]} = {2, 3} THEN 0 ELSE 1]}

Dijkstra == [n \in Nodes |-> 0]
AStar(length) == [n \in Nodes |-> IF n = Goal THEN 0 ELSE Least(length[n, Goal], Gap(n, Goal))]

Query(start, goal, length, air) ==
    [start |-> start, goal |-> goal, length |-> length, air |-> air]

MCQueries ==
    {Query(Start, Goal, length, Dijkstra) : length \in Lengths}
    \cup {Query(Start, Goal, length, AStar(length)) : length \in Lengths}
    \cup {Query(Start, n, CHOOSE length \in Lengths : TRUE, Dijkstra) : n \in {Start, NoNode}}
=============================================================================
