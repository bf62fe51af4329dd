--------------------------- MODULE MCRouteRequests ---------------------------
EXTENDS RouteRequests

Request(kind, points, background) ==
    [kind |-> kind, points |-> points, background |-> background]
Optimize(points) == Request("optimize", points, FALSE)
PointToPoint(from, to) == Request("point-to-point", <<from, to>>, FALSE)

Road(from, to, distanceM) == [from |-> from, to |-> to, distanceM |-> distanceM]
TwoWay(from, to, distanceM) == {Road(from, to, distanceM), Road(to, from, distanceM)}

\* Ways to join an origin and three stops by roads of length 1 to 3 that need
\* not be the same in both directions; the stops are numbered by their distance
\* from the origin, and the last one is not next to it.
Pairs == {ij \in (1 .. 4) \X (2 .. 4) : ij[1] # ij[2]}
Lengths == {d \in [Pairs -> 1 .. 3] :
               /\ \A n \in 2 .. 4 : d[1, n] # 3 /\ (n # 2 => d[2, n] # 2)
               /\ \A ij \in Pairs : ij[1] > 2 => d[ij] # 3
               /\ d[1, 2] <= d[1, 3] /\ d[1, 4] = 2}
Tours3 ==
    {[tables |-> [nodes |-> [n \in 1 .. 4 |-> 10 * n],
                  edges |-> {Road(ij[1], ij[2], d[ij]) : ij \in Pairs}
                            \cup {Road(n, 1, 2) : n \in 2 .. 4}],
      extracts |-> {},
      requests |-> {Optimize(<<10, 20, 30, 40>>)}] : d \in Lengths}

\* A street with a side street that leads nowhere.
Street == [nodes |-> [n \in 1 .. 4 |-> 10 * n],
           edges |-> TwoWay(1, 2, 10) \cup TwoWay(2, 3, 10) \cup {Road(3, 4, 10)}]

Node(id, at) == [type |-> "node", id |-> id, at |-> at]
Way(refs, tags) == [type |-> "way", refs |-> refs, tags |-> tags]

\* Node 3 has gone, 4 and 5 lie in a one-way street, 6 is in no way, 7 in no
\* node; a footpath, a closed road and a way of one node give no edge.
Survey ==
    << <<Node(1, 10), Node(2, 14), Node(6, 18)>>,
       <<Node(4, 24), Node(5, 28), Node(2, 20),
         Way(<<1, 2, 7>>, [highway |-> "residential"]),
         Way(<<5, 4, 2>>, [highway |-> "service", oneway |-> "-1"])>>,
       <<Way(<<1, 6>>, [highway |-> "footway"]),
         Way(<<2, 6>>, [highway |-> "primary", access |-> "private"]),
         Way(<<6>>, [highway |-> "primary"])>> >>

\* A roundabout, and elements of it twice.
Roundabout ==
    << <<Way(<<1, 2, 3, 1>>, [highway |-> "primary", junction |-> "roundabout"]),
         Node(1, 10), Node(2, 30), Node(3, 20), Node(1, 12)>> >>

City(before, files, calls) ==
    [tables |-> before, extracts |-> files, requests |-> calls]

Changing ==
    {City(Street, {Survey}, {Optimize(<<10, 21, 30>>)}),
     City(Street, {Survey}, {PointToPoint(10, 30), PointToPoint(12, 99)}),
     City(Street, {Roundabout}, {PointToPoint(11, 21), PointToPoint(12, 22)}),
     City(NoRows, {Roundabout}, {Optimize(<<10, 30, 30>>)})}

Queued ==
    {City(Street, {}, {Optimize(<<10, 20, 20, 30, 40>>),
                       Request("optimize", <<10, 20, 30>>, TRUE)})}

MCSituations == Tours3 \cup Changing \cup Queued
MCExtracts == {Survey, Roundabout}
=============================================================================
