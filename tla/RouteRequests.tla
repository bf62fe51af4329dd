--------------------------- MODULE RouteRequests ---------------------------
(***************************************************************************)
(* POST /api/routes/point-to-point and /api/routes/optimize as they are    *)
(* served synchronously (backend/src/routes/routes.ts): route cache, snap  *)
(* of every coordinate, computation, route cache.  The API process has     *)
(* loaded its road graph at startup (graph/road-graph.ts) and snaps        *)
(* against the tables as they are now (db/nearest-node.ts), while an       *)
(* ingestion may replace them at any moment.                               *)
(*                                                                         *)
(* An action is the code between two awaits; the computation itself is a   *)
(* sequence of steps of RouteOptimizer, during which no other request is   *)
(* served.  One request is in hand at a time: requests share nothing but   *)
(* the cache, whose entries stay from one to the next.  The worker runs    *)
(* the same steps with a graph of its own.                                 *)
(***************************************************************************)
EXTENDS RouteOptimizer, OsmIngestion

CONSTANTS
    Situations,         \* [tables, extracts, requests]: a database, and what may come
    SyncStopLimit,      \* SYNC_STOP_LIMIT
    SnapRadius,         \* SNAP_RADIUS_M
    CandidateLimit,     \* DEFAULT_CANDIDATE_LIMIT
    Precision           \* coordinates that round to the same multiple share a cache key

ASSUME RequestsAssumption ==
    /\ SnapRadius \in Nat /\ CandidateLimit \in Nat
    /\ NoRoute \notin [distanceM : Nat, path : Seq(Nat)]
    /\ \A s \in Situations :
          /\ s.tables = [nodes |-> s.tables.nodes, edges |-> s.tables.edges]
          /\ Located(s.tables.nodes) /\ Measured(s.tables.edges)
          /\ s.extracts \subseteq Extracts
          /\ \A r \in s.requests : /\ r.kind \in {"point-to-point", "optimize"}
                                   /\ IsList(r.points) /\ ToSet(r.points) \subseteq Int
                                   /\ Len(r.points) >= 2
                                   /\ r.kind = "point-to-point" => Len(r.points) = 2

VARIABLES
    situation,          \* the situation, fixed at the start
    server,             \* "loadNodes", "loadEdges" or "up"
    graph,              \* activeRoadGraph: [nodes, edges, routable]
    handler,            \* where the request in hand is
    request,            \* [kind, points, background]; the first point is the origin
    snapped,            \* the nodes found for its points so far
    reply,              \* the response computed for it: [order, path, distanceM]
    answer,             \* what the last request was answered
    cache               \* route cache: cache[key] is a reply

requestVars == <<situation, server, graph, handler, request, snapped, reply, answer, cache>>
vars == <<requestVars, optimizerVars, ingestionVars>>

NoGraph == [nodes |-> {}, edges |-> {}, routable |-> {}]
NoRequest == [kind |-> "none", points |-> <<>>, background |-> FALSE]
NoReply == [order |-> <<>>, path |-> <<>>, distanceM |-> 0]

Init ==
    /\ situation \in Situations
    /\ OptimizerInit
    /\ IngestionInit(situation.tables)
    /\ server = "loadNodes"
    /\ graph = NoGraph
    /\ handler = "idle" /\ request = NoRequest
    /\ snapped = <<>> /\ reply = NoReply
    /\ answer = "none"
    /\ cache = <<>>

-----------------------------------------------------------------------------
(* The graph of the process                                                *)

Wider(g, near) == near \cup UNION {{e.to : e \in {e \in g.edges : e.from = n}} : n \in near}

ReachableFrom(g, n) ==
    LET within[k \in 0 .. Cardinality(g.nodes)] ==
            IF k = 0 THEN {n} ELSE Wider(g, within[k - 1])
    IN within[Cardinality(g.nodes)]

LargestComponents(g) ==
    LET reachable == [n \in g.nodes |-> ReachableFrom(g, n)]
        all == {{}} \cup {{m \in g.nodes : m \in reachable[n] /\ n \in reachable[m]} : n \in g.nodes}
    IN {c \in all : \A d \in all : Cardinality(d) <= Cardinality(c)}

\* loadRoadGraph: two statements, each of which sees the tables of its moment.
LoadNodes ==
    /\ server = "loadNodes" /\ ~ Locked
    /\ graph' = [NoGraph EXCEPT !.nodes = DOMAIN tables.nodes]
    /\ server' = "loadEdges"
    /\ UNCHANGED <<situation, handler, request, snapped, reply, answer, cache,
                   optimizerVars, ingestionVars>>

\* The constructor skips edges with an end it does not know.
LoadEdges ==
    LET known == {e \in tables.edges : {e.from, e.to} \subseteq graph.nodes}
        loaded == [graph EXCEPT !.edges = known]
    IN
    /\ server = "loadEdges" /\ ~ Locked
    /\ \E routable \in LargestComponents(loaded) : graph' = [loaded EXCEPT !.routable = routable]
    /\ server' = "up"
    /\ UNCHANGED <<situation, handler, request, snapped, reply, answer, cache,
                   optimizerVars, ingestionVars>>

\* The process dies, and the request in hand with it.
Restart ==
    /\ server = "up"
    /\ server' = "loadNodes" /\ graph' = NoGraph
    /\ handler' = "idle" /\ request' = NoRequest
    /\ snapped' = <<>> /\ reply' = NoReply /\ answer' = "none"
    /\ stage' = "idle" /\ stopCount' = 0 /\ legs' = <<>> /\ order' = <<>> /\ best' = 0
    /\ start' = 1 /\ end' = 2 /\ improved' = FALSE /\ expired' = FALSE
    /\ UNCHANGED <<situation, cache, ingestionVars>>

-----------------------------------------------------------------------------
(* Snapping                                                                *)

Gap(p, q) == IF p > q THEN p - q ELSE q - p

AnyNode(n) == TRUE
IsRoutableNode(n) == n \in graph.routable

Within(point) == {n \in DOMAIN tables.nodes : Gap(tables.nodes[n], point) <= SnapRadius}

\* The rows within the radius, or as many of them as LIMIT allows.
RowsUnordered(point) ==
    {rows \in SUBSET Within(point) : \/ rows = Within(point) /\ Cardinality(rows) <= CandidateLimit
                                     \/ Cardinality(rows) = CandidateLimit}

\* What the query may return: no row that is left out is nearer than one of
\* them, but between rows at one distance the query decides nothing.
RowsFound(point) ==
    {rows \in RowsUnordered(point) :
        \A n \in rows, m \in Within(point) \ rows :
            Gap(tables.nodes[n], point) <= Gap(tables.nodes[m], point)}

\* findNearestNode: the accepted rows that no other one is nearer than.
NearestNodes(rows, point) ==
    LET accepted == {n \in rows : IsRoutableNode(n)}
        distance(n) == Gap(tables.nodes[n], point)
    IN {n \in accepted : \A m \in accepted : distance(n) <= distance(m)}

-----------------------------------------------------------------------------
(* What a search finds on the graph of the process (ShortestPath)          *)

DistanceM(g, from, to) == Min({e.distanceM : e \in {e \in g.edges : e.from = from /\ e.to = to}})

Joined(g, path) ==
    \A k \in 1 .. Len(path) - 1 : \E e \in g.edges : e.from = path[k] /\ e.to = path[k + 1]

PathLength(g, path) ==
    LET sum[k \in 0 .. Len(path) - 1] ==
            IF k = 0 THEN 0 ELSE sum[k - 1] + DistanceM(g, path[k], path[k + 1])
    IN sum[Len(path) - 1]

FindShortestPath(g, from, to) ==
    LET middles == UNION {SetToSeqs(S) : S \in SUBSET (g.nodes \ {from, to})}
        paths == IF from = to THEN {<<from>>}
                 ELSE {p \in {<<from>> \o m \o <<to>> : m \in middles} : Joined(g, p)}
        legsFound == {[distanceM |-> PathLength(g, p), path |-> p] : p \in paths}
    IN IF ~ {from, to} \subseteq g.nodes \/ paths = {} THEN NoRoute
       ELSE CHOOSE leg \in legsFound : \A other \in legsFound : leg.distanceM <= other.distanceM

-----------------------------------------------------------------------------
(* The request in hand                                                     *)

StopsOf(r) == Len(r.points) - 1

Rounded(point) == (point + Precision \div 2) \div Precision

\* createRouteCacheKey: rounded coordinates, their order kept.
Key(r) == [kind |-> r.kind, points |-> [k \in DOMAIN r.points |-> Rounded(r.points[k])]]

HandlerUnchanged == UNCHANGED <<situation, server, graph, optimizerVars, ingestionVars>>

AnswerWith(what) ==
    /\ answer' = what
    /\ handler' = "idle" /\ request' = NoRequest
    /\ snapped' = <<>> /\ reply' = NoReply

\* The schema has been checked: a route has one destination, an optimization
\* between MinStops and MaxStops stops.
ReceiveRequest(r) ==
    /\ server = "up" /\ handler = "idle"
    /\ handler' = "lookup" /\ request' = r
    /\ snapped' = <<>> /\ answer' = "none"
    /\ UNCHANGED <<reply, cache>> /\ HandlerUnchanged

AnswerFromCache ==
    /\ handler = "lookup"
    /\ Key(request) \in DOMAIN cache
    /\ AnswerWith("cached")
    /\ UNCHANGED cache /\ HandlerUnchanged

\* No entry, or Redis does not answer, or the entry has expired.  A job is
\* handed to the queue (OptimizationJobs).
MissCache ==
    /\ handler = "lookup"
    /\ IF request.kind = "optimize" /\ (request.background \/ StopsOf(request) > SyncStopLimit)
       THEN AnswerWith("queued")
       ELSE /\ handler' = "snap"
            /\ snapped' = [k \in DOMAIN request.points |-> 0]
            /\ UNCHANGED <<request, reply, answer>>
    /\ UNCHANGED cache /\ HandlerUnchanged

\* The queries of Promise.all are answered in any order.
SnapPoint(k) ==
    /\ handler = "snap" /\ ~ Locked
    /\ snapped[k] = 0
    /\ \E rows \in RowsFound(request.points[k]) :
          LET found == NearestNodes(rows, request.points[k]) IN
          IF found = {} THEN AnswerWith("SNAP_RADIUS_EXCEEDED")
          ELSE /\ \E n \in found : snapped' = [snapped EXCEPT ![k] = n]
               /\ UNCHANGED <<handler, request, reply, answer>>
    /\ UNCHANGED cache /\ HandlerUnchanged

\* The database refuses one of them, or the connection to it breaks.
SnapRefused ==
    /\ handler = "snap" /\ \E k \in DOMAIN snapped : snapped[k] = 0
    /\ AnswerWith("INTERNAL_ERROR")
    /\ UNCHANGED cache /\ HandlerUnchanged

Snapped == handler = "snap" /\ \A k \in DOMAIN snapped : snapped[k] # 0

FindRoute ==
    LET leg == FindShortestPath(graph, snapped[1], snapped[2]) IN
    /\ Snapped /\ request.kind = "point-to-point"
    /\ IF leg = NoRoute THEN AnswerWith("ROUTE_NOT_FOUND")
       ELSE /\ reply' = [order |-> <<1>>, path |-> leg.path, distanceM |-> leg.distanceM]
            /\ handler' = "store"
            /\ UNCHANGED <<request, snapped, answer>>
    /\ UNCHANGED cache /\ HandlerUnchanged

CallOptimizer ==
    /\ Snapped /\ request.kind = "optimize"
    /\ Begin(StopsOf(request),
             [ij \in (0 .. StopsOf(request)) \X (1 .. StopsOf(request)) |->
                 FindShortestPath(graph, snapped[ij[1] + 1], snapped[ij[2] + 1])])
    /\ handler' = "optimize"
    /\ UNCHANGED <<situation, server, graph, request, snapped, reply, answer, cache, ingestionVars>>

RunOptimizer ==
    /\ handler = "optimize"
    /\ OptimizerStep
    /\ UNCHANGED <<requestVars, ingestionVars>>

TakeResult ==
    /\ handler = "optimize"
    /\ Return
    /\ CASE stage = "done" ->
              /\ reply' = [order |-> order, path |-> TourPath(order), distanceM |-> TourLength(order)]
              /\ handler' = "store"
              /\ UNCHANGED <<request, snapped, answer>>
         [] stage = "thrown" -> AnswerWith("ROUTE_NOT_FOUND")
         [] stage = "rejected" -> AnswerWith("STOP_LIMIT_OUT_OF_RANGE")
    /\ UNCHANGED <<situation, server, graph, cache, ingestionVars>>

\* The response is stored, unless Redis does not answer, and sent.
StoreAndAnswer ==
    /\ handler = "store"
    /\ cache' \in {cache, Key(request) :> reply @@ cache}
    /\ AnswerWith("ok")
    /\ HandlerUnchanged

HandlerStep ==
    \/ AnswerFromCache
    \/ MissCache
    \/ \E k \in DOMAIN snapped : SnapPoint(k)
    \/ FindRoute
    \/ CallOptimizer
    \/ RunOptimizer
    \/ TakeResult
    \/ StoreAndAnswer

Clock == DeadlinePasses /\ UNCHANGED <<requestVars, ingestionVars>>

Ingest ==
    /\ \/ \E file \in situation.extracts : StartIngestion(file)
       \/ IngestionStep
       \/ IngestionFault
    /\ UNCHANGED <<requestVars, optimizerVars>>

Next ==
    \/ LoadNodes
    \/ LoadEdges
    \/ Restart
    \/ \E r \in situation.requests : ReceiveRequest(r)
    \/ HandlerStep
    \/ SnapRefused
    \/ Clock
    \/ Ingest

Spec == Init /\ [][Next]_vars

\* The handler and the script go on with what is ready; the clock need not
\* strike, nothing has to fail and nobody has to start anything.
FairSpec ==
    /\ Spec
    /\ WF_vars(HandlerStep)
    /\ WF_vars(LoadNodes \/ LoadEdges)
    /\ WF_vars(IngestionStep /\ UNCHANGED <<requestVars, optimizerVars>>)

-----------------------------------------------------------------------------
RequestsTypeOK ==
    /\ OptimizerTypeOK
    /\ server \in {"loadNodes", "loadEdges", "up"}
    /\ graph.routable \subseteq graph.nodes
    /\ \A e \in graph.edges : {e.from, e.to} \subseteq graph.nodes
    /\ handler \in {"idle", "lookup", "snap", "optimize", "store"}
    /\ handler = "idle" <=> request = NoRequest
    /\ handler = "optimize" <=> stage # "idle"
    /\ \A k \in DOMAIN snapped : snapped[k] = 0 \/ snapped[k] \in graph.routable

\* Snapping looks into tables that may be newer than the graph, or than a
\* part of it: still no request gets as far as a search between two nodes
\* without a route, and no tour is given up for a leg that is missing.
SnappedPointsHaveRoutes == answer # "ROUTE_NOT_FOUND" /\ stage # "thrown"

\* The nodes stops lie on path, each at or after the one before it.
PassesInOrder(path, stops) ==
    \E at \in [DOMAIN stops -> DOMAIN path] :
        \A k \in DOMAIN stops : path[at[k]] = stops[k] /\ (k > 1 => at[k - 1] <= at[k])

\* The path of a response can be driven on the graph of the process, passes
\* the snapped stops in the order that it announces
\* and is as long as the response says: no corner is repeated where two legs meet.
RouteIsDrivable ==
    handler = "store" =>
        LET path == reply.path
            stops == [k \in DOMAIN reply.order |-> snapped[reply.order[k] + 1]]
        IN  /\ path[1] = snapped[1] /\ Last(path) = Last(stops)
            /\ Joined(graph, path) /\ PathLength(graph, path) = reply.distanceM
            /\ PassesInOrder(path, stops)

\* A point is rejected only if no routable node is within the radius, or if
\* unroutable nodes fill the list of candidates; otherwise no routable node
\* is nearer than the one that is taken.
SnapsToNearestRoad ==
    [][\A k \in DOMAIN snapped :
        LET near(d) == {n \in DOMAIN tables.nodes :
                            Gap(tables.nodes[n], request.points[k]) <= d}
            taken == snapped'[k]
        IN /\ handler' = "snap" /\ snapped[k] = 0 /\ taken # 0 =>
                \A n \in near(Gap(tables.nodes[taken], request.points[k]) - 1) :
                    n \notin graph.routable
           /\ answer' = "SNAP_RADIUS_EXCEEDED" /\ SnapPoint(k) =>
                \/ near(SnapRadius) \cap graph.routable = {}
                \/ Cardinality(near(SnapRadius) \ graph.routable) >= CandidateLimit]_vars

ReplacementIsAtomic == ReplacesAllOrNothing(situation.tables)

\* A request is answered unless its process dies, although the deadline may
\* never pass and the tables are locked for a while.
RequestsAreAnswered == handler = "lookup" ~> handler = "idle"
=============================================================================
