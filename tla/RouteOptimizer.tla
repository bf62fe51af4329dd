--------------------------- MODULE RouteOptimizer ---------------------------
(***************************************************************************)
(* optimizeMultiStopRoute (backend/src/algorithms/route-optimizer.ts): a   *)
(* nearest neighbour tour from the origin through all stops, improved by   *)
(* 2-opt until a pass finds nothing or the deadline has passed.            *)
(*                                                                         *)
(* Stops are numbered from 1 and 0 is the origin (0 and ORIGIN_INDEX = -1  *)
(* in the code).  An action is one iteration of a loop; only the clock     *)
(* interferes, between any two readings of performance.now().  The cache   *)
(* of pairs spares repeated searches and is left out: what a search finds  *)
(* depends on its two nodes only.  Distances need not be symmetric.        *)
(***************************************************************************)
EXTENDS Integers, Sequences

CONSTANTS
    MinStops, MaxStops,     \* MIN_STOPS and MAX_STOPS
    NoRoute                 \* a search that found nothing

ASSUME StopLimits == MinStops \in Nat \ {0, 1} /\ MaxStops \in Nat

VARIABLES
    stage,              \* where the call is, "idle" between two calls
    stopCount,
    legs,               \* legs[i, j]: the path from i to j, [distanceM, path] or NoRoute
    order,              \* the tour being built, then bestOrder
    best,               \* bestDistanceM
    start, end,         \* the two loop variables of a 2-opt pass
    improved,
    expired             \* the deadline has passed

optimizerVars == <<stage, stopCount, legs, order, best, start, end, improved, expired>>

Stages == {"idle", "naive", "nearest", "pass", "try", "done", "rejected", "thrown"}

OptimizerInit ==
    /\ stage = "idle" /\ stopCount = 0 /\ legs = <<>>
    /\ order = <<>> /\ best = 0
    /\ start = 1 /\ end = 2
    /\ improved = FALSE /\ expired = FALSE

-----------------------------------------------------------------------------
\* The leg that ends at the k-th stop of a tour.
LegAt(tour, k) == <<IF k = 1 THEN 0 ELSE tour[k - 1], tour[k]>>

\* getPairwiseRoute throws at the first leg that has no route.
Drivable(tour) == \A k \in DOMAIN tour : legs[LegAt(tour, k)] # NoRoute

\* routeDistanceM: an open path, there is no way back to the origin.
TourLength(tour) ==
    LET sum[k \in 0 .. Len(tour)] ==
            IF k = 0 THEN 0 ELSE sum[k - 1] + legs[LegAt(tour, k)].distanceM
    IN sum[Len(tour)]

TourPathRepeating(tour) ==
    LET path[k \in 0 .. Len(tour)] ==
            IF k = 0 THEN <<>> ELSE path[k - 1] \o legs[LegAt(tour, k)].path
    IN path[Len(tour)]

\* routePath: a leg begins where the one before it has ended.
TourPath(tour) ==
    LET path[k \in 0 .. Len(tour)] ==
            IF k = 0 THEN <<>>
            ELSE LET leg == legs[LegAt(tour, k)].path
                     sofar == path[k - 1]
                 IN sofar \o (IF sofar = <<>> THEN leg ELSE Tail(leg))
    IN path[Len(tour)]

InputOrder == [k \in 1 .. stopCount |-> k]

\* A call for count stops, where found[i, j] is what a search returns.
Begin(count, found) ==
    /\ stage = "idle"
    /\ stage' = IF MinStops <= count /\ count <= MaxStops THEN "naive" ELSE "rejected"
    /\ stopCount' = count
    /\ legs' = found
    /\ order' = <<>>
    /\ UNCHANGED <<best, start, end, improved, expired>>

\* The route in input order comes first, for comparison.
MeasureInputOrder ==
    /\ stage = "naive"
    /\ stage' = IF Drivable(InputOrder) THEN "nearest" ELSE "thrown"
    /\ UNCHANGED <<stopCount, legs, order, best, start, end, improved, expired>>

-----------------------------------------------------------------------------
(* buildNearestNeighborOrder                                               *)

Unvisited == (1 .. stopCount) \ {order[k] : k \in DOMAIN order}

LegTo(i) == LegAt(Append(order, i), Len(order) + 1)

\* Nothing unvisited is nearer, and nothing as near has a smaller index.
IsNearest(i) ==
    \A j \in Unvisited \ {i} :
        LET here == legs[LegTo(i)].distanceM
            there == legs[LegTo(j)].distanceM
        IN here < there \/ (here = there /\ i < j)

\* Every candidate is measured, so one that cannot be reached ends the call.
VisitNearest ==
    /\ stage = "nearest" /\ Unvisited # {}
    /\ IF \A j \in Unvisited : legs[LegTo(j)] # NoRoute
       THEN UNCHANGED stage /\ \E i \in Unvisited : IsNearest(i) /\ order' = Append(order, i)
       ELSE stage' = "thrown" /\ UNCHANGED order
    /\ UNCHANGED <<stopCount, legs, best, start, end, improved, expired>>

-----------------------------------------------------------------------------
(* improveWithTwoOpt                                                       *)

BeginTwoOpt ==
    /\ stage = "nearest" /\ Unvisited = {}
    /\ stage' = "pass"
    /\ best' = TourLength(order)
    /\ improved' = TRUE
    /\ expired' = FALSE
    /\ UNCHANGED <<stopCount, legs, order, start, end>>

BeginPass ==
    /\ stage = "pass" /\ improved /\ ~ expired
    /\ stage' = "try"
    /\ improved' = FALSE
    /\ start' = 1 /\ end' = 2
    /\ UNCHANGED <<stopCount, legs, order, best, expired>>

TwoOptSwapShifted(tour, i, j) ==
    [k \in DOMAIN tour |-> IF k \in i + 1 .. j THEN tour[i + j - k] ELSE tour[k]]

\* The stops at positions i .. j in reverse.
TwoOptSwap(tour, i, j) ==
    [k \in DOMAIN tour |-> IF k \in i .. j THEN tour[i + j - k] ELSE tour[k]]

IsShorterOrEqual(length) == length <= best
IsShorter(length) == length < best

\* The two for loops: the next pair of positions, or the end of the pass.
NextPair ==
    \/ end < stopCount /\ end' = end + 1 /\ UNCHANGED <<stage, start>>
    \/ end = stopCount /\ start < stopCount - 1
       /\ start' = start + 1 /\ end' = start + 2 /\ UNCHANGED stage
    \/ end = stopCount /\ start = stopCount - 1
       /\ stage' = "pass" /\ UNCHANGED <<start, end>>

ForgetImprovement(candidate, length) ==
    IF IsShorter(length)
    THEN order' = candidate /\ best' = length /\ improved' = TRUE
    ELSE improved' = FALSE /\ UNCHANGED <<order, best>>

\* A better candidate replaces the best order in mid-pass.
Keep(candidate, length) ==
    IF IsShorter(length)
    THEN order' = candidate /\ best' = length /\ improved' = TRUE
    ELSE UNCHANGED <<order, best, improved>>

\* Measure a candidate, which may need a leg that no tour has used before.
TryCandidate ==
    LET candidate == TwoOptSwap(order, start, end) IN
    /\ stage = "try" /\ ~ expired
    /\ IF Drivable(candidate)
       THEN Keep(candidate, TourLength(candidate)) /\ NextPair
       ELSE stage' = "thrown" /\ UNCHANGED <<order, best, improved, start, end>>
    /\ UNCHANGED <<stopCount, legs, expired>>

StopAtDeadline ==
    /\ stage = "try" /\ expired
    /\ stage' = "done"
    /\ UNCHANGED <<stopCount, legs, order, best, start, end, improved, expired>>

EndTwoOpt ==
    /\ stage = "pass" /\ (~ improved \/ expired)
    /\ stage' = "done"
    /\ UNCHANGED <<stopCount, legs, order, best, start, end, improved, expired>>

\* The time budget runs out; other processes may take all of it.
DeadlinePasses ==
    /\ stage \in {"pass", "try"} /\ ~ expired
    /\ expired' = TRUE
    /\ UNCHANGED <<stage, stopCount, legs, order, best, start, end, improved>>

\* The caller takes the result and forgets the call.
Return ==
    /\ stage \in {"done", "rejected", "thrown"}
    /\ stage' = "idle"
    /\ UNCHANGED <<stopCount, legs, order, best, start, end, improved, expired>>

\* One step of the call itself, between its beginning and its return.
OptimizerStep ==
    \/ MeasureInputOrder
    \/ VisitNearest
    \/ BeginTwoOpt
    \/ BeginPass
    \/ TryCandidate
    \/ StopAtDeadline
    \/ EndTwoOpt

OptimizerNext ==
    \/ \E count \in Nat : \E found : Begin(count, found)
    \/ OptimizerStep
    \/ DeadlinePasses
    \/ Return

OptimizerSpec == OptimizerInit /\ [][OptimizerNext]_optimizerVars

-----------------------------------------------------------------------------
\* There is a complete tour.
HasTour == stage \in {"pass", "try", "done"}

\* The order is built without a stop twice and 2-opt stays within its bounds.
OptimizerTypeOK ==
    /\ stage \in Stages
    /\ stopCount \in Nat
    /\ order \in Seq(1 .. stopCount)
    /\ HasTour => Len(order) = stopCount
    /\ stage = "try" => /\ start \in 1 .. stopCount - 1
                        /\ end \in start + 1 .. stopCount
    /\ improved \in BOOLEAN /\ expired \in BOOLEAN

\* Whenever the deadline strikes, every stop is in the order once, and the
\* order has only ever been replaced by a shorter one since the tour of the
\* nearest neighbours.
Tour == INSTANCE TourImprovement
    WITH status <- IF stage = "done" THEN "closed" ELSE IF HasTour THEN "open" ELSE "none",
         stopCount <- stopCount,
         tour <- order,
         length <- best

TourSpec == Tour!Spec

\* Without the deadline the order is a local optimum although improvements
\* are taken in mid-pass: no reversal of a part of it is shorter.
NoImprovingSwapLeft ==
    stage = "done" /\ ~ expired =>
        \A i, j \in 1 .. stopCount :
            i < j => TourLength(order) <= TourLength(TwoOptSwap(order, i, j))
=============================================================================
