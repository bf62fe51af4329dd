------------------------- MODULE RouteRequestsProofs -------------------------
(***************************************************************************)
(* Proofs about RouteOptimizer, for every number of stops, all distances   *)
(* and every moment at which the deadline may strike; then about           *)
(* RouteRequests, for all road networks, extracts and requests, any radius *)
(* and any limit of candidates, and whatever an ingestion and restarts do  *)
(* meanwhile: the tables of roads, snapping, the legs that a search finds, *)
(* the tours that are made of them, and the replacement of the tables.     *)
(***************************************************************************)
EXTENDS RouteRequests, FiniteSetTheorems, FiniteRecursion

-----------------------------------------------------------------------------
(* The optimizer                                                           *)

NoStopTwice(t) == \A j, k \in DOMAIN t : t[j] = t[k] => j = k

OptimizerInv ==
    /\ OptimizerTypeOK
    /\ NoStopTwice(order)
    /\ stage \in {"naive", "nearest"} \/ HasTour => stopCount >= 2

\* A complete order is a tour.
LEMMA CompleteOrderIsTour ==
    ASSUME NEW n \in Nat, NEW t \in Seq(1 .. n), Len(t) = n, NoStopTwice(t)
    PROVE  t \in Tour!Tours(n)
  BY DEF NoStopTwice, Tour!Tours

\* An order without a stop twice that has visited all n stops has length n.
LEMMA AllVisited ==
    ASSUME NEW n \in Nat, NEW t \in Seq(1 .. n), NoStopTwice(t),
           \A i \in 1 .. n : \E k \in DOMAIN t : t[k] = i
    PROVE  Len(t) = n
<1>1. Len(t) \in Nat /\ DOMAIN t = 1 .. Len(t) /\ t \in [1 .. Len(t) -> 1 .. n]
  OBVIOUS
<1>2. t \in Bijection(1 .. Len(t), 1 .. n)
  BY <1>1 DEF NoStopTwice, Bijection, Injection, Surjection, IsInjective
<1>3. Cardinality(1 .. Len(t)) = Cardinality(1 .. n)
  <2>1. IsFiniteSet(1 .. Len(t)) /\ IsFiniteSet(1 .. n)
    BY <1>1, FS_Interval
  <2> QED
    BY <1>2, <2>1, FS_Bijection DEF ExistsBijection
<1>4. Cardinality(1 .. Len(t)) = Len(t) /\ Cardinality(1 .. n) = n
  <2>1. \A m \in Nat : Cardinality(1 .. m) = IF 1 > m THEN 0 ELSE m - 1 + 1
    BY FS_Interval
  <2>2. \A m \in Nat : Cardinality(1 .. m) = m
    BY <2>1
  <2> QED
    BY <1>1, <2>2
<1> QED
  BY <1>3, <1>4

\* Reversing a part of a tour gives a tour.
LEMMA SwapKeepsTour ==
    ASSUME NEW n \in Nat, NEW t \in Seq(1 .. n), Len(t) = n, NoStopTwice(t),
           NEW i \in 1 .. n - 1, NEW j \in i + 1 .. n
    PROVE  /\ TwoOptSwap(t, i, j) \in Seq(1 .. n)
           /\ Len(TwoOptSwap(t, i, j)) = n
           /\ NoStopTwice(TwoOptSwap(t, i, j))
<1> DEFINE at(k) == IF k \in i .. j THEN i + j - k ELSE k
           u == TwoOptSwap(t, i, j)
<1>1. /\ \A k \in 1 .. n : at(k) \in 1 .. n
      /\ \A k, l \in 1 .. n : at(k) = at(l) => k = l
  OBVIOUS
<1>2. DOMAIN t = 1 .. n /\ \A k \in 1 .. n : t[k] \in 1 .. n
  OBVIOUS
<1>3. u = [k \in 1 .. n |-> t[at(k)]]
  BY <1>2 DEF TwoOptSwap
<1> HIDE DEF u, at
<1>4. u \in [1 .. n -> 1 .. n]
  BY <1>1, <1>2, <1>3
<1>5. u \in Seq(1 .. n) /\ Len(u) = n /\ DOMAIN u = 1 .. n
  BY <1>4
<1>6. NoStopTwice(u)
  <2>1. ASSUME NEW k \in 1 .. n, NEW l \in 1 .. n, u[k] = u[l] PROVE k = l
    <3>1. t[at(k)] = t[at(l)]
      BY <1>3, <2>1
    <3>2. at(k) = at(l)
      BY <1>1, <1>2, <3>1 DEF NoStopTwice
    <3> QED
      BY <1>1, <3>2
  <2> QED
    BY <1>5, <2>1 DEF NoStopTwice
<1> QED
  BY <1>5, <1>6 DEF u

LEMMA OptimizerInvInit == OptimizerInit => OptimizerInv
<1> SUFFICES ASSUME OptimizerInit PROVE OptimizerInv
  OBVIOUS
<1>1. order = <<>> /\ order \in Seq(1 .. stopCount) /\ NoStopTwice(order)
  BY DEF OptimizerInit, NoStopTwice
<1> QED
  BY <1>1 DEF OptimizerInit, OptimizerInv, OptimizerTypeOK, Stages, HasTour

\* What an iteration of the loops over the pairs does to them.
LEMMA NextPairInBounds ==
    ASSUME OptimizerInv, stage = "try", NextPair
    PROVE  /\ stage' \in {"try", "pass"}
           /\ stage' = "try" => start' \in 1 .. stopCount - 1 /\ end' \in start' + 1 .. stopCount
  BY DEF NextPair, OptimizerInv, OptimizerTypeOK, HasTour

\* A candidate that is kept is a tour as well.
LEMMA KeepKeepsTour ==
    ASSUME OptimizerInv, TryCandidate, stage' # "thrown"
    PROVE  /\ order' \in Seq(1 .. stopCount) /\ Len(order') = stopCount /\ NoStopTwice(order')
           /\ improved' \in BOOLEAN
           /\ \/ order' = order /\ best' = best
              \/ best' < best
           /\ NextPair
<1>1. /\ stopCount \in Nat /\ order \in Seq(1 .. stopCount) /\ Len(order) = stopCount
      /\ start \in 1 .. stopCount - 1 /\ end \in start + 1 .. stopCount
      /\ NoStopTwice(order) /\ improved \in BOOLEAN
  BY DEF TryCandidate, OptimizerInv, OptimizerTypeOK, HasTour
<1> DEFINE candidate == TwoOptSwap(order, start, end)
<1>2. /\ candidate \in Seq(1 .. stopCount) /\ Len(candidate) = stopCount
      /\ NoStopTwice(candidate)
  BY <1>1, SwapKeepsTour
<1>3. Keep(candidate, TourLength(candidate)) /\ NextPair
  BY DEF TryCandidate
<1> HIDE DEF candidate
<1>4. CASE IsShorter(TourLength(candidate))
  BY <1>2, <1>3, <1>4 DEF Keep, IsShorter
<1>5. CASE ~ IsShorter(TourLength(candidate))
  BY <1>1, <1>3, <1>5 DEF Keep
<1> QED
  BY <1>4, <1>5

LEMMA OptimizerInvStep ==
    OptimizerInv /\ [OptimizerNext]_optimizerVars => OptimizerInv'
<1> SUFFICES ASSUME OptimizerInv, [OptimizerNext]_optimizerVars PROVE OptimizerInv'
  OBVIOUS
<1> USE StopLimits
<1>1. ASSUME NEW count \in Nat, NEW found, Begin(count, found) PROVE OptimizerInv'
  BY <1>1 DEF Begin, OptimizerInv, OptimizerTypeOK, Stages, HasTour, NoStopTwice
<1>2. CASE MeasureInputOrder
  BY <1>2 DEF MeasureInputOrder, OptimizerInv, OptimizerTypeOK, Stages, HasTour, NoStopTwice
<1>3. CASE VisitNearest
  <2>1. CASE stage' = "thrown" /\ order' = order
    BY <1>3, <2>1 DEF VisitNearest, OptimizerInv, OptimizerTypeOK, Stages, HasTour, NoStopTwice
  <2>2. ASSUME stage' = stage, NEW i \in Unvisited, order' = Append(order, i)
        PROVE  OptimizerInv'
    <3>1. /\ order \in Seq(1 .. stopCount) /\ stopCount \in Nat /\ i \in 1 .. stopCount
          /\ \A k \in DOMAIN order : order[k] # i
      BY DEF OptimizerInv, OptimizerTypeOK, Unvisited
    <3>2. order' \in Seq(1 .. stopCount) /\ NoStopTwice(order')
      BY <2>2, <3>1 DEF OptimizerInv, NoStopTwice
    <3> QED
      BY <1>3, <2>2, <3>2
         DEF VisitNearest, OptimizerInv, OptimizerTypeOK, Stages, HasTour, NoStopTwice
  <2> QED
    BY <1>3, <2>1, <2>2 DEF VisitNearest
<1>4. CASE BeginTwoOpt
  <2>1. \A i \in 1 .. stopCount : \E k \in DOMAIN order : order[k] = i
    BY <1>4 DEF BeginTwoOpt, Unvisited
  <2>2. Len(order) = stopCount
    BY <2>1, AllVisited DEF OptimizerInv, OptimizerTypeOK
  <2>3. /\ stage = "nearest" /\ stage' = "pass"
        /\ order' = order /\ stopCount' = stopCount
        /\ improved' \in BOOLEAN /\ expired' \in BOOLEAN
    BY <1>4 DEF BeginTwoOpt
  <2> QED
    BY <2>2, <2>3 DEF OptimizerInv, OptimizerTypeOK, Stages, HasTour, NoStopTwice
<1>5. CASE BeginPass
  <2>1. /\ stage = "pass" /\ stage' = "try" /\ stopCount' = stopCount /\ order' = order
        /\ start' = 1 /\ end' = 2
    BY <1>5 DEF BeginPass
  <2>2. improved' \in BOOLEAN /\ expired' \in BOOLEAN
    BY <1>5, Zenon DEF BeginPass, OptimizerInv, OptimizerTypeOK
  <2> QED
    BY <2>1, <2>2 DEF OptimizerInv, OptimizerTypeOK, Stages, HasTour, NoStopTwice
<1>6. CASE TryCandidate
  <2>1. CASE stage' = "thrown"
    <3>1. order' = order /\ improved' = improved
      <4>1. ~ NextPair
        BY <1>6, <2>1, NextPairInBounds DEF TryCandidate
      <4> QED
        BY <1>6, <4>1 DEF TryCandidate
    <3> QED
      BY <1>6, <2>1, <3>1
         DEF TryCandidate, OptimizerInv, OptimizerTypeOK, Stages, HasTour, NoStopTwice
  <2>2. CASE stage' # "thrown"
    BY <1>6, <2>2, KeepKeepsTour, NextPairInBounds
       DEF TryCandidate, OptimizerInv, OptimizerTypeOK, Stages, HasTour, NoStopTwice
  <2> QED
    BY <2>1, <2>2
<1>7. CASE StopAtDeadline
  BY <1>7 DEF StopAtDeadline, OptimizerInv, OptimizerTypeOK, Stages, HasTour, NoStopTwice
<1>8. CASE EndTwoOpt
  BY <1>8 DEF EndTwoOpt, OptimizerInv, OptimizerTypeOK, Stages, HasTour, NoStopTwice
<1>9. CASE DeadlinePasses
  BY <1>9 DEF DeadlinePasses, OptimizerInv, OptimizerTypeOK, Stages, HasTour, NoStopTwice
<1>10. CASE Return
  BY <1>10 DEF Return, OptimizerInv, OptimizerTypeOK, Stages, HasTour, NoStopTwice
<1>11. CASE UNCHANGED optimizerVars
  BY <1>11 DEF optimizerVars, OptimizerInv, OptimizerTypeOK, Stages, HasTour, NoStopTwice
<1> QED
  BY <1>1, <1>2, <1>3, <1>4, <1>5, <1>6, <1>7, <1>8, <1>9, <1>10, <1>11
     DEF OptimizerNext, OptimizerStep

LEMMA OptimizerInvariance == OptimizerSpec => []OptimizerInv
  BY OptimizerInvInit, OptimizerInvStep, PTL DEF OptimizerSpec

\* The order never gets longer than the stops are many and the 2-opt loops
\* stay within it.
THEOREM OptimizerTypeCorrectness == OptimizerSpec => []OptimizerTypeOK
<1>1. OptimizerInv => OptimizerTypeOK
  BY DEF OptimizerInv
<1> QED
  BY <1>1, OptimizerInvariance, PTL

-----------------------------------------------------------------------------
(* The refinement                                                          *)

\* A complete order is a tour before and after a step.
LEMMA OrderIsTour ==
    ASSUME OptimizerInv, HasTour
    PROVE  order \in Tour!Tours(stopCount)
  BY CompleteOrderIsTour DEF OptimizerInv, OptimizerTypeOK

LEMMA ImprovesStep ==
    ASSUME OptimizerInv, OptimizerInv', [OptimizerNext]_optimizerVars
    PROVE  [Tour!Next]_(Tour!tourVars)
<1> DEFINE Status(s) == IF s = "done" THEN "closed"
                        ELSE IF s \in {"pass", "try", "done"} THEN "open" ELSE "none"
<1> USE DEF HasTour
<1>0. HasTour' => order' \in Tour!Tours(stopCount')
  <2>1. ASSUME OptimizerInv', HasTour' PROVE order' \in Tour!Tours(stopCount')
    BY <2>1, CompleteOrderIsTour DEF OptimizerInv, OptimizerTypeOK
  <2> QED
    BY <2>1
<1>1. ASSUME stage' \notin {"pass", "try", "done"} PROVE Tour!Next
  BY <1>1 DEF Tour!Next, Tour!NoTour
<1>2. CASE BeginTwoOpt
  <2>1. order' \in Tour!Tours(stopCount') /\ stopCount' = stopCount /\ order' = order
    BY <1>0, <1>2 DEF BeginTwoOpt
  <2>2. stage = "nearest" /\ stage' = "pass"
    BY <1>2 DEF BeginTwoOpt
  <2> QED
    BY <2>1, <2>2 DEF Tour!Next, Tour!Propose
<1>3. CASE BeginPass
  BY <1>3 DEF BeginPass, Tour!tourVars
<1>4. CASE TryCandidate
  <2>1. CASE stage' = "thrown"
    BY <1>1, <2>1
  <2>2. CASE stage' # "thrown"
    <3>1. /\ stage = "try" /\ stage' \in {"try", "pass"} /\ stopCount' = stopCount
          /\ \/ order' = order /\ best' = best
             \/ best' < best
      BY <1>4, <2>2, KeepKeepsTour, NextPairInBounds DEF TryCandidate
    <3>2. order' \in Tour!Tours(stopCount)
      BY <1>0, <3>1
    <3>3. CASE order' = order /\ best' = best
      BY <3>1, <3>3 DEF Tour!tourVars
    <3>4. CASE best' < best
      BY <3>1, <3>2, <3>4 DEF Tour!Next, Tour!Improve
    <3> QED
      BY <3>1, <3>3, <3>4
  <2> QED
    BY <2>1, <2>2
<1>5. CASE StopAtDeadline
  BY <1>5 DEF StopAtDeadline, Tour!Next, Tour!Close
<1>6. CASE EndTwoOpt
  BY <1>6 DEF EndTwoOpt, Tour!Next, Tour!Close
<1>7. CASE DeadlinePasses
  BY <1>7 DEF DeadlinePasses, Tour!tourVars
<1>8. CASE UNCHANGED optimizerVars
  BY <1>8 DEF optimizerVars, Tour!tourVars
<1>9. ASSUME NEW count \in Nat, NEW found, Begin(count, found) PROVE Tour!Next
  BY <1>1, <1>9 DEF Begin
<1>10. CASE MeasureInputOrder
  BY <1>1, <1>10 DEF MeasureInputOrder
<1>11. CASE VisitNearest
  BY <1>1, <1>11 DEF VisitNearest
<1>12. CASE Return
  BY <1>1, <1>12 DEF Return
<1> QED
  BY <1>2, <1>3, <1>4, <1>5, <1>6, <1>7, <1>8, <1>9, <1>10, <1>11, <1>12
     DEF OptimizerNext, OptimizerStep

\* The optimizer visits every stop exactly once whenever the time runs out,
\* and it only ever replaces its order by a shorter one.
THEOREM ImprovesATour == OptimizerSpec => TourSpec
<1>1. OptimizerInit => Tour!Init
  BY DEF OptimizerInit, Tour!Init, HasTour
<1> QED
  BY <1>1, OptimizerInvariance, ImprovesStep, PTL DEF OptimizerSpec, TourSpec, Tour!Spec

-----------------------------------------------------------------------------
(* Requests                                                                *)

LEMMA GreatestOfInterval ==
    ASSUME NEW n \in Nat, NEW S \in SUBSET (1 .. n), S # {}
    PROVE  Max(S) \in S
<1>1. S \in SUBSET (0 .. n)
  OBVIOUS
<1>2. \E m \in S : \A y \in S : m >= y
  BY <1>1, GreatestBelow
<1> QED
  BY <1>2, Zenon DEF Max

-----------------------------------------------------------------------------
(* The tables hold positions, at every step of an ingestion                *)

Batch == UNION {ToSet(file) : file \in Extracts}

IngestionInv ==
    /\ extract \in Extracts \cup {<<>>} /\ emitted \in Nat
    /\ "batches" \in DOMAIN stream /\ stream.batches \in Seq(Batch)
    /\ Located(resolved)
    /\ "nodes" \in DOMAIN pending /\ Located(pending.nodes)
    /\ "nodes" \in DOMAIN tables /\ Located(tables.nodes)
    /\ "nodes" \in DOMAIN committed /\ Located(committed.nodes)

LEMMA Nowhere == Located(<<>>) /\ "nodes" \in DOMAIN NoRows /\ Located(NoRows.nodes)
  BY FS_EmptySet DEF Located, NoRows

LEMMA BothLocated ==
    ASSUME NEW f, NEW g, Located(f), Located(g)
    PROVE  Located(Over(f, g))
<1>1. DOMAIN (Over(f, g)) = DOMAIN f \cup DOMAIN g
  BY DEF Over
<1>2. IsFiniteSet(DOMAIN f \cup DOMAIN g)
  BY FS_Union DEF Located
<1>3. \A x \in DOMAIN (Over(f, g)) : (Over(f, g))[x] \in Int
  BY DEF Over, Located
<1> QED
  BY <1>1, <1>2, <1>3 DEF Located

LEMMA PartLocated ==
    ASSUME NEW f, Located(f), NEW S \in SUBSET DOMAIN f
    PROVE  Located(Restrict(f, S))
<1>1. IsFiniteSet(S)
  BY FS_Subset DEF Located
<1> QED
  BY <1>1 DEF Located, Restrict

LEMMA FoundNodesLocated ==
    ASSUME NEW items \in Batch
    PROVE  Located(ReferencedNodes(items))
<1>1. items \in Seq(ToSet(items))
      /\ \A i \in ToSet(items) : i.type = "node" => i.id \in Nat /\ i.at \in Int
  BY IngestionAssumption DEF Batch, IsList
<1> DEFINE found == {i \in DOMAIN items : items[i].type = "node" /\ items[i].id \in ReferencedNodeIds}
           ids == {items[i].id : i \in found}
           last(id) == Max({i \in found : items[i].id = id})
<1>2. Len(items) \in Nat /\ found \subseteq 1 .. Len(items)
  BY <1>1
<1>3. IsFiniteSet(found)
  BY <1>2, FS_Interval, FS_Subset
<1>4. IsFiniteSet(ids)
  <2> DEFINE f == [i \in found |-> items[i].id]
  <2>1. f \in Surjection(found, ids)
    BY DEF Surjection
  <2> QED
    BY <1>3, <2>1, FS_Surjection
<1>5. \A i \in found : items[i].id \in Nat /\ items[i].at \in Int
  BY <1>1 DEF ToSet
<1>6. ASSUME NEW id \in ids PROVE last(id) \in found
  <2> DEFINE S == {i \in found : items[i].id = id}
  <2>1. S \in SUBSET (1 .. Len(items)) /\ S # {}
    BY <1>2
  <2> HIDE DEF S
  <2>2. Max(S) \in S
    BY <1>2, <2>1, GreatestOfInterval
  <2> QED
    BY <2>2 DEF S
<1>7. ReferencedNodes(items) = [id \in ids |-> items[last(id)].at]
  BY DEF ReferencedNodes
<1>8. ids \subseteq Nat
  BY <1>5
<1> HIDE DEF found, ids, last
<1> QED
  BY <1>4, <1>5, <1>6, <1>7, <1>8 DEF Located

LEMMA IngestionInvInit ==
    ASSUME NEW before, "nodes" \in DOMAIN before, Located(before.nodes), IngestionInit(before)
    PROVE  IngestionInv
  BY Nowhere DEF IngestionInit, IngestionInv, Opened

\* Steps that do not touch the tables.
LEMMA TablesUntouched ==
    ASSUME IngestionInv, UNCHANGED <<resolved, pending, tables, committed>>,
           extract' \in Extracts \cup {<<>>}, emitted' \in Nat,
           "batches" \in DOMAIN stream', stream'.batches \in Seq(Batch)
    PROVE  IngestionInv'
  BY DEF IngestionInv

LEMMA EventKeepsIngestionInv ==
    ASSUME IngestionInv, StreamData \/ StreamEnd \/ StreamError \/ ConsumeBatch \/ WaitForEvent
    PROVE  IngestionInv'
<1>1. CASE StreamData
  <2>1. extract[emitted + 1] \in Batch
    <3>1. extract \in Extracts /\ extract \in Seq(ToSet(extract)) /\ emitted + 1 \in 1 .. Len(extract)
      BY <1>1, IngestionAssumption DEF StreamData, IngestionInv, IsList
    <3> QED
      BY <3>1 DEF Batch, ToSet
  <2>2. stream'.batches = Append(stream.batches, extract[emitted + 1]) /\ "batches" \in DOMAIN stream'
    BY <1>1 DEF StreamData, IngestionInv
  <2> QED
    BY <1>1, <2>1, <2>2, TablesUntouched DEF StreamData, IngestionInv
<1>2. CASE StreamEnd
  BY <1>2, TablesUntouched DEF StreamEnd, IngestionInv
<1>3. CASE StreamError
  BY <1>3, TablesUntouched DEF StreamError, IngestionInv
<1>4. CASE WaitForEvent
  BY <1>4, TablesUntouched DEF WaitForEvent, IngestionInv
<1>5. CASE ConsumeBatch
  <2>1. Head(stream.batches) \in Batch /\ Tail(stream.batches) \in Seq(Batch)
    BY <1>5 DEF ConsumeBatch, IngestionInv
  <2>2. "batches" \in DOMAIN stream' /\ stream'.batches = Tail(stream.batches)
    BY <1>5 DEF ConsumeBatch, IngestionInv
  <2>3. Located(resolved')
    <3>1. resolved' = resolved \/ resolved' = Over(ReferencedNodes(Head(stream.batches)), resolved)
      BY <1>5 DEF ConsumeBatch
    <3> QED
      BY <2>1, <3>1, FoundNodesLocated, BothLocated DEF IngestionInv
  <2> QED
    BY <1>5, <2>1, <2>2, <2>3 DEF ConsumeBatch, IngestionInv
<1> QED
  BY <1>1, <1>2, <1>3, <1>4, <1>5

LEMMA StatementKeepsIngestionInv ==
    ASSUME IngestionInv,
           \/ BeginTransaction \/ TruncateTables \/ InsertNodes \/ InsertEdges \/ Commit
           \/ Rollback \/ StatementRefused \/ KillIngestion
    PROVE  IngestionInv'
<1>1. CASE BeginTransaction
  BY <1>1 DEF BeginTransaction, IngestionInv
<1>2. CASE TruncateTables
  <2>1. "nodes" \in DOMAIN pending' /\ pending'.nodes = resolved
    BY <1>2 DEF TruncateTables
  <2> QED
    BY <1>2, <2>1, Nowhere DEF TruncateTables, IngestionInv
<1>3. CASE InsertNodes
  <2>1. PICK batch \in Batches(DOMAIN pending.nodes) :
            /\ tables' = [tables EXCEPT !.nodes = Over(Restrict(pending.nodes, batch), @)]
            /\ pending' = [pending EXCEPT !.nodes = Restrict(@, DOMAIN @ \ batch)]
    BY <1>3 DEF InsertNodes
  <2>2. batch \in SUBSET DOMAIN pending.nodes
    BY DEF Batches, kSubset
  <2>3. /\ "nodes" \in DOMAIN tables' /\ tables'.nodes = Over(Restrict(pending.nodes, batch), tables.nodes)
        /\ "nodes" \in DOMAIN pending'
        /\ pending'.nodes = Restrict(pending.nodes, DOMAIN pending.nodes \ batch)
    BY <2>1 DEF IngestionInv
  <2>4. Located(tables'.nodes) /\ Located(pending'.nodes)
    BY <2>2, <2>3, PartLocated, BothLocated DEF IngestionInv
  <2> QED
    BY <1>3, <2>3, <2>4 DEF InsertNodes, IngestionInv
<1>4. CASE InsertEdges
  BY <1>4 DEF InsertEdges, IngestionInv
<1>5. CASE Commit
  BY <1>5 DEF Commit, IngestionInv
<1>6. CASE Rollback
  BY <1>6 DEF Rollback, IngestionInv
<1>7. CASE StatementRefused
  BY <1>7 DEF StatementRefused, IngestionInv
<1>8. CASE KillIngestion
  BY <1>8 DEF KillIngestion, IngestionInv
<1> QED
  BY <1>1, <1>2, <1>3, <1>4, <1>5, <1>6, <1>7, <1>8

LEMMA IngestionInvStep ==
    ASSUME IngestionInv,
           \/ \E file \in Extracts : StartIngestion(file)
           \/ IngestionStep
           \/ IngestionFault
           \/ UNCHANGED ingestionVars
    PROVE  IngestionInv'
<1>1. ASSUME NEW file \in Extracts, StartIngestion(file) PROVE IngestionInv'
  BY <1>1, Nowhere DEF StartIngestion, IngestionInv, Opened
<1>2. CASE FinishPass
  BY <1>2 DEF FinishPass, IngestionInv, Opened
<1>3. CASE FailPass
  BY <1>3 DEF FailPass, IngestionInv
<1>4. CASE UNCHANGED ingestionVars
  BY <1>4 DEF ingestionVars, IngestionInv
<1> QED
  BY <1>1, <1>2, <1>3, <1>4, EventKeepsIngestionInv, StatementKeepsIngestionInv
     DEF IngestionStep, IngestionFault

-----------------------------------------------------------------------------
(* The request in hand                                                     *)

GraphInv ==
    /\ situation \in Situations
    /\ server \in {"loadNodes", "loadEdges", "up"}
    /\ graph = [nodes |-> graph.nodes, edges |-> graph.edges, routable |-> graph.routable]
    /\ graph.routable \subseteq graph.nodes
    /\ \A e \in graph.edges : {e.from, e.to} \subseteq graph.nodes

HandlerInv ==
    /\ handler \in {"idle", "lookup", "snap", "optimize", "store"}
    /\ server # "up" => handler = "idle"
    /\ request \in {NoRequest} \cup situation.requests
    /\ handler = "idle" <=> request = NoRequest
    /\ handler = "optimize" <=> stage # "idle"
    /\ handler # "idle" => answer = "none"
    /\ handler \in {"idle", "lookup"} => snapped = <<>>
    /\ handler = "snap" => DOMAIN snapped = DOMAIN request.points
    /\ \A k \in DOMAIN snapped : snapped[k] = 0 \/ snapped[k] \in graph.routable

RequestInv == OptimizerInv /\ GraphInv /\ HandlerInv /\ IngestionInv

LEMMA NoRequestIsRequested ==
    ASSUME GraphInv
    PROVE  NoRequest \notin situation.requests
  BY RequestsAssumption DEF GraphInv, NoRequest

LEMMA RequestInvInit == Init => RequestInv
<1> SUFFICES ASSUME Init PROVE RequestInv
  OBVIOUS
<1>1. OptimizerInv /\ stage = "idle"
  BY OptimizerInvInit DEF Init, OptimizerInit
<1>2. GraphInv
  BY DEF Init, GraphInv, NoGraph
<1>3. HandlerInv
  BY <1>1 DEF Init, HandlerInv
<1>4. IngestionInv
  BY IngestionInvInit, RequestsAssumption DEF Init
<1> QED
  BY <1>1, <1>2, <1>3, <1>4 DEF RequestInv

LEMMA LoadingKeepsInv ==
    ASSUME RequestInv, LoadNodes \/ LoadEdges
    PROVE  RequestInv'
<1> USE DEF RequestInv
<1>1. OptimizerInv' /\ IngestionInv' /\ stage' = stage
  BY OptimizerInvStep, IngestionInvStep DEF LoadNodes, LoadEdges, optimizerVars
<1>2. handler' = "idle" /\ snapped' = <<>> /\ request' = NoRequest /\ stage' = "idle"
  <2>1. handler = "idle" /\ UNCHANGED <<handler, snapped, request>>
    BY DEF LoadNodes, LoadEdges, HandlerInv
  <2> QED
    BY <1>1, <2>1 DEF HandlerInv
<1>3. HandlerInv'
  BY <1>2 DEF HandlerInv
<1>4. CASE LoadNodes
  <2>1. /\ graph' = [nodes |-> DOMAIN tables.nodes, edges |-> {}, routable |-> {}]
        /\ situation' = situation /\ server' = "loadEdges"
    BY <1>4 DEF LoadNodes, NoGraph
  <2>2. graph'.nodes = DOMAIN tables.nodes /\ graph'.edges = {} /\ graph'.routable = {}
    BY <2>1
  <2> QED
    BY <1>1, <1>3, <2>1, <2>2 DEF GraphInv
<1>5. CASE LoadEdges
  <2> DEFINE known == {e \in tables.edges : {e.from, e.to} \subseteq graph.nodes}
             loaded == [graph EXCEPT !.edges = known]
  <2>1. PICK routable \in LargestComponents(loaded) :
            graph' = [loaded EXCEPT !.routable = routable]
    BY <1>5 DEF LoadEdges
  <2>2. graph' = [nodes |-> graph.nodes, edges |-> known, routable |-> routable]
    BY <2>1 DEF GraphInv
  <2>3. routable \subseteq graph.nodes
    <3>1. loaded.nodes = graph.nodes
      BY DEF GraphInv
    <3> HIDE DEF loaded
    <3> QED
      BY <2>1, <3>1 DEF LargestComponents
  <2>4. situation' = situation /\ server' = "up"
    BY <1>5 DEF LoadEdges
  <2>5. GraphInv'
    BY <2>2, <2>3, <2>4 DEF GraphInv
  <2> QED
    BY <1>1, <1>3, <2>5
<1> QED
  BY <1>4, <1>5

LEMMA RestartKeepsInv ==
    ASSUME RequestInv, Restart
    PROVE  RequestInv'
<1> USE DEF RequestInv
<1>1. order' = <<>> /\ order' \in Seq(1 .. stopCount') /\ stage' = "idle"
  BY DEF Restart
<1>2. OptimizerInv'
  <2>1. NoStopTwice(order') /\ stopCount' = 0
    BY <1>1 DEF Restart, NoStopTwice
  <2>2. improved' \in BOOLEAN /\ expired' \in BOOLEAN
    BY Zenon DEF Restart
  <2> QED
    BY <1>1, <2>1, <2>2 DEF OptimizerInv, OptimizerTypeOK, NoStopTwice, Stages, HasTour
<1>3. IngestionInv'
  BY IngestionInvStep DEF Restart
<1>4. GraphInv'
  BY DEF Restart, GraphInv, NoGraph
<1>5. HandlerInv'
  BY <1>1 DEF Restart, HandlerInv
<1> QED
  BY <1>2, <1>3, <1>4, <1>5

\* What holds after an answer, whatever it is.
LEMMA AnswersKeepHandlerInv ==
    ASSUME handler' = "idle", request' = NoRequest, snapped' = <<>>, stage' = "idle"
    PROVE  HandlerInv'
  BY DEF HandlerInv

LEMMA HandlerKeepsInv ==
    ASSUME RequestInv,
           \/ \E r \in situation.requests : ReceiveRequest(r)
           \/ AnswerFromCache \/ MissCache \/ FindRoute \/ StoreAndAnswer
           \/ \E k \in DOMAIN snapped : SnapPoint(k)
           \/ SnapRefused
    PROVE  RequestInv'
<1> USE DEF RequestInv
<1>1. UNCHANGED <<situation, server, graph, optimizerVars, ingestionVars>>
  BY DEF ReceiveRequest, AnswerFromCache, MissCache, FindRoute, StoreAndAnswer, SnapPoint, SnapRefused,
         HandlerUnchanged
<1>2. OptimizerInv' /\ IngestionInv' /\ GraphInv' /\ stage' = stage
  BY <1>1, OptimizerInvStep, IngestionInvStep DEF optimizerVars, GraphInv
<1>3. stage' = "idle"
  BY <1>2 DEF ReceiveRequest, AnswerFromCache, MissCache, FindRoute, StoreAndAnswer, SnapPoint, SnapRefused,
              Snapped, HandlerInv
<1>4. ASSUME NEW r \in situation.requests, ReceiveRequest(r) PROVE HandlerInv'
  BY <1>1, <1>2, <1>4, NoRequestIsRequested DEF ReceiveRequest, HandlerInv
<1>5. CASE AnswerFromCache
  BY <1>2, <1>3, <1>5, AnswersKeepHandlerInv DEF AnswerFromCache, AnswerWith
<1>6. CASE MissCache
  <2>1. CASE AnswerWith("queued")
    BY <1>2, <1>3, <2>1, AnswersKeepHandlerInv DEF AnswerWith
  <2>2. CASE /\ handler' = "snap" /\ request' = request /\ answer' = answer
             /\ snapped' = [k \in DOMAIN request.points |-> 0]
    BY <1>1, <1>2, <1>6, <2>2 DEF MissCache, HandlerInv
  <2> QED
    BY <1>6, <2>1, <2>2 DEF MissCache
<1>7. CASE FindRoute
  <2>1. CASE AnswerWith("ROUTE_NOT_FOUND")
    BY <1>2, <1>3, <2>1, AnswersKeepHandlerInv DEF AnswerWith
  <2>2. CASE handler' = "store" /\ UNCHANGED <<request, snapped, answer>>
    BY <1>1, <1>2, <1>7, <2>2 DEF FindRoute, Snapped, HandlerInv
  <2> QED
    BY <1>7, <2>1, <2>2 DEF FindRoute
<1>8. CASE StoreAndAnswer
  BY <1>2, <1>3, <1>8, AnswersKeepHandlerInv DEF StoreAndAnswer, AnswerWith
<1>9. ASSUME NEW k \in DOMAIN snapped, SnapPoint(k) PROVE HandlerInv'
  <2>1. CASE AnswerWith("SNAP_RADIUS_EXCEEDED")
    BY <1>2, <1>3, <2>1, AnswersKeepHandlerInv DEF AnswerWith
  <2>2. ASSUME NEW rows, NEW n \in NearestNodes(rows, request.points[k]),
               snapped' = [snapped EXCEPT ![k] = n],
               UNCHANGED <<handler, request, answer>>
        PROVE  HandlerInv'
    <3>1. n \in graph.routable
      BY DEF NearestNodes, IsRoutableNode
    <3> QED
      BY <1>1, <1>2, <1>9, <2>2, <3>1 DEF SnapPoint, HandlerInv
  <2> QED
    BY <1>9, <2>1, <2>2 DEF SnapPoint
<1>10. CASE SnapRefused
  BY <1>2, <1>3, <1>10, AnswersKeepHandlerInv DEF SnapRefused, AnswerWith
<1> QED
  BY <1>2, <1>4, <1>5, <1>6, <1>7, <1>8, <1>9, <1>10

LEMMA ComputingKeepsInv ==
    ASSUME RequestInv, CallOptimizer \/ RunOptimizer \/ TakeResult \/ Clock
    PROVE  RequestInv' /\ OptimizerNext
<1> USE DEF RequestInv
<1>1. UNCHANGED <<situation, server, graph, ingestionVars>>
  BY DEF CallOptimizer, RunOptimizer, TakeResult, Clock, requestVars
<1>2. GraphInv' /\ IngestionInv'
  BY <1>1, IngestionInvStep DEF GraphInv
<1>3. CASE CallOptimizer
  <2>1. StopsOf(request) \in Nat
    <3>1. request \in situation.requests
      BY <1>3 DEF CallOptimizer, Snapped, HandlerInv
    <3>2. Len(request.points) \in Nat \ {0}
      <4>1. IsList(request.points) /\ Len(request.points) >= 2
        BY <3>1, RequestsAssumption DEF GraphInv
      <4>2. Len(request.points) \in Nat
        BY <4>1 DEF IsList
      <4> QED
        BY <4>1, <4>2
    <3> QED
      BY <3>2 DEF StopsOf
  <2>2. PICK found : Begin(StopsOf(request), found)
    BY <1>3 DEF CallOptimizer
  <2>3. OptimizerNext
    BY <2>1, <2>2 DEF OptimizerNext
  <2>4. stage' # "idle"
    BY <2>2 DEF Begin
  <2> QED
    BY <1>1, <1>2, <1>3, <2>3, <2>4, OptimizerInvStep DEF CallOptimizer, Snapped, HandlerInv
<1>4. CASE RunOptimizer
  <2>1. OptimizerNext
    BY <1>4 DEF RunOptimizer, OptimizerNext
  <2>2. stage' # "idle"
    BY <1>4 DEF RunOptimizer, OptimizerStep, MeasureInputOrder, VisitNearest, BeginTwoOpt, BeginPass,
                TryCandidate, NextPair, StopAtDeadline, EndTwoOpt
  <2> QED
    BY <1>1, <1>2, <1>4, <2>1, <2>2, OptimizerInvStep DEF RunOptimizer, requestVars, HandlerInv
<1>5. CASE TakeResult
  <2>1. OptimizerNext /\ stage' = "idle" /\ stage \in {"done", "rejected", "thrown"}
    BY <1>5 DEF TakeResult, OptimizerNext, Return
  <2>2. CASE handler' = "store" /\ UNCHANGED <<request, snapped, answer>>
    BY <1>1, <1>2, <1>5, <2>1, <2>2, OptimizerInvStep DEF TakeResult, HandlerInv
  <2>3. CASE handler' = "idle" /\ request' = NoRequest /\ snapped' = <<>>
    BY <1>2, <2>1, <2>3, AnswersKeepHandlerInv, OptimizerInvStep
  <2> QED
    BY <1>5, <2>1, <2>2, <2>3 DEF TakeResult, AnswerWith
<1>6. CASE Clock
  <2>1. OptimizerNext /\ stage' = stage
    BY <1>6 DEF Clock, OptimizerNext, DeadlinePasses
  <2> QED
    BY <1>1, <1>2, <1>6, <2>1, OptimizerInvStep DEF Clock, requestVars, HandlerInv
<1> QED
  BY <1>3, <1>4, <1>5, <1>6

LEMMA RequestInvStep == RequestInv /\ [Next]_vars => RequestInv'
<1> SUFFICES ASSUME RequestInv, [Next]_vars PROVE RequestInv'
  OBVIOUS
<1>1. ASSUME UNCHANGED <<requestVars, optimizerVars>>, IngestionInv' PROVE RequestInv'
  <2>1. OptimizerInv' /\ stage' = stage
    BY <1>1, OptimizerInvStep DEF RequestInv, optimizerVars
  <2> QED
    BY <1>1, <2>1 DEF RequestInv, requestVars, GraphInv, HandlerInv
<1>2. CASE Ingest
  <2>1. situation.extracts \subseteq Extracts
    BY RequestsAssumption DEF RequestInv, GraphInv
  <2> QED
    BY <1>1, <1>2, <2>1, IngestionInvStep DEF Ingest, RequestInv
<1>3. CASE UNCHANGED vars
  BY <1>1, <1>3, IngestionInvStep DEF vars, RequestInv
<1> QED
  BY <1>2, <1>3, LoadingKeepsInv, RestartKeepsInv, HandlerKeepsInv, ComputingKeepsInv
     DEF Next, HandlerStep

LEMMA RequestInvariance == Spec => []RequestInv
  BY RequestInvInit, RequestInvStep, PTL DEF Spec

\* Only nodes of the routable component are ever taken for a point, though the
\* tables may be newer than the graph, and the optimizer is at work exactly
\* while a request is.
THEOREM RequestsTypeCorrectness == Spec => []RequestsTypeOK
<1>1. RequestInv => RequestsTypeOK
  BY DEF RequestInv, OptimizerInv, GraphInv, HandlerInv, RequestsTypeOK
<1> QED
  BY <1>1, RequestInvariance, PTL

\* Restarts and other requests do not come between the optimizer and its tour:
\* whatever a request finds has been a tour from the nearest neighbours on.
THEOREM RequestsImproveTours == Spec => TourSpec
<1>1. Init => Tour!Init
  BY DEF Init, OptimizerInit, Tour!Init, HasTour
<1>2. ASSUME RequestInv, RequestInv', [Next]_vars PROVE [Tour!Next]_(Tour!tourVars)
  <2>1. CASE OptimizerNext \/ UNCHANGED optimizerVars
    BY <1>2, <2>1, ImprovesStep DEF RequestInv
  <2>2. CASE Restart
    BY <2>2 DEF Restart, HasTour, Tour!Next, Tour!NoTour
  <2>3. CASE \/ LoadNodes \/ LoadEdges \/ Ingest \/ UNCHANGED vars
             \/ \E r \in situation.requests : ReceiveRequest(r)
             \/ AnswerFromCache \/ MissCache \/ FindRoute \/ StoreAndAnswer
             \/ \E k \in DOMAIN snapped : SnapPoint(k)
             \/ SnapRefused
           \/ SnapRefused
    <3>1. UNCHANGED optimizerVars
      BY <2>3 DEF LoadNodes, LoadEdges, Ingest, vars, ReceiveRequest, AnswerFromCache, MissCache,
                  FindRoute, StoreAndAnswer, SnapPoint, SnapRefused, HandlerUnchanged
    <3> QED
      BY <2>1, <3>1
  <2> QED
    BY <1>2, <2>1, <2>2, <2>3, ComputingKeepsInv DEF Next, HandlerStep
<1> QED
  BY <1>1, <1>2, RequestInvariance, PTL DEF Spec, TourSpec, Tour!Spec

-----------------------------------------------------------------------------
(* Snapping                                                                *)

Away(n, point) == Gap(tables.nodes[n], point)

LEMMA AwayIsNatural ==
    ASSUME IngestionInv, NEW point \in Int, NEW n \in DOMAIN tables.nodes
    PROVE  Away(n, point) \in Nat /\ n \in Nat
<1>1. tables.nodes[n] \in Int /\ n \in Nat
  BY DEF IngestionInv, Located
<1> QED
  BY <1>1 DEF Away, Gap

\* What is nearer than a row that is taken is a row of the answer.
LEMMA TakesTheNearest ==
    ASSUME IngestionInv, NEW point \in Int, NEW rows \in RowsFound(point),
           NEW taken \in NearestNodes(rows, point),
           NEW n \in DOMAIN tables.nodes, Away(n, point) < Away(taken, point)
    PROVE  n \notin graph.routable
<1> SUFFICES ASSUME n \in graph.routable PROVE FALSE
  OBVIOUS
<1>1. taken \in rows /\ \A m \in rows \cap graph.routable : Away(taken, point) <= Away(m, point)
  BY DEF NearestNodes, IsRoutableNode, Away
<1>2. /\ rows \subseteq Within(point)
      /\ \A m \in Within(point) \ rows : Away(taken, point) <= Away(m, point)
  BY <1>1 DEF RowsFound, RowsUnordered, Away
<1>3. taken \in DOMAIN tables.nodes /\ Away(taken, point) <= SnapRadius
  BY <1>1, <1>2 DEF Within, Away
<1>4. Away(n, point) \in Nat /\ Away(taken, point) \in Nat /\ SnapRadius \in Nat
  BY <1>3, AwayIsNatural, RequestsAssumption
<1>5. n \in Within(point)
  <2>1. Away(n, point) <= SnapRadius
    BY <1>3, <1>4
  <2> QED
    BY <2>1 DEF Within, Away
<1> QED
  BY <1>1, <1>2, <1>4, <1>5

LEMMA NothingIsFound ==
    ASSUME IngestionInv, NEW point \in Int, NEW rows \in RowsFound(point),
           NearestNodes(rows, point) = {},
           NEW road \in graph.routable, road \in Within(point)
    PROVE  Cardinality(Within(point) \ graph.routable) >= CandidateLimit
<1> DEFINE accepted == rows \cap graph.routable
           others == Within(point) \ graph.routable
           gaps == {Away(n, point) : n \in accepted}
<1>1. rows \subseteq Within(point) /\ (rows = Within(point) \/ Cardinality(rows) = CandidateLimit)
  BY DEF RowsFound, RowsUnordered
\* None of the rows is routable, or one of those would have been taken.
<1>2. accepted = {}
  <2> SUFFICES ASSUME accepted # {} PROVE FALSE
    OBVIOUS
  <2>1. \A n \in accepted : Away(n, point) \in gaps /\ Away(n, point) \in Nat
    BY <1>1, AwayIsNatural DEF Within
  <2>2. gaps \in SUBSET Nat /\ gaps # {}
    BY <2>1
  <2>3. PICK gap \in gaps : \A other \in gaps : gap <= other
    <3> HIDE DEF gaps
    <3> QED
      BY <2>2, LeastNatural
  <2>4. PICK n \in accepted : gap = Away(n, point)
    BY <2>3
  <2>5. n \in NearestNodes(rows, point)
    BY <2>1, <2>3, <2>4 DEF NearestNodes, IsRoutableNode, Away
  <2> QED
    BY <2>5
\* The road is not among them: the others fill the answer.
<1>3. rows # Within(point) /\ rows \subseteq others
  BY <1>1, <1>2
<1>4. IsFiniteSet(others)
  <2>1. IsFiniteSet(DOMAIN tables.nodes) /\ others \in SUBSET DOMAIN tables.nodes
    BY DEF IngestionInv, Located, Within
  <2> QED
    BY <2>1, FS_Subset
<1>5. /\ Cardinality(rows) <= Cardinality(others)
      /\ Cardinality(rows) \in Nat /\ Cardinality(others) \in Nat
  BY <1>3, <1>4, FS_Subset, FS_CardinalityType
<1> QED
  BY <1>1, <1>3, <1>5

\* A point is tied to the nearest routable node, and rejected only if there is
\* none within the radius or unroutable rows crowd it out.
THEOREM SnapsAreNearest == Spec => SnapsToNearestRoad
<1>1. ASSUME RequestInv, Next, NEW k \in DOMAIN snapped, snapped[k] = 0, snapped'[k] # 0,
             handler' = "snap"
      PROVE  SnapPoint(k)
  <2>1. snapped # <<>> /\ handler \notin {"idle", "lookup"}
    BY <1>1 DEF RequestInv, HandlerInv
  <2>2. ~ UNCHANGED snapped
    BY <1>1
  <2>3. PICK j \in DOMAIN snapped : SnapPoint(j)
    <3>1. ~ (LoadNodes \/ LoadEdges \/ Ingest \/ Clock \/ CallOptimizer \/ RunOptimizer)
      BY <2>2 DEF LoadNodes, LoadEdges, Ingest, Clock, CallOptimizer, RunOptimizer, requestVars
    <3>2. ~ (Restart \/ AnswerFromCache \/ MissCache \/ \E r \in situation.requests : ReceiveRequest(r))
      BY <1>1, <2>1 DEF Restart, AnswerFromCache, MissCache, ReceiveRequest
    <3>3. ~ (FindRoute \/ StoreAndAnswer \/ SnapRefused)
      BY <1>1 DEF FindRoute, StoreAndAnswer, SnapRefused, AnswerWith
    <3>4. ~ TakeResult
      <4>1. TakeResult => handler' \in {"idle", "store"}
        BY DEF TakeResult, Return, AnswerWith
      <4> QED
        BY <1>1, <4>1
    <3> QED
      BY <1>1, <3>1, <3>2, <3>3, <3>4 DEF Next, HandlerStep
  <2>4. CASE j # k
    <3>1. snapped' = <<>> \/ \E n : snapped' = [snapped EXCEPT ![j] = n]
      BY <2>3 DEF SnapPoint, AnswerWith
    <3>2. snapped' # <<>>
      BY <1>1, <2>3 DEF SnapPoint, AnswerWith
    <3> QED
      BY <1>1, <2>4, <3>1, <3>2
  <2> QED
    BY <2>3, <2>4
<1>2. ASSUME RequestInv, NEW k \in DOMAIN snapped, SnapPoint(k)
      PROVE  request.points[k] \in Int
  <2>1. request \in situation.requests /\ k \in DOMAIN request.points
    BY <1>2 DEF SnapPoint, RequestInv, HandlerInv
  <2>2. ToSet(request.points) \subseteq Int
    BY <1>2, <2>1, RequestsAssumption DEF RequestInv, GraphInv
  <2> QED
    BY <2>1, <2>2 DEF ToSet
<1> DEFINE Near(k, d) == {n \in DOMAIN tables.nodes : Gap(tables.nodes[n], request.points[k]) <= d}
<1>3. ASSUME RequestInv, NEW k \in DOMAIN snapped, SnapPoint(k), handler' = "snap"
      PROVE  \A n \in Near(k, Gap(tables.nodes[snapped'[k]], request.points[k]) - 1) :
                n \notin graph.routable
  <2>1. PICK rows \in RowsFound(request.points[k]) :
            \E n \in NearestNodes(rows, request.points[k]) : snapped' = [snapped EXCEPT ![k] = n]
    BY <1>3 DEF SnapPoint, AnswerWith
  <2>5. PICK taken \in NearestNodes(rows, request.points[k]) : snapped' = [snapped EXCEPT ![k] = taken]
    BY <2>1
  <2>2. snapped'[k] = taken /\ taken \in DOMAIN tables.nodes
    BY <2>5 DEF NearestNodes, RowsFound, RowsUnordered, Within
  <2>3. ASSUME NEW n \in Near(k, Away(taken, request.points[k]) - 1)
        PROVE  n \notin graph.routable
    <3>1. n \in DOMAIN tables.nodes /\ Away(n, request.points[k]) <= Away(taken, request.points[k]) - 1
      BY DEF Away
    <3>2. Away(n, request.points[k]) < Away(taken, request.points[k])
      BY <1>2, <1>3, <2>2, <3>1, AwayIsNatural DEF RequestInv
    <3> QED
      BY <1>2, <1>3, <2>1, <3>1, <3>2, TakesTheNearest DEF RequestInv
  <2> QED
    BY <2>2, <2>3 DEF Away
<1>4. ASSUME RequestInv, NEW k \in DOMAIN snapped, SnapPoint(k), answer' = "SNAP_RADIUS_EXCEEDED"
      PROVE  \/ Near(k, SnapRadius) \cap graph.routable = {}
             \/ Cardinality(Near(k, SnapRadius) \ graph.routable) >= CandidateLimit
  <2>1. answer = "none"
    BY <1>4 DEF SnapPoint, RequestInv, HandlerInv
  <2>2. PICK rows \in RowsFound(request.points[k]) : NearestNodes(rows, request.points[k]) = {}
    BY <1>4, <2>1 DEF SnapPoint
  <2> SUFFICES ASSUME NEW road \in Near(k, SnapRadius) \cap graph.routable
               PROVE  Cardinality(Near(k, SnapRadius) \ graph.routable) >= CandidateLimit
    OBVIOUS
  <2>3. road \in Within(request.points[k]) /\ Within(request.points[k]) = Near(k, SnapRadius)
    BY DEF Within
  <2> QED
    BY <1>2, <1>4, <2>2, <2>3, NothingIsFound DEF RequestInv
<1> HIDE DEF Near
<1>5. ASSUME RequestInv, [Next]_vars
      PROVE  [\A k \in DOMAIN snapped :
                /\ handler' = "snap" /\ snapped[k] = 0 /\ snapped'[k] # 0 =>
                      \A n \in Near(k, Gap(tables.nodes[snapped'[k]], request.points[k]) - 1) :
                          n \notin graph.routable
                /\ answer' = "SNAP_RADIUS_EXCEEDED" /\ SnapPoint(k) =>
                      \/ Near(k, SnapRadius) \cap graph.routable = {}
                      \/ Cardinality(Near(k, SnapRadius) \ graph.routable) >= CandidateLimit]_vars
  BY <1>1, <1>3, <1>4, <1>5
<1> QED
  BY <1>5, RequestInvariance, PTL DEF Spec, SnapsToNearestRoad, Near

-----------------------------------------------------------------------------
(* The length of a tour, and the pairs that a pass has tried               *)

LegsMeasured ==
    \A i \in 0 .. stopCount, j \in 1 .. stopCount :
        legs[<<i, j>>] # NoRoute => legs[<<i, j>>].distanceM \in Nat

\* The sums of the first naturals of d.
AddsUp(n, d, f) ==
    /\ f \in [0 .. n -> Nat]
    /\ f[0] = 0
    /\ \A k \in 1 .. n : d[k] \in Nat /\ f[k] = f[k - 1] + d[k]

LEMMA AddingUp ==
    ASSUME NEW n \in Nat, NEW d, \A k \in 1 .. n : d[k] \in Nat,
           NEW f, f = CHOOSE g : g = [k \in 0 .. n |-> IF k = 0 THEN 0 ELSE g[k - 1] + d[k]]
    PROVE  AddsUp(n, d, f)
<1> DEFINE step == [k \in 1 .. n |-> [v \in Nat |-> v + d[k]]]
           Sums(g) == g = [k \in 0 .. n |-> IF k = 0 THEN 0 ELSE g[k - 1] + d[k]]
<1>1. step \in [1 .. n -> [Nat -> Nat]]
  OBVIOUS
<1>2. PICK h : Iterates(n, Nat, 0, step, h)
  <2> HIDE DEF step
  <2> QED
    BY <1>1, Iteration
<1>3. h \in [0 .. n -> Nat] /\ h[0] = 0
      /\ \A k \in 1 .. n : h[k] = step[k][h[k - 1]] /\ k - 1 \in 0 .. n
  BY <1>2 DEF Iterates
<1>4. \A k \in 1 .. n : h[k] = h[k - 1] + d[k]
  BY <1>3
<1>5. Sums(h)
  BY <1>3, <1>4
<1>6. Sums(f)
  <2> HIDE DEF Sums
  <2>1. f = CHOOSE g : Sums(g)
    BY DEF Sums
  <2> QED
    BY <1>5, <2>1
<1>7. f[0] = 0 /\ \A k \in 1 .. n : f[k] = f[k - 1] + d[k]
  BY <1>6
<1> DEFINE T == {k \in 0 .. n : f[k] \in Nat}
<1>8. 0 \in T
  BY <1>7
<1>9. ASSUME NEW k \in 1 .. n, k - 1 \in T PROVE k \in T
  <2>1. f[k - 1] \in Nat /\ d[k] \in Nat /\ f[k] = f[k - 1] + d[k]
    BY <1>7, <1>9
  <2> QED
    BY <2>1
<1> HIDE DEF T
<1>10. 0 .. n \subseteq T
  BY <1>8, <1>9, Induction
<1>11. f \in [0 .. n -> Nat]
  <2>1. \A k \in 0 .. n : f[k] \in Nat
    BY <1>10 DEF T
  <2>2. f = [k \in 0 .. n |-> f[k]]
    BY <1>6
  <2> QED
    BY <2>1, <2>2
<1> QED
  BY <1>7, <1>11 DEF AddsUp

LegLengths(t) == [k \in 1 .. Len(t) |-> legs[LegAt(t, k)].distanceM]

LEMMA TourLengthAddsUp ==
    ASSUME LegsMeasured, stopCount \in Nat, NEW t \in Seq(1 .. stopCount), Drivable(t)
    PROVE  \E f : AddsUp(Len(t), LegLengths(t), f) /\ TourLength(t) = f[Len(t)]
<1> DEFINE n == Len(t)
           d == LegLengths(t)
           f == CHOOSE g : g = [k \in 0 .. n |->
                    IF k = 0 THEN 0 ELSE g[k - 1] + legs[LegAt(t, k)].distanceM]
           h == CHOOSE g : g = [k \in 0 .. n |-> IF k = 0 THEN 0 ELSE g[k - 1] + d[k]]
<1>1. n \in Nat /\ DOMAIN t = 1 .. n /\ \A k \in 1 .. n : t[k] \in 1 .. stopCount
  OBVIOUS
<1>2. \A k \in 1 .. n : d[k] \in Nat
  <2> SUFFICES ASSUME NEW k \in 1 .. n PROVE d[k] \in Nat
    OBVIOUS
  <2>1. PICK i \in 0 .. stopCount : LegAt(t, k) = <<i, t[k]>>
    <3>1. k # 1 => k - 1 \in 1 .. n
      BY <1>1
    <3> QED
      BY <1>1, <3>1 DEF LegAt
  <2>2. legs[LegAt(t, k)] # NoRoute
    BY <1>1 DEF Drivable
  <2> QED
    BY <1>1, <2>1, <2>2 DEF LegsMeasured, LegLengths
<1>3. \A g : [k \in 0 .. n |-> IF k = 0 THEN 0 ELSE g[k - 1] + legs[LegAt(t, k)].distanceM]
             = [k \in 0 .. n |-> IF k = 0 THEN 0 ELSE g[k - 1] + d[k]]
  <2>1. \A k \in 0 .. n : k # 0 => d[k] = legs[LegAt(t, k)].distanceM
    BY <1>1 DEF LegLengths
  <2> HIDE DEF d
  <2> QED
    BY <2>1
<1>4. f = h
  BY <1>3
<1>5. AddsUp(n, d, h)
  <2> HIDE DEF d, n
  <2> QED
    BY <1>1, <1>2, AddingUp
<1> HIDE DEF h
<1>6. TourLength(t) = f[n]
  BY DEF TourLength
<1> QED
  BY <1>4, <1>5, <1>6

LEMMA TourLengthIsNatural ==
    ASSUME LegsMeasured, stopCount \in Nat, NEW t \in Seq(1 .. stopCount), Drivable(t)
    PROVE  TourLength(t) \in Nat
<1>1. PICK f : AddsUp(Len(t), LegLengths(t), f) /\ TourLength(t) = f[Len(t)]
  BY TourLengthAddsUp
<1>2. Len(t) \in 0 .. Len(t)
  OBVIOUS
<1> QED
  BY <1>1, <1>2 DEF AddsUp

-----------------------------------------------------------------------------
\* The pairs of positions that a pass has tried, up to start and end.
Tried(i, j) == i < start \/ (i = start /\ j < end)

NotShorter(i, j) == best <= TourLength(TwoOptSwap(order, i, j))

SwapInv ==
    /\ LegsMeasured
    /\ stage = "naive" => order = <<>>
    /\ stage = "nearest" => Drivable(order)
    /\ HasTour => best \in Nat /\ best = TourLength(order)
    /\ stage = "try" /\ ~ improved =>
          \A i, j \in 1 .. stopCount : i < j /\ Tried(i, j) => NotShorter(i, j)
    /\ (stage = "pass" /\ ~ improved) \/ (stage = "done" /\ ~ expired) =>
          \A i, j \in 1 .. stopCount : i < j => NotShorter(i, j)

\* What is said of an order depends on the legs, the order and its length only.
LEMMA SameTour ==
    ASSUME UNCHANGED <<stopCount, legs>>
    PROVE  /\ LegsMeasured' = LegsMeasured
           /\ \A t : TourLength(t)' = TourLength(t)
           /\ \A t : Drivable(t)' = Drivable(t)
           /\ UNCHANGED order => UNCHANGED Drivable(order) /\ UNCHANGED TourLength(order)
           /\ UNCHANGED <<order, best>> => \A i, j : NotShorter(i, j)' = NotShorter(i, j)
<1>1. LegsMeasured' = LegsMeasured
  BY DEF LegsMeasured
<1> QED
  BY <1>1 DEF TourLength, Drivable, NotShorter

\* The nearest stop can be driven to.
LEMMA LongerOrderDrivable ==
    ASSUME NEW i \in 1 .. stopCount, stopCount \in Nat, order \in Seq(1 .. stopCount),
           Drivable(order), legs[LegTo(i)] # NoRoute
    PROVE  Drivable(Append(order, i))
<1> DEFINE t == Append(order, i)
<1>1. /\ t \in Seq(1 .. stopCount) /\ Len(t) = Len(order) + 1 /\ Len(order) \in Nat
      /\ DOMAIN t = 1 .. Len(order) + 1 /\ DOMAIN order = 1 .. Len(order)
      /\ \A k \in 1 .. Len(order) : t[k] = order[k]
  OBVIOUS
<1>2. ASSUME NEW k \in DOMAIN t PROVE legs[LegAt(t, k)] # NoRoute
  <2>1. CASE k = Len(order) + 1
    BY <2>1 DEF LegTo
  <2>2. CASE k # Len(order) + 1
    <3>1. k \in DOMAIN order /\ (k # 1 => k - 1 \in 1 .. Len(order))
      BY <1>1, <2>2
    <3>2. LegAt(t, k) = LegAt(order, k)
      <4> HIDE DEF t
      <4> QED
        BY <1>1, <3>1 DEF LegAt
    <3> QED
      BY <3>1, <3>2 DEF Drivable
  <2> QED
    BY <2>1, <2>2
<1> QED
  BY <1>2 DEF Drivable

\* The loops over the pairs miss none.
LEMMA NextPairTriesAll ==
    ASSUME OptimizerInv, stage = "try", NextPair, stopCount' = stopCount,
           NEW i \in 1 .. stopCount, NEW j \in 1 .. stopCount, i < j,
           stage' = "try" => Tried(i, j)'
    PROVE  Tried(i, j) \/ (i = start /\ j = end)
<1>1. stopCount \in Nat /\ start \in 1 .. stopCount - 1 /\ end \in start + 1 .. stopCount
  BY DEF OptimizerInv, OptimizerTypeOK
<1> QED
  BY <1>1 DEF NextPair, Tried

LEMMA SwapInvInit == OptimizerInit => SwapInv
  BY DEF OptimizerInit, SwapInv, LegsMeasured, HasTour

LEMMA TryKeepsSwapInv ==
    ASSUME OptimizerInv, SwapInv, TryCandidate
    PROVE  SwapInv'
<1> DEFINE candidate == TwoOptSwap(order, start, end)
<1>1. /\ stage = "try" /\ UNCHANGED <<stopCount, legs, expired>>
      /\ stopCount \in Nat /\ order \in Seq(1 .. stopCount) /\ Len(order) = stopCount
      /\ start \in 1 .. stopCount - 1 /\ end \in start + 1 .. stopCount
      /\ NoStopTwice(order) /\ improved \in BOOLEAN
  BY DEF TryCandidate, OptimizerInv, OptimizerTypeOK, HasTour
<1>2. LegsMeasured'
  BY <1>1, SameTour DEF SwapInv
<1>3. best \in Nat /\ best = TourLength(order)
  BY <1>1 DEF SwapInv, HasTour
<1>4. CASE ~ Drivable(candidate)
  <2>1. stage' = "thrown"
    BY <1>4 DEF TryCandidate
  <2> QED
    BY <1>2, <2>1 DEF SwapInv, HasTour
<1>5. CASE Drivable(candidate)
  <2>1. candidate \in Seq(1 .. stopCount)
    BY <1>1, SwapKeepsTour
  <2>2. TourLength(candidate) \in Nat
    BY <1>1, <1>5, <2>1, TourLengthIsNatural DEF SwapInv
  <2>3. Keep(candidate, TourLength(candidate)) /\ NextPair
    BY <1>5 DEF TryCandidate
  <2>4. stage' \in {"try", "pass"}
    BY <1>1, <2>3, NextPairInBounds
  <2> HIDE DEF candidate
  <2>5. CASE IsShorter(TourLength(candidate))
    <3>1. order' = candidate /\ best' = TourLength(candidate) /\ improved' = TRUE
      BY <2>3, <2>5 DEF Keep
    <3>2. TourLength(order)' = TourLength(candidate)
      BY <1>1, <3>1 DEF TourLength
    <3> QED
      BY <1>2, <2>2, <2>4, <3>1, <3>2 DEF SwapInv, HasTour
  <2>6. CASE ~ IsShorter(TourLength(candidate))
    <3>1. UNCHANGED <<order, best, improved>>
      BY <2>3, <2>6 DEF Keep
    <3>2. best <= TourLength(candidate)
      BY <1>3, <2>2, <2>6 DEF IsShorter
    <3>3. /\ \A i, j : NotShorter(i, j)' = NotShorter(i, j)
          /\ TourLength(order)' = TourLength(order)
      BY <1>1, <3>1, SameTour
    <3>4. NotShorter(start, end)
      BY <3>2 DEF NotShorter, candidate
    <3>5. ASSUME ~ improved', NEW i \in 1 .. stopCount, NEW j \in 1 .. stopCount, i < j,
                 stage' = "try" => Tried(i, j)'
          PROVE  NotShorter(i, j)'
      <4>1. Tried(i, j) \/ (i = start /\ j = end)
        BY <1>1, <2>3, <3>5, NextPairTriesAll
      <4>2. NotShorter(i, j)
        BY <1>1, <3>1, <3>4, <3>5, <4>1 DEF SwapInv
      <4> QED
        BY <3>3, <4>2
    <3> QED
      BY <1>1, <1>2, <1>3, <2>4, <3>1, <3>3, <3>5 DEF SwapInv, HasTour
  <2> QED
    BY <2>5, <2>6
<1> QED
  BY <1>4, <1>5

\* Steps that leave the tour alone keep what is known of it.
LEMMA SwapInvStep ==
    ASSUME OptimizerInv, SwapInv, [OptimizerNext]_optimizerVars, LegsMeasured'
    PROVE  SwapInv'
<1>1. ASSUME NEW count \in Nat, NEW found, Begin(count, found) PROVE SwapInv'
  BY <1>1 DEF Begin, SwapInv, HasTour
<1>2. CASE MeasureInputOrder
  <2>1. stage = "naive" /\ stage' \in {"nearest", "thrown"} /\ UNCHANGED <<stopCount, legs, order>>
    BY <1>2 DEF MeasureInputOrder
  <2>2. order' = <<>> /\ Drivable(order)'
    BY <2>1 DEF SwapInv, Drivable
  <2> QED
    BY <2>1, <2>2 DEF SwapInv, HasTour
<1>3. CASE VisitNearest
  <2>1. CASE stage' = "thrown"
    BY <2>1 DEF SwapInv, HasTour
  <2>2. ASSUME stage' = stage, NEW i \in Unvisited, order' = Append(order, i),
               legs[LegTo(i)] # NoRoute
        PROVE  SwapInv'
    <3>1. /\ stage = "nearest" /\ UNCHANGED <<stopCount, legs>> /\ i \in 1 .. stopCount
          /\ stopCount \in Nat /\ order \in Seq(1 .. stopCount)
      BY <1>3 DEF VisitNearest, Unvisited, OptimizerInv, OptimizerTypeOK
    <3>2. Drivable(Append(order, i))
      BY <2>2, <3>1, LongerOrderDrivable DEF SwapInv
    <3>3. Drivable(order)'
      BY <2>2, <3>1, <3>2 DEF Drivable
    <3> QED
      BY <2>2, <3>1, <3>3 DEF SwapInv, HasTour
  <2> QED
    BY <1>3, <2>1, <2>2 DEF VisitNearest
<1>4. CASE BeginTwoOpt
  <2>1. /\ stage = "nearest" /\ stage' = "pass" /\ improved' = TRUE
        /\ UNCHANGED <<stopCount, legs, order>> /\ best' = TourLength(order)
    BY <1>4 DEF BeginTwoOpt
  <2>2. best' \in Nat /\ best' = TourLength(order)'
    BY <2>1, TourLengthIsNatural, SameTour DEF SwapInv, OptimizerInv, OptimizerTypeOK
  <2> QED
    BY <2>1, <2>2 DEF SwapInv, HasTour
<1>5. CASE BeginPass
  <2>1. /\ stage = "pass" /\ stage' = "try" /\ UNCHANGED <<stopCount, legs, order, best>>
        /\ start' = 1 /\ end' = 2
    BY <1>5 DEF BeginPass
  <2>2. \A i, j \in 1 .. stopCount : i < j => ~ Tried(i, j)'
    <3>1. stopCount \in Nat
      BY DEF OptimizerInv, OptimizerTypeOK
    <3> QED
      BY <2>1, <3>1 DEF Tried
  <2>3. TourLength(order)' = TourLength(order)
    BY <2>1, SameTour
  <2> QED
    BY <2>1, <2>2, <2>3 DEF SwapInv, HasTour
<1>6. CASE TryCandidate
  BY <1>6, TryKeepsSwapInv
<1>7. ASSUME UNCHANGED <<stopCount, legs, order, best, start, end, improved>>,
             \/ stage' = stage /\ (expired => expired')
             \/ stage = "try" /\ stage' = "done" /\ expired'
             \/ stage = "pass" /\ stage' = "done" /\ (~ improved \/ expired')
             \/ stage' = "idle"
      PROVE  SwapInv'
  <2>1. /\ TourLength(order)' = TourLength(order) /\ Drivable(order)' = Drivable(order)
        /\ \A i, j : NotShorter(i, j)' = NotShorter(i, j)
    BY <1>7, SameTour
  <2>2. \A i, j : Tried(i, j)' = Tried(i, j)
    BY <1>7 DEF Tried
  <2>3. CASE stage' = stage
    BY <1>7, <2>1, <2>2, <2>3 DEF SwapInv, HasTour
  <2>4. CASE stage \in {"pass", "try"} /\ stage' = "done"
    BY <1>7, <2>1, <2>4 DEF SwapInv, HasTour
  <2> QED
    BY <1>7, <2>3, <2>4 DEF SwapInv, HasTour
<1>8. CASE StopAtDeadline
  BY <1>7, <1>8 DEF StopAtDeadline
<1>9. CASE EndTwoOpt
  BY <1>7, <1>9 DEF EndTwoOpt
<1>10. CASE DeadlinePasses
  BY <1>7, <1>10 DEF DeadlinePasses
<1>11. CASE Return
  BY <1>7, <1>11 DEF Return
<1>12. CASE UNCHANGED optimizerVars
  BY <1>7, <1>12 DEF optimizerVars
<1> QED
  BY <1>1, <1>2, <1>3, <1>4, <1>5, <1>6, <1>8, <1>9, <1>10, <1>11, <1>12
     DEF OptimizerNext, OptimizerStep

-----------------------------------------------------------------------------
(* The rows of an ingestion have lengths, and so have the legs             *)

Rows(t) == /\ t = [nodes |-> t.nodes, edges |-> t.edges]
           /\ Measured(t.edges)

IsGraph(g) == /\ IsFiniteSet(g.nodes) /\ g.nodes \subseteq Nat
              /\ Measured(g.edges)

MapInv ==
    /\ Rows(pending) /\ Rows(tables) /\ Rows(committed)
    /\ IsGraph(graph)

LEMMA BuiltEdgesAreMeasured ==
    ASSUME NEW nodes, Located(nodes)
    PROVE  Measured(BuildEdges(nodes))
<1>1. ASSUME NEW from \in DOMAIN nodes, NEW to \in DOMAIN nodes
      PROVE  Edge(nodes, from, to).distanceM \in Nat
  <2>1. nodes[from] \in Int /\ nodes[to] \in Int
    BY DEF Located
  <2> QED
    BY <2>1 DEF Edge
<1>2. ASSUME NEW way \in ways, NEW e \in EdgesOf(way, nodes)
      PROVE  e.distanceM \in Nat
  <2>1. \E k \in 1 .. Len(way.refs) - 1 :
            /\ way.refs[k] \in DOMAIN nodes /\ way.refs[k + 1] \in DOMAIN nodes
            /\ \/ e = Edge(nodes, way.refs[k], way.refs[k + 1])
               \/ e = Edge(nodes, way.refs[k + 1], way.refs[k])
    BY <1>2 DEF EdgesOf
  <2> QED
    BY <1>1, <2>1
<1> QED
  BY <1>2 DEF BuildEdges, Measured

LEMMA IngestionKeepsMap ==
    ASSUME IngestionInv, MapInv, UNCHANGED graph,
           \/ \E file \in Extracts : StartIngestion(file)
           \/ IngestionStep
           \/ IngestionFault
           \/ UNCHANGED ingestionVars
    PROVE  MapInv'
<1>1. CASE UNCHANGED <<pending, tables, committed>>
  BY <1>1 DEF MapInv, Rows, Measured
<1>2. CASE TruncateTables
  <2>1. Measured(BuildEdges(resolved))
    BY BuiltEdgesAreMeasured DEF IngestionInv
  <2>2. /\ pending' = [nodes |-> resolved, edges |-> BuildEdges(resolved)]
        /\ tables' = NoRows /\ committed' = committed
    BY <1>2 DEF TruncateTables
  <2>3. Rows(pending') /\ Rows(tables')
    BY <2>1, <2>2 DEF Rows, NoRows, Measured
  <2> QED
    BY <2>2, <2>3 DEF MapInv
<1>3. CASE InsertNodes
  <2>1. PICK batch :
            /\ tables' = [tables EXCEPT !.nodes = Over(Restrict(pending.nodes, batch), @)]
            /\ pending' = [pending EXCEPT !.nodes = Restrict(@, DOMAIN @ \ batch)]
    BY <1>3 DEF InsertNodes
  <2>2. Rows(pending') /\ Rows(tables')
    BY <2>1 DEF MapInv, Rows, Measured
  <2> QED
    BY <1>3, <2>2 DEF InsertNodes, MapInv, Measured
<1>4. CASE InsertEdges
  <2>1. PICK batch \in Batches(pending.edges) :
            /\ tables' = [tables EXCEPT !.edges = @ \cup batch]
            /\ pending' = [pending EXCEPT !.edges = @ \ batch]
    BY <1>4 DEF InsertEdges
  <2>2. batch \subseteq pending.edges
    BY DEF Batches, kSubset
  <2>3. Rows(pending') /\ Rows(tables')
    BY <2>1, <2>2 DEF MapInv, Rows, Measured
  <2> QED
    BY <1>4, <2>3 DEF InsertEdges, MapInv, Measured
<1>5. CASE Commit
  BY <1>5 DEF Commit, MapInv, Rows, Measured
<1>6. CASE Rollback \/ KillIngestion
  BY <1>6 DEF Rollback, KillIngestion, MapInv, Rows, Measured
<1> QED
  BY <1>1, <1>2, <1>3, <1>4, <1>5, <1>6
     DEF StartIngestion, IngestionStep, IngestionFault, StreamData, StreamEnd, StreamError,
         ConsumeBatch, WaitForEvent, FinishPass, FailPass, BeginTransaction, StatementRefused,
         ingestionVars

-----------------------------------------------------------------------------
LEMMA DistanceIsNatural ==
    ASSUME NEW g, IsGraph(g), NEW from, NEW to, \E e \in g.edges : e.from = from /\ e.to = to
    PROVE  DistanceM(g, from, to) \in Nat
<1> DEFINE S == {e.distanceM : e \in {e \in g.edges : e.from = from /\ e.to = to}}
<1>1. S \in SUBSET Nat /\ S # {}
  BY DEF IsGraph, Measured
<1> HIDE DEF S
<1>2. Min(S) \in S
  BY <1>1, LeastNatural DEF Min
<1> QED
  BY <1>1, <1>2 DEF DistanceM, S

EdgeLengths(g, p) == [k \in 1 .. Len(p) - 1 |-> DistanceM(g, p[k], p[k + 1])]

LEMMA PathLengthAddsUp ==
    ASSUME NEW g, IsGraph(g), NEW p, Joined(g, p), Len(p) \in Nat \ {0}
    PROVE  \E f : AddsUp(Len(p) - 1, EdgeLengths(g, p), f) /\ PathLength(g, p) = f[Len(p) - 1]
<1> DEFINE n == Len(p) - 1
           d == EdgeLengths(g, p)
           f == CHOOSE h : h = [k \in 0 .. n |->
                    IF k = 0 THEN 0 ELSE h[k - 1] + DistanceM(g, p[k], p[k + 1])]
           h == CHOOSE h : h = [k \in 0 .. n |-> IF k = 0 THEN 0 ELSE h[k - 1] + d[k]]
<1>1. n \in Nat
  OBVIOUS
<1>2. \A k \in 1 .. n : d[k] \in Nat
  BY DistanceIsNatural DEF Joined, EdgeLengths
<1>3. \A x : [k \in 0 .. n |-> IF k = 0 THEN 0 ELSE x[k - 1] + DistanceM(g, p[k], p[k + 1])]
             = [k \in 0 .. n |-> IF k = 0 THEN 0 ELSE x[k - 1] + d[k]]
  <2>1. \A k \in 0 .. n : k # 0 => d[k] = DistanceM(g, p[k], p[k + 1])
    BY <1>1 DEF EdgeLengths
  <2> HIDE DEF d
  <2> QED
    BY <2>1
<1>4. f = h
  BY <1>3
<1>5. AddsUp(n, d, h)
  <2> HIDE DEF d, n
  <2> QED
    BY <1>1, <1>2, AddingUp
<1> HIDE DEF h
<1>6. PathLength(g, p) = f[n]
  BY DEF PathLength
<1> QED
  BY <1>4, <1>5, <1>6

LEMMA PathLengthIsNatural ==
    ASSUME NEW g, IsGraph(g), NEW p, Joined(g, p), Len(p) \in Nat \ {0}
    PROVE  PathLength(g, p) \in Nat
<1>1. PICK f : AddsUp(Len(p) - 1, EdgeLengths(g, p), f) /\ PathLength(g, p) = f[Len(p) - 1]
  BY PathLengthAddsUp
<1>2. Len(p) - 1 \in 0 .. Len(p) - 1
  OBVIOUS
<1> QED
  BY <1>1, <1>2 DEF AddsUp

\* A path from a to b on a graph.
Connects(S, p, a, b) ==
    p \in Seq(S) /\ Len(p) \in Nat \ {0} /\ p[1] = a /\ p[Len(p)] = b

IsPath(g, p, a, b) == Connects(g.nodes, p, a, b) /\ Joined(g, p)

Middles(g, a, b) == UNION {SetToSeqs(S) : S \in SUBSET (g.nodes \ {a, b})}

LEMMA MiddlesAreSequences ==
    ASSUME NEW g, IsGraph(g), NEW a, NEW b, NEW m \in Middles(g, a, b)
    PROVE  m \in Seq(g.nodes)
<1>1. PICK S \in SUBSET (g.nodes \ {a, b}) : m \in SetToSeqs(S)
  BY DEF Middles
<1>2. Cardinality(S) \in Nat
  BY FS_Subset, FS_CardinalityType DEF IsGraph
<1>3. m \in Seq(S)
  BY <1>1, <1>2 DEF SetToSeqs
<1> QED
  BY <1>3

LEMMA Standstill ==
    ASSUME NEW S, NEW a \in S
    PROVE  Connects(S, <<a>>, a, a)
BY DEF Connects

LEMMA ThroughTheMiddle ==
    ASSUME NEW S, NEW a \in S, NEW b \in S, NEW m \in Seq(S)
    PROVE  Connects(S, <<a>> \o m \o <<b>>, a, b)
BY DEF Connects

\* What a search returns is a path and its length.
LEMMA FoundLeg ==
    ASSUME NEW g, IsGraph(g), NEW a, NEW b,
           \/ FindShortestPath(g, a, b) # NoRoute
           \/ /\ {a, b} \subseteq g.nodes
              /\ a = b \/ \E m \in Middles(g, a, b) : Joined(g, <<a>> \o m \o <<b>>)
    PROVE  /\ FindShortestPath(g, a, b) # NoRoute
           /\ \E p : /\ IsPath(g, p, a, b) /\ PathLength(g, p) \in Nat
                     /\ FindShortestPath(g, a, b) = [distanceM |-> PathLength(g, p), path |-> p]
<1> DEFINE paths == IF a = b THEN {<<a>>}
                    ELSE {p \in {<<a>> \o m \o <<b>> : m \in Middles(g, a, b)} : Joined(g, p)}
           legsFound == {[distanceM |-> PathLength(g, p), path |-> p] : p \in paths}
           Best(leg) == \A other \in legsFound : leg.distanceM <= other.distanceM
<1>0. a \in g.nodes /\ b \in g.nodes
  BY DEF FindShortestPath
<1>1. paths # {} /\ FindShortestPath(g, a, b) = CHOOSE leg \in legsFound : Best(leg)
  BY DEF FindShortestPath, Middles
<1>2. \A p \in paths : IsPath(g, p, a, b) /\ PathLength(g, p) \in Nat
  <2> SUFFICES ASSUME NEW p, p \in paths
               PROVE  IsPath(g, p, a, b) /\ PathLength(g, p) \in Nat
    OBVIOUS
  <2>1. CASE a = b
    <3>1. p = <<a>>
      BY <2>1
    <3> HIDE DEF paths, legsFound
    <3>2. Connects(g.nodes, p, a, b)
      BY <1>0, <2>1, <3>1, Standstill
    <3>3. Joined(g, p)
      BY <3>1 DEF Joined
    <3>4. PathLength(g, p) \in Nat
      BY <3>2, <3>3, PathLengthIsNatural DEF Connects
    <3> QED
      BY <3>2, <3>3, <3>4 DEF IsPath
  <2>2. CASE a # b
    <3>1. PICK m \in Middles(g, a, b) : p = <<a>> \o m \o <<b>> /\ Joined(g, p)
      BY <2>2
    <3> HIDE DEF paths, legsFound
    <3>2. Connects(g.nodes, <<a>> \o m \o <<b>>, a, b)
      BY <1>0, MiddlesAreSequences, ThroughTheMiddle
    <3>3. Connects(g.nodes, p, a, b)
      BY <3>1, <3>2
    <3>4. PathLength(g, p) \in Nat
      BY <3>1, <3>3, PathLengthIsNatural DEF Connects
    <3> QED
      BY <3>1, <3>3, <3>4 DEF IsPath
  <2> QED
    BY <2>1, <2>2
<1> HIDE DEF paths
<1>3. legsFound # {} /\ \A leg \in legsFound : leg.distanceM \in Nat
  <2>1. PICK p : p \in paths
    BY <1>1
  <2>2. [distanceM |-> PathLength(g, p), path |-> p] \in legsFound
    BY <2>1
  <2>3. \A leg \in legsFound : leg.distanceM \in Nat
    BY <1>2
  <2> QED
    BY <2>2, <2>3
<1>4. ASSUME NEW leg \in legsFound
      PROVE  /\ leg # NoRoute
             /\ \E p : /\ IsPath(g, p, a, b) /\ PathLength(g, p) \in Nat
                       /\ leg = [distanceM |-> PathLength(g, p), path |-> p]
  <2>1. PICK p \in paths : leg = [distanceM |-> PathLength(g, p), path |-> p]
    OBVIOUS
  <2> HIDE DEF legsFound
  <2>2. IsPath(g, p, a, b) /\ PathLength(g, p) \in Nat
    BY <1>2
  <2>3. p \in Seq(Nat)
    BY <2>2 DEF IsPath, Connects, IsGraph
  <2>4. leg \in [distanceM : Nat, path : Seq(Nat)]
    BY <2>1, <2>2, <2>3
  <2> QED
    BY <2>1, <2>2, <2>4, RequestsAssumption
<1> DEFINE lengths == {leg.distanceM : leg \in legsFound}
<1> HIDE DEF legsFound
<1>5. lengths \in SUBSET Nat /\ lengths # {}
  BY <1>3
<1>6. \E leg \in legsFound : Best(leg)
  <2>1. PICK x \in lengths : \A y \in lengths : x <= y
    BY <1>5, LeastNatural
  <2> QED
    BY <2>1
<1>7. FindShortestPath(g, a, b) \in legsFound
  <2> HIDE DEF Best
  <2> QED
    BY <1>1, <1>6
<1> QED
  BY <1>4, <1>7

-----------------------------------------------------------------------------
(* Local optimality                                                        *)

SearchedInv == RequestInv /\ MapInv /\ SwapInv

LEMMA SearchedInvInit == Init => SearchedInv
<1> SUFFICES ASSUME Init PROVE SearchedInv
  OBVIOUS
<1>1. RequestInv /\ SwapInv
  BY RequestInvInit, SwapInvInit DEF Init
<1>2. MapInv
  <2>1. Rows(situation.tables)
    BY RequestsAssumption DEF Init, Rows
  <2>2. pending = NoRows /\ tables = situation.tables /\ committed = situation.tables
    BY DEF Init, IngestionInit
  <2>3. graph.nodes = {} /\ graph.edges = {}
    BY DEF Init, NoGraph
  <2>4. Rows(pending)
    BY <2>2 DEF Rows, NoRows, Measured
  <2> QED
    BY <2>1, <2>2, <2>3, <2>4, FS_EmptySet DEF MapInv, IsGraph, Measured
<1> QED
  BY <1>1, <1>2 DEF SearchedInv

LEMMA LoadingKeepsMap ==
    ASSUME SearchedInv, LoadNodes \/ LoadEdges \/ Restart
    PROVE  MapInv'
<1> USE DEF SearchedInv
<1>1. UNCHANGED <<pending, tables, committed>>
  BY DEF LoadNodes, LoadEdges, Restart, ingestionVars
<1>2. CASE LoadNodes
  <2>1. graph'.nodes = DOMAIN tables.nodes /\ graph'.edges = {}
    BY <1>2 DEF LoadNodes, NoGraph
  <2>2. IsFiniteSet(graph'.nodes) /\ graph'.nodes \subseteq Nat
    BY <2>1 DEF RequestInv, IngestionInv, Located
  <2> QED
    BY <1>1, <2>1, <2>2 DEF MapInv, IsGraph, Measured
<1>3. CASE LoadEdges
  <2>1. graph'.nodes = graph.nodes
        /\ graph'.edges = {e \in tables.edges : {e.from, e.to} \subseteq graph.nodes}
    BY <1>3 DEF LoadEdges, RequestInv, GraphInv
  <2> QED
    BY <1>1, <2>1 DEF MapInv, IsGraph, Rows, Measured
<1>4. CASE Restart
  <2>1. graph'.nodes = {} /\ graph'.edges = {}
    BY <1>4 DEF Restart, NoGraph
  <2> QED
    BY <1>1, <2>1, FS_EmptySet DEF MapInv, IsGraph, Measured
<1> QED
  BY <1>2, <1>3, <1>4

\* Every pair of snapped points is searched for.
LEMMA CalledWithMeasuredLegs ==
    ASSUME SearchedInv, CallOptimizer
    PROVE  LegsMeasured'
<1> DEFINE count == StopsOf(request)
<1>1. /\ stopCount' = count
      /\ legs' = [ij \in (0 .. count) \X (1 .. count) |->
                     FindShortestPath(graph, snapped[ij[1] + 1], snapped[ij[2] + 1])]
  BY DEF CallOptimizer, Begin
<1> HIDE DEF count
<1>2. \A i \in 0 .. count, j \in 1 .. count :
          legs'[<<i, j>>] = FindShortestPath(graph, snapped[i + 1], snapped[j + 1])
  BY <1>1
<1>3. ASSUME NEW a, NEW b, FindShortestPath(graph, a, b) # NoRoute
      PROVE  FindShortestPath(graph, a, b).distanceM \in Nat
  <2>1. \E p : /\ PathLength(graph, p) \in Nat
               /\ FindShortestPath(graph, a, b) = [distanceM |-> PathLength(graph, p), path |-> p]
    BY <1>3, FoundLeg DEF SearchedInv, MapInv
  <2> QED
    BY <2>1
<1> QED
  BY <1>1, <1>2, <1>3 DEF LegsMeasured

LEMMA SearchedInvStep == SearchedInv /\ [Next]_vars => SearchedInv'
<1> SUFFICES ASSUME SearchedInv, [Next]_vars PROVE SearchedInv'
  OBVIOUS
<1> USE DEF SearchedInv
<1>1. RequestInv'
  BY RequestInvStep
<1>2. ASSUME UNCHANGED <<graph, ingestionVars>> PROVE MapInv'
  BY <1>2 DEF MapInv, ingestionVars, Rows, Measured
<1>3. ASSUME UNCHANGED optimizerVars PROVE SwapInv'
  BY <1>3, SwapInvStep, SameTour DEF optimizerVars, RequestInv, SwapInv
<1>4. CASE LoadNodes \/ LoadEdges
  BY <1>1, <1>3, <1>4, LoadingKeepsMap DEF LoadNodes, LoadEdges
<1>5. CASE Restart
  <2>1. stage' = "idle" /\ stopCount' = 0
    BY <1>5 DEF Restart
  <2>2. SwapInv'
    BY <2>1 DEF SwapInv, LegsMeasured, HasTour
  <2> QED
    BY <1>1, <1>5, <2>2, LoadingKeepsMap
<1>6. CASE \/ \E r \in situation.requests : ReceiveRequest(r)
           \/ AnswerFromCache \/ MissCache \/ FindRoute \/ StoreAndAnswer
           \/ \E k \in DOMAIN snapped : SnapPoint(k)
           \/ SnapRefused
  <2>1. UNCHANGED <<graph, optimizerVars, ingestionVars>>
    BY <1>6 DEF ReceiveRequest, AnswerFromCache, MissCache, FindRoute, StoreAndAnswer, SnapPoint, SnapRefused,
                HandlerUnchanged
  <2> QED
    BY <1>1, <1>2, <1>3, <2>1
<1>7. CASE CallOptimizer \/ RunOptimizer \/ TakeResult \/ Clock
  <2>1. UNCHANGED <<graph, ingestionVars>> /\ OptimizerNext
    BY <1>7, ComputingKeepsInv DEF CallOptimizer, RunOptimizer, TakeResult, Clock, requestVars
  <2>2. LegsMeasured'
    <3>1. ASSUME UNCHANGED <<stopCount, legs>> PROVE LegsMeasured'
      BY <3>1, SameTour DEF SwapInv
    <3>2. CASE RunOptimizer
      BY <3>1, <3>2 DEF RunOptimizer, OptimizerStep, MeasureInputOrder, VisitNearest, BeginTwoOpt,
                        BeginPass, TryCandidate, StopAtDeadline, EndTwoOpt
    <3> QED
      BY <1>7, <3>1, <3>2, CalledWithMeasuredLegs DEF TakeResult, Return, Clock, DeadlinePasses
  <2> QED
    BY <1>1, <1>2, <2>1, <2>2, SwapInvStep DEF RequestInv
<1>8. CASE Ingest
  <2>1. situation.extracts \subseteq Extracts
    BY RequestsAssumption DEF RequestInv, GraphInv
  <2>2. UNCHANGED <<graph, optimizerVars>>
    BY <1>8 DEF Ingest, requestVars
  <2> QED
    BY <1>1, <1>3, <1>8, <2>1, <2>2, IngestionKeepsMap DEF Ingest, RequestInv
<1>9. CASE UNCHANGED vars
  BY <1>1, <1>2, <1>3, <1>9 DEF vars, requestVars
<1> QED
  BY <1>4, <1>5, <1>6, <1>7, <1>8, <1>9 DEF Next, HandlerStep

LEMMA SearchedInvariance == Spec => []SearchedInv
  BY SearchedInvInit, SearchedInvStep, PTL DEF Spec

\* A tour that is returned before the deadline cannot be made shorter by
\* reversing a part of it, for every road network and number of stops, although
\* the order changes in the middle of a pass over the pairs.
THEOREM LocallyOptimal == Spec => []NoImprovingSwapLeft
<1>1. SearchedInv => NoImprovingSwapLeft
  BY DEF SearchedInv, SwapInv, NoImprovingSwapLeft, NotShorter, HasTour
<1> QED
  BY <1>1, SearchedInvariance, PTL

-----------------------------------------------------------------------------
(* What the two passes have read                                           *)

Item == UNION {ToSet(items) : items \in Batch}

\* What the batches of a file have held, up to each of them.
Reads(file, r) ==
    /\ r \in [0 .. Len(file) -> Seq(Item)]
    /\ r[0] = <<>>
    /\ \A k \in 1 .. Len(file) : r[k] = r[k - 1] \o file[k]

Read(file) == CHOOSE r : Reads(file, r)

LEMMA FilesAreLists ==
    ASSUME NEW file \in Extracts
    PROVE  /\ file \in Seq(Batch) /\ Len(file) \in Nat /\ DOMAIN file = 1 .. Len(file)
           /\ \A k \in 1 .. Len(file) : file[k] \in Batch /\ file[k] \in Seq(Item)
<1>1. file \in Seq(ToSet(file)) /\ \A items \in ToSet(file) : items \in Seq(ToSet(items))
  BY IngestionAssumption DEF IsList
<1>2. ToSet(file) \subseteq Batch
  BY DEF Batch
<1>3. \A items \in ToSet(file) : items \in Batch /\ ToSet(items) \subseteq Item
  BY <1>2 DEF Item
<1>4. \A items \in ToSet(file) : items \in Seq(Item)
  BY <1>1, <1>3
<1>5. Len(file) \in Nat /\ DOMAIN file = 1 .. Len(file) /\ file \in Seq(Batch)
  BY <1>1, <1>2
<1>6. \A k \in 1 .. Len(file) : file[k] \in ToSet(file)
  BY <1>5 DEF ToSet
<1> QED
  BY <1>2, <1>4, <1>5, <1>6

LEMMA ReadIsDefined ==
    ASSUME NEW file \in Extracts
    PROVE  Reads(file, Read(file))
<1> DEFINE n == Len(file)
           step == [k \in 1 .. n |-> [v \in Seq(Item) |-> v \o file[k]]]
<1>1. n \in Nat /\ \A k \in 1 .. n : file[k] \in Seq(Item)
  BY FilesAreLists
<1>2. step \in [1 .. n -> [Seq(Item) -> Seq(Item)]]
  <2>1. \A k \in 1 .. n : \A v \in Seq(Item) : v \o file[k] \in Seq(Item)
    BY <1>1
  <2> HIDE DEF n
  <2> QED
    BY <2>1
<1>3. <<>> \in Seq(Item)
  OBVIOUS
<1>4. PICK r : Iterates(n, Seq(Item), <<>>, step, r)
  <2> HIDE DEF n, step
  <2> QED
    BY <1>1, <1>2, <1>3, Iteration
<1>5. r \in [0 .. n -> Seq(Item)] /\ r[0] = <<>>
  BY <1>4 DEF Iterates
<1>6. ASSUME NEW k \in 1 .. n PROVE r[k] = r[k - 1] \o file[k]
  <2>1. r[k] = step[k][r[k - 1]]
    <3> HIDE DEF n, step
    <3> QED
      BY <1>4 DEF Iterates
  <2>2. k - 1 \in 0 .. n
    BY <1>1
  <2>3. r[k - 1] \in Seq(Item)
    BY <1>5, <2>2
  <2> HIDE DEF n
  <2> QED
    BY <2>1, <2>3
<1>8. Reads(file, r)
  BY <1>5, <1>6 DEF Reads
<1> QED
  BY <1>8 DEF Read

\* In the end all batches have been read.
LEMMA ReadAll ==
    ASSUME NEW file \in Extracts
    PROVE  Read(file)[Len(file)] = FlattenSeq(file)
<1> DEFINE n == Len(file)
           r == Read(file)
           Flattens(f) == f = [i \in 1 .. n |-> IF i = 1 THEN file[i] ELSE f[i - 1] \o file[i]]
           f == CHOOSE f : Flattens(f)
<1>1. n \in Nat /\ \A k \in 1 .. n : file[k] \in Seq(Item)
  BY FilesAreLists
<1>2. /\ r \in [0 .. n -> Seq(Item)] /\ r[0] = <<>>
      /\ \A k \in 1 .. n : r[k] = r[k - 1] \o file[k]
  BY ReadIsDefined DEF Reads
<1>3. CASE n = 0
  <2>1. file = <<>>
    BY <1>3, FilesAreLists
  <2> QED
    BY <1>2, <1>3, <2>1 DEF FlattenSeq
<1>4. CASE n # 0
  <2>0. FlattenSeq(file) = f[n]
    BY <1>4 DEF FlattenSeq
  <2> HIDE DEF n, r
  <2>1. r[1] = file[1]
    <3>1. 1 \in 1 .. n /\ r[1] = <<>> \o file[1] /\ file[1] \in Seq(Item)
      <4>1. 1 \in 1 .. n
        BY <1>1, <1>4
      <4>2. 1 - 1 = 0
        OBVIOUS
      <4> QED
        BY <1>1, <1>2, <4>1, <4>2
    <3> QED
      BY <3>1
  <2>2. Flattens([i \in 1 .. n |-> r[i]])
    <3>1. ASSUME NEW i \in 1 .. n, i # 1 PROVE i - 1 \in 1 .. n /\ r[i] = r[i - 1] \o file[i]
      <4>1. i - 1 \in 1 .. n
        BY <1>1, <3>1
      <4>2. r[i] = r[i - 1] \o file[i]
        BY <1>2
      <4> QED
        BY <4>1, <4>2
    <3> QED
      BY <2>1, <3>1
  <2>3. Flattens(f)
    <3> HIDE DEF Flattens
    <3> QED
      BY <2>2
  <2> DEFINE same == {k \in 0 .. n : k = 0 \/ f[k] = r[k]}
  <2>4. 0 \in same
    BY <1>1
  <2>5. ASSUME NEW k \in 1 .. n, k - 1 \in same PROVE k \in same
    <3>1. f[k] = IF k = 1 THEN file[k] ELSE f[k - 1] \o file[k]
      BY <2>3
    <3> HIDE DEF f
    <3>2. CASE k = 1
      BY <1>1, <2>1, <3>1, <3>2
    <3>3. CASE k # 1
      <4>1. f[k - 1] = r[k - 1] /\ k \in 0 .. n
        BY <1>1, <2>5, <3>3
      <4> QED
        BY <1>2, <3>1, <3>3, <4>1
    <3> QED
      BY <3>2, <3>3
  <2> HIDE DEF same
  <2>6. 0 .. n \subseteq same
    BY <1>1, <2>4, <2>5, Induction
  <2>7. f[n] = r[n]
    <3> HIDE DEF f
    <3>1. n \in 0 .. n
      BY <1>1
    <3>2. n \in same
      BY <2>6, <3>1
    <3> QED
      BY <1>4, <3>2 DEF same
  <2> QED
    BY <2>0, <2>7 DEF n, r
<1> QED
  BY <1>3, <1>4

-----------------------------------------------------------------------------
(* Two passes find the graph of a file                                     *)

LEMMA DrivableWaysOfBoth ==
    ASSUME NEW a \in Seq(Item), NEW b \in Seq(Item)
    PROVE  DrivableWays(a \o b) = DrivableWays(a) \cup DrivableWays(b)
<1>1. ToSet(a \o b) = ToSet(a) \cup ToSet(b)
  <2>1. \A i \in DOMAIN a : i \in DOMAIN (a \o b) /\ (a \o b)[i] = a[i]
    OBVIOUS
  <2>2. \A i \in DOMAIN b : Len(a) + i \in DOMAIN (a \o b) /\ (a \o b)[Len(a) + i] = b[i]
    OBVIOUS
  <2>3. \A i \in DOMAIN (a \o b) : \/ i \in DOMAIN a /\ (a \o b)[i] = a[i]
                                   \/ i - Len(a) \in DOMAIN b /\ (a \o b)[i] = b[i - Len(a)]
    OBVIOUS
  <2> DEFINE ab == a \o b
  <2> HIDE DEF ab
  <2>4. ASSUME NEW x \in ToSet(ab) PROVE x \in ToSet(a) \cup ToSet(b)
    BY <2>3 DEF ToSet, ab
  <2>5. ASSUME NEW x \in ToSet(a) \cup ToSet(b) PROVE x \in ToSet(ab)
    BY <2>1, <2>2 DEF ToSet, ab
  <2> QED
    BY <2>4, <2>5 DEF ab
<1> QED
  BY <1>1 DEF DrivableWays

\* The last element of items that is the node id.
IsLastOf(items, i, id) ==
    /\ i \in DOMAIN items /\ items[i].type = "node" /\ items[i].id = id
    /\ \A j \in DOMAIN items : items[j].type = "node" /\ items[j].id = id => j <= i

Occurs(items, id) == \E i \in DOMAIN items : items[i].type = "node" /\ items[i].id = id

LEMMA LastExists ==
    ASSUME NEW items \in Seq(Item), NEW id, Occurs(items, id)
    PROVE  \E i : IsLastOf(items, i, id)
<1> DEFINE S == {i \in DOMAIN items : items[i].type = "node" /\ items[i].id = id}
<1>1. S \in SUBSET (0 .. Len(items)) /\ S # {} /\ Len(items) \in Nat
  BY DEF Occurs
<1> HIDE DEF S
<1>2. PICK i \in S : \A j \in S : j <= i
  BY <1>1, GreatestBelow
<1> QED
  BY <1>2 DEF S, IsLastOf

LEMMA LastIsGreatest ==
    ASSUME NEW items \in Seq(Item), NEW id, NEW i, IsLastOf(items, i, id)
    PROVE  /\ Max({j \in DOMAIN items : items[j].type = "node" /\ items[j].id = id}) = i
<1> DEFINE S == {j \in DOMAIN items : items[j].type = "node" /\ items[j].id = id}
<1>1. i \in S /\ S \subseteq Nat /\ \A j \in S : j <= i
  BY DEF IsLastOf
<1> HIDE DEF S
<1>2. Max(S) \in S /\ \A j \in S : j <= Max(S)
  BY <1>1 DEF Max
<1>3. Max(S) <= i /\ i <= Max(S) /\ Max(S) \in Nat /\ i \in Nat
  BY <1>1, <1>2
<1>4. Max(S) = i
  BY <1>3
<1> QED
  BY <1>4 DEF S

\* The position of a node is that of its last element.
LEMMA FoundNodesAre ==
    ASSUME NEW items \in Seq(Item)
    PROVE  /\ ReferencedNodes(items) =
                  [id \in {id \in ReferencedNodeIds : Occurs(items, id)} |-> ReferencedNodes(items)[id]]
           /\ \A id \in ReferencedNodeIds : \A i :
                  IsLastOf(items, i, id) => ReferencedNodes(items)[id] = items[i].at
<1> DEFINE found == {i \in DOMAIN items : items[i].type = "node" /\ items[i].id \in ReferencedNodeIds}
           ids == {items[i].id : i \in found}
           at(id) == items[Max({i \in found : items[i].id = id})].at
<1>1. ReferencedNodes(items) = [id \in ids |-> at(id)]
  BY DEF ReferencedNodes
<1>2. ids = {id \in ReferencedNodeIds : Occurs(items, id)}
  BY DEF Occurs
<1>3. ASSUME NEW id \in ReferencedNodeIds, NEW i, IsLastOf(items, i, id)
      PROVE  id \in ids /\ at(id) = items[i].at
  <2>1. id \in ids
    BY <1>3 DEF IsLastOf
  <2>2. {j \in found : items[j].id = id} = {j \in DOMAIN items : items[j].type = "node" /\ items[j].id = id}
    OBVIOUS
  <2> QED
    BY <1>3, <2>1, <2>2, LastIsGreatest
<1> HIDE DEF ids, at
<1>4. \A id \in ids : ReferencedNodes(items)[id] = at(id)
  BY <1>1
<1>5. ReferencedNodes(items) = [id \in ids |-> ReferencedNodes(items)[id]]
  BY <1>1
<1> QED
  BY <1>2, <1>3, <1>4, <1>5

LEMMA FoundInBoth ==
    ASSUME NEW a \in Seq(Item), NEW b \in Seq(Item)
    PROVE  ReferencedNodes(a \o b) = Over(ReferencedNodes(b), ReferencedNodes(a))
<1> DEFINE ab == a \o b
           ids(items) == {id \in ReferencedNodeIds : Occurs(items, id)}
<1>1. ab \in Seq(Item)
  OBVIOUS
<1>2. /\ \A i \in DOMAIN a : i \in DOMAIN ab /\ ab[i] = a[i]
      /\ \A i \in DOMAIN b : Len(a) + i \in DOMAIN ab /\ ab[Len(a) + i] = b[i]
      /\ \A i \in DOMAIN ab : \/ i \in DOMAIN a /\ ab[i] = a[i]
                              \/ i - Len(a) \in DOMAIN b /\ ab[i] = b[i - Len(a)]
      /\ Len(a) \in Nat /\ DOMAIN a = 1 .. Len(a) /\ DOMAIN b \subseteq Nat \ {0}
      /\ DOMAIN ab \subseteq Nat
  OBVIOUS
<1> HIDE DEF ab
<1>3. \A id : Occurs(ab, id) <=> Occurs(a, id) \/ Occurs(b, id)
  <2>1. ASSUME NEW id, Occurs(ab, id) PROVE Occurs(a, id) \/ Occurs(b, id)
    BY <1>2, <2>1 DEF Occurs
  <2>2. ASSUME NEW id, Occurs(a, id) \/ Occurs(b, id) PROVE Occurs(ab, id)
    BY <1>2, <2>2 DEF Occurs
  <2> QED
    BY <2>1, <2>2
<1>4. ASSUME NEW id \in ReferencedNodeIds, Occurs(b, id)
      PROVE  ReferencedNodes(ab)[id] = ReferencedNodes(b)[id]
  <2>1. PICK i : IsLastOf(b, i, id)
    BY <1>4, LastExists
  <2>2. IsLastOf(ab, Len(a) + i, id)
    <3>1. i \in DOMAIN b /\ i \in Nat \ {0} /\ b[i].type = "node" /\ b[i].id = id
      BY <1>2, <2>1 DEF IsLastOf
    <3>2. ASSUME NEW j \in DOMAIN ab, ab[j].type = "node", ab[j].id = id PROVE j <= Len(a) + i
      <4>1. CASE j \in DOMAIN a
        BY <1>2, <3>1, <4>1
      <4>2. CASE j - Len(a) \in DOMAIN b /\ ab[j] = b[j - Len(a)]
        <5>1. j - Len(a) <= i
          BY <2>1, <3>2, <4>2 DEF IsLastOf
        <5> QED
          BY <1>2, <3>1, <5>1
      <4> QED
        BY <1>2, <4>1, <4>2
    <3> QED
      BY <1>2, <3>1, <3>2 DEF IsLastOf
  <2>3. ab[Len(a) + i] = b[i]
    BY <1>2, <2>1 DEF IsLastOf
  <2>4. ReferencedNodes(ab)[id] = ab[Len(a) + i].at
    BY <1>1, <2>2, FoundNodesAre
  <2>5. ReferencedNodes(b)[id] = b[i].at
    BY <2>1, FoundNodesAre
  <2> QED
    BY <2>3, <2>4, <2>5
<1>5. ASSUME NEW id \in ReferencedNodeIds, ~ Occurs(b, id), Occurs(a, id)
      PROVE  ReferencedNodes(ab)[id] = ReferencedNodes(a)[id]
  <2>1. PICK i : IsLastOf(a, i, id)
    BY <1>5, LastExists
  <2>2. IsLastOf(ab, i, id) /\ ab[i] = a[i]
    <3>1. i \in DOMAIN a /\ a[i].type = "node" /\ a[i].id = id
      BY <2>1 DEF IsLastOf
    <3>2. ASSUME NEW j \in DOMAIN ab, ab[j].type = "node", ab[j].id = id PROVE j <= i
      <4>1. j \in DOMAIN a /\ ab[j] = a[j]
        BY <1>2, <1>5, <3>2 DEF Occurs
      <4> QED
        BY <2>1, <3>2, <4>1 DEF IsLastOf
    <3> QED
      BY <1>2, <3>1, <3>2 DEF IsLastOf
  <2>3. ReferencedNodes(ab)[id] = ab[i].at
    BY <1>1, <2>2, FoundNodesAre
  <2>4. ReferencedNodes(a)[id] = a[i].at
    BY <2>1, FoundNodesAre
  <2> QED
    BY <2>2, <2>3, <2>4
<1>6. /\ DOMAIN (ReferencedNodes(a)) = ids(a) /\ DOMAIN (ReferencedNodes(b)) = ids(b)
      /\ ReferencedNodes(ab) = [id \in ids(ab) |-> ReferencedNodes(ab)[id]]
  BY <1>1, FoundNodesAre
<1>7. ids(ab) = ids(b) \cup ids(a)
  BY <1>3
<1>8. \A id \in ids(ab) : ReferencedNodes(ab)[id] =
          IF id \in ids(b) THEN ReferencedNodes(b)[id] ELSE ReferencedNodes(a)[id]
  BY <1>3, <1>4, <1>5
<1>9. Over(ReferencedNodes(b), ReferencedNodes(a)) =
          [id \in ids(b) \cup ids(a) |->
              IF id \in ids(b) THEN ReferencedNodes(b)[id] ELSE ReferencedNodes(a)[id]]
  BY <1>6 DEF Over
<1> HIDE DEF ids
<1> QED
  BY <1>6, <1>7, <1>8, <1>9 DEF ab

\* Two passes over a file find the graph that it describes.
LEMMA TwoPassesFindTheGraph ==
    ASSUME NEW file \in Extracts, ways = DrivableWays(FlattenSeq(file))
    PROVE  [nodes |-> ReferencedNodes(FlattenSeq(file)),
            edges |-> BuildEdges(ReferencedNodes(FlattenSeq(file)))] = GraphOf(file)
<1> DEFINE items == FlattenSeq(file)
           nodes == [id \in {i.id : i \in {j \in ToSet(items) : j.type = "node" /\ j.id \in ReferencedNodeIds}} |->
                    items[Max({k \in DOMAIN items : items[k].type = "node" /\ items[k].id = id})].at]
<1>1. items \in Seq(Item)
  <2>1. Len(file) \in 0 .. Len(file)
    BY FilesAreLists
  <2> QED
    BY <2>1, ReadAll, ReadIsDefined DEF Reads
<1>2. GraphOf(file) = [nodes |-> nodes, edges |-> BuildEdges(nodes)]
  BY DEF GraphOf, ReferencedNodeIds, BuildEdges
<1>3. nodes = ReferencedNodes(items)
  <2> HIDE DEF items
  <2> DEFINE ids == {i.id : i \in {j \in ToSet(items) : j.type = "node" /\ j.id \in ReferencedNodeIds}}
  <2>1. ids = {id \in ReferencedNodeIds : Occurs(items, id)}
    BY DEF ToSet, Occurs
  <2>2. ASSUME NEW id \in ids PROVE nodes[id] = ReferencedNodes(items)[id]
    <3>1. PICK i : IsLastOf(items, i, id)
      BY <1>1, <2>1, LastExists
    <3>2. Max({k \in DOMAIN items : items[k].type = "node" /\ items[k].id = id}) = i
      BY <1>1, <3>1, LastIsGreatest
    <3>3. ReferencedNodes(items)[id] = items[i].at
      BY <1>1, <2>1, <3>1, FoundNodesAre
    <3> QED
      BY <3>2, <3>3
  <2>3. ReferencedNodes(items) = [id \in ids |-> ReferencedNodes(items)[id]]
    BY <1>1, <2>1, FoundNodesAre
  <2>4. nodes = [id \in ids |-> nodes[id]]
    OBVIOUS
  <2> HIDE DEF ids, nodes
  <2> QED
    BY <2>2, <2>3, <2>4
<1> QED
  BY <1>2, <1>3

-----------------------------------------------------------------------------
(* The passes of an ingestion                                              *)

\* Batches of the extract that a pass has taken.
Consumed == emitted - Len(stream.batches)

\* ReferencedNodes, for ways that are found in some state.
NodesOf(found, items) ==
    LET ids == UNION {ToSet(way.refs) : way \in found}
        at == {i \in DOMAIN items : items[i].type = "node" /\ items[i].id \in ids}
    IN [id \in {items[i].id : i \in at} |-> items[Max({i \in at : items[i].id = id})].at]

LEMMA ReferencedNodesAre == \A items : ReferencedNodes(items) = NodesOf(ways, items)
  BY DEF ReferencedNodes, ReferencedNodeIds, NodesOf

StreamInv ==
    /\ extract \in Extracts
    /\ stream = [batches |-> stream.batches, completed |-> stream.completed,
                 failed |-> stream.failed, asleep |-> stream.asleep]
    /\ emitted \in 0 .. Len(extract) /\ Consumed \in 0 .. Len(extract)
    /\ \A k \in DOMAIN stream.batches : stream.batches[k] = extract[Consumed + k]
    /\ stream.completed /\ ~ stream.failed => emitted = Len(extract)

PassInv ==
    /\ Reading => StreamInv
    /\ ingest = "ways" => ways = DrivableWays(Read(extract)[Consumed]) /\ resolved = <<>>
    /\ ingest \in {"nodes", "begin", "truncate"} =>
          extract \in Extracts /\ ways = DrivableWays(FlattenSeq(extract))
    /\ ingest = "nodes" => resolved = NodesOf(ways, Read(extract)[Consumed])
    /\ ingest \in {"begin", "truncate"} => resolved = NodesOf(ways, FlattenSeq(extract))

\* A part of the nodes of a graph.
PartOf(some, all) ==
    /\ some = [id \in DOMAIN some |-> some[id]]
    /\ \A id \in DOMAIN some : id \in DOMAIN all /\ some[id] = all[id]

NodesInv(g) ==
    /\ PartOf(tables.nodes, g.nodes) /\ PartOf(pending.nodes, g.nodes)
    /\ DOMAIN g.nodes \subseteq DOMAIN tables.nodes \cup DOMAIN pending.nodes

Outside == ingest \notin {"insertNodes", "insertEdges", "commit", "rollback"}

TableInv ==
    /\ committed \in {situation.tables} \cup {GraphOf(file) : file \in Extracts}
    /\ Outside => tables = committed
    /\ ingest \in {"insertNodes", "insertEdges", "commit"} => extract \in Extracts
    /\ ingest = "insertNodes" => /\ NodesInv(GraphOf(extract))
                                 /\ tables.edges = {} /\ pending.edges = GraphOf(extract).edges
    /\ ingest = "insertEdges" => /\ tables.nodes = GraphOf(extract).nodes
                                 /\ tables.edges \cup pending.edges = GraphOf(extract).edges
    /\ ingest = "commit" => tables = GraphOf(extract)

ReplaceInv == IngestionInv /\ PassInv /\ TableInv /\ Rows(tables) /\ Rows(pending)

LEMMA NothingFound == ReferencedNodes(<<>>) = <<>> /\ DrivableWays(<<>>) = {}
  BY DEF ReferencedNodes, DrivableWays, ToSet

\* The batch that a pass takes is the next one of the file.
LEMMA TakesNextBatch ==
    ASSUME ReplaceInv, ConsumeBatch
    PROVE  /\ StreamInv' /\ Consumed' = Consumed + 1
           /\ Read(extract)[Consumed] \in Seq(Item) /\ Head(stream.batches) \in Seq(Item)
           /\ Read(extract)[Consumed + 1] = Read(extract)[Consumed] \o Head(stream.batches)
<1>1. /\ StreamInv /\ stream.batches \in Seq(Batch) /\ stream.batches # <<>>
      /\ UNCHANGED <<extract, emitted>> /\ stream' = [stream EXCEPT !.batches = Tail(@)]
  BY DEF ReplaceInv, IngestionInv, PassInv, ConsumeBatch, Awake
<1>2. /\ stream'.batches = Tail(stream.batches)
      /\ stream' = [batches |-> stream'.batches, completed |-> stream'.completed,
                    failed |-> stream'.failed, asleep |-> stream'.asleep]
      /\ stream'.completed = stream.completed /\ stream'.failed = stream.failed
  BY <1>1 DEF StreamInv
<1> DEFINE waiting == stream.batches
<1>3. /\ Len(waiting) \in Nat \ {0} /\ DOMAIN waiting = 1 .. Len(waiting)
      /\ Len(Tail(waiting)) = Len(waiting) - 1 /\ DOMAIN (Tail(waiting)) = 1 .. Len(waiting) - 1
      /\ \A k \in 1 .. Len(waiting) - 1 : Tail(waiting)[k] = waiting[k + 1]
      /\ Head(waiting) = waiting[1]
  BY <1>1
<1> HIDE DEF waiting
<1>4. emitted \in Nat /\ emitted <= Len(extract) /\ Len(extract) \in Nat
  BY <1>1, FilesAreLists DEF StreamInv
<1>5. Consumed' = Consumed + 1 /\ Consumed \in Nat /\ Consumed + Len(waiting) = emitted
  BY <1>1, <1>2, <1>3, <1>4 DEF Consumed, StreamInv, waiting
<1>6. \A k \in DOMAIN stream'.batches : stream'.batches[k] = extract'[Consumed' + k]
  <2>1. ASSUME NEW k \in 1 .. Len(waiting) - 1 PROVE Tail(waiting)[k] = extract[Consumed + 1 + k]
    <3>1. k + 1 \in DOMAIN waiting /\ Consumed + (k + 1) = Consumed + 1 + k
      BY <1>3, <1>5
    <3>2. waiting[k + 1] = extract[Consumed + (k + 1)]
      BY <1>1, <3>1 DEF StreamInv, waiting
    <3> QED
      BY <1>3, <3>1, <3>2
  <2> QED
    BY <1>1, <1>2, <1>3, <1>5, <2>1 DEF waiting
<1>7. StreamInv'
  <2>1. Consumed' \in 0 .. Len(extract')
    BY <1>1, <1>3, <1>4, <1>5
  <2> QED
    BY <1>1, <1>2, <1>6, <2>1 DEF StreamInv
<1>8. /\ Consumed \in 0 .. Len(extract) /\ Consumed + 1 \in 1 .. Len(extract)
      /\ Consumed + 1 - 1 = Consumed
  BY <1>3, <1>4, <1>5
<1>9. Head(waiting) = extract[Consumed + 1]
  <2>1. 1 \in DOMAIN waiting
    BY <1>3
  <2> QED
    BY <1>1, <1>3, <2>1 DEF StreamInv, waiting
<1> DEFINE r == Read(extract)
<1>10. /\ r \in [0 .. Len(extract) -> Seq(Item)]
       /\ \A k \in 1 .. Len(extract) : r[k] = r[k - 1] \o extract[k] /\ extract[k] \in Seq(Item)
  BY <1>1, FilesAreLists, ReadIsDefined DEF Reads, StreamInv
<1> HIDE DEF r
<1>11. r[Consumed] \in Seq(Item)
  BY <1>8, <1>10
<1>12. r[Consumed + 1] = r[Consumed] \o Head(waiting) /\ Head(waiting) \in Seq(Item)
  <2> DEFINE c == Consumed + 1
  <2>1. c \in 1 .. Len(extract) /\ c - 1 = Consumed /\ Head(waiting) = extract[c]
    BY <1>8, <1>9
  <2> HIDE DEF c
  <2>2. r[c] = r[c - 1] \o extract[c] /\ extract[c] \in Seq(Item)
    BY <1>10, <2>1
  <2> QED
    BY <2>1, <2>2 DEF c
<1> QED
  BY <1>5, <1>7, <1>11, <1>12 DEF r, waiting

LEMMA ConsumingKeepsPassInv ==
    ASSUME ReplaceInv, ConsumeBatch
    PROVE  PassInv'
<1> DEFINE sofar == Read(extract)[Consumed]
           items == Head(stream.batches)
<1>1. /\ StreamInv' /\ sofar \in Seq(Item) /\ items \in Seq(Item)
      /\ Read(extract')[Consumed'] = sofar \o items
      /\ ingest \in {"ways", "nodes"} /\ UNCHANGED <<ingest, extract>>
  BY TakesNextBatch DEF ConsumeBatch, Awake, Reading
<1>2. CASE ingest = "ways"
  <2>1. ways' = DrivableWays(sofar) \cup DrivableWays(items) /\ resolved' = <<>>
    BY <1>2 DEF ConsumeBatch, ReplaceInv, PassInv
  <2>2. ways' = DrivableWays(sofar \o items)
    BY <1>1, <2>1, DrivableWaysOfBoth
  <2> QED
    BY <1>1, <1>2, <2>1, <2>2 DEF PassInv
<1>3. CASE ingest = "nodes"
  <2>1. resolved' = Over(ReferencedNodes(items), ReferencedNodes(sofar)) /\ ways' = ways
    BY <1>3, ReferencedNodesAre DEF ConsumeBatch, ReplaceInv, PassInv
  <2>2. resolved' = NodesOf(ways, sofar \o items)
    BY <1>1, <2>1, FoundInBoth, ReferencedNodesAre
  <2>3. resolved' = NodesOf(ways', Read(extract')[Consumed'])
    BY <1>1, <2>1, <2>2
  <2>4. ingest' = "nodes" /\ extract' \in Extracts /\ ways' = DrivableWays(FlattenSeq(extract'))
    BY <1>1, <1>3, <2>1 DEF PassInv, ReplaceInv
  <2> QED
    BY <1>1, <2>3, <2>4 DEF PassInv
<1> QED
  BY <1>1, <1>2, <1>3

LEMMA EventsKeepPassInv ==
    ASSUME ReplaceInv, StreamData \/ StreamEnd \/ StreamError \/ WaitForEvent
    PROVE  PassInv'
<1>1. /\ StreamInv /\ stream.batches \in Seq(Batch)
      /\ Reading /\ UNCHANGED <<ingest, extract, ways, resolved>>
  BY DEF ReplaceInv, IngestionInv, PassInv, StreamData, StreamEnd, StreamError, WaitForEvent, Awake
<1>2. ASSUME StreamInv', Consumed' = Consumed PROVE PassInv'
  BY <1>1, <1>2 DEF ReplaceInv, PassInv, Reading
<1>3. CASE StreamData
  <2> DEFINE waiting == stream.batches
             item == extract[emitted + 1]
  <2>1. /\ stream'.batches = Append(waiting, item) /\ emitted' = emitted + 1
        /\ emitted < Len(extract) /\ ~ stream'.completed
        /\ stream' = [batches |-> stream'.batches, completed |-> stream'.completed,
                      failed |-> stream'.failed, asleep |-> stream'.asleep]
    BY <1>1, <1>3 DEF StreamData, StreamInv
  <2>2. emitted \in Nat /\ Len(extract) \in Nat /\ emitted + 1 \in 1 .. Len(extract)
    BY <1>1, <2>1, FilesAreLists DEF StreamInv
  <2>3. /\ Len(waiting) \in Nat /\ DOMAIN waiting = 1 .. Len(waiting)
        /\ Len(stream'.batches) = Len(waiting) + 1
        /\ DOMAIN stream'.batches = 1 .. Len(waiting) + 1
        /\ stream'.batches[Len(waiting) + 1] = item
        /\ \A k \in 1 .. Len(waiting) : stream'.batches[k] = waiting[k]
    BY <1>1, <2>1
  <2> HIDE DEF waiting, item
  <2>4. Consumed' = Consumed /\ Consumed \in 0 .. Len(extract) /\ Consumed + Len(waiting) = emitted
    BY <1>1, <2>1, <2>2, <2>3 DEF Consumed, StreamInv, waiting
  <2>5. ASSUME NEW k \in 1 .. Len(waiting) + 1 PROVE stream'.batches[k] = extract[Consumed + k]
    <3>1. CASE k = Len(waiting) + 1
      <4>1. Consumed + k = emitted + 1
        BY <2>2, <2>3, <2>4, <3>1
      <4> QED
        BY <2>3, <3>1, <4>1 DEF item
    <3>2. CASE k # Len(waiting) + 1
      <4>1. k \in DOMAIN waiting
        BY <2>3, <3>2
      <4> QED
        BY <1>1, <2>3, <4>1 DEF StreamInv, waiting
    <3> QED
      BY <3>1, <3>2
  <2>6. emitted' \in 0 .. Len(extract)
    BY <2>1, <2>2
  <2>7. StreamInv'
    BY <1>1, <2>1, <2>3, <2>4, <2>5, <2>6 DEF StreamInv
  <2> QED
    BY <1>2, <2>4, <2>7
<1>4. CASE StreamEnd \/ StreamError \/ WaitForEvent
  <2>1. /\ stream'.batches = stream.batches /\ emitted' = emitted
        /\ stream' = [batches |-> stream'.batches, completed |-> stream'.completed,
                      failed |-> stream'.failed, asleep |-> stream'.asleep]
    BY <1>1, <1>4 DEF StreamEnd, StreamError, WaitForEvent, StreamInv
  <2>2. Consumed' = Consumed
    BY <2>1 DEF Consumed
  <2>3. stream'.completed /\ ~ stream'.failed => emitted = Len(extract)
    BY <1>1, <1>4 DEF StreamEnd, StreamError, WaitForEvent, StreamInv
  <2>4. StreamInv'
    BY <1>1, <2>1, <2>2, <2>3 DEF StreamInv
  <2> QED
    BY <1>2, <2>2, <2>4
<1> QED
  BY <1>3, <1>4

\* A file that has just been opened.
LEMMA OpenedStream ==
    ASSUME extract' \in Extracts, emitted' = 0, stream' = Opened
    PROVE  StreamInv' /\ Consumed' = 0 /\ Read(extract')[Consumed'] = <<>>
<1>1. /\ stream'.batches = <<>> /\ Len(stream'.batches) = 0 /\ DOMAIN stream'.batches = {}
      /\ ~ stream'.completed
      /\ stream' = [batches |-> stream'.batches, completed |-> stream'.completed,
                    failed |-> stream'.failed, asleep |-> stream'.asleep]
  BY DEF Opened
<1>2. Consumed' = 0
  <2>1. Len(stream'.batches) = 0 /\ emitted' = 0
    BY <1>1
  <2>2. Consumed' = emitted' - Len(stream'.batches)
    BY DEF Consumed
  <2>3. emitted' - Len(stream'.batches) = 0 - 0
    BY <2>1, Zenon
  <2> QED
    BY <2>2, <2>3
<1>3. 0 \in 0 .. Len(extract') /\ Read(extract')[0] = <<>>
  <2>1. ASSUME NEW file \in Extracts PROVE 0 \in 0 .. Len(file) /\ Read(file)[0] = <<>>
    <3>1. Len(file) \in Nat
      BY FilesAreLists
    <3>2. Read(file)[0] = <<>>
      BY ReadIsDefined DEF Reads
    <3> QED
      BY <3>1, <3>2
  <2> QED
    BY <2>1
<1> QED
  BY <1>1, <1>2, <1>3 DEF StreamInv

\* The end of a pass: all batches were taken.
LEMMA FinishKeepsPassInv ==
    ASSUME ReplaceInv, FinishPass
    PROVE  PassInv'
<1>1. /\ StreamInv /\ stream.batches = <<>> /\ stream.completed /\ ~ stream.failed
      /\ UNCHANGED <<extract, ways, resolved>> /\ emitted' = 0 /\ stream' = Opened
      /\ ingest \in {"ways", "nodes"}
  BY DEF ReplaceInv, PassInv, FinishPass, Awake, Reading
<1>2. Consumed = Len(extract)
  <2>1. emitted = Len(extract) /\ Len(stream.batches) = 0 /\ Len(extract) \in Nat
    BY <1>1, FilesAreLists DEF StreamInv
  <2> QED
    BY <2>1 DEF Consumed
<1>3. Read(extract)[Consumed] = FlattenSeq(extract) /\ extract \in Extracts
  BY <1>1, <1>2, ReadAll DEF StreamInv
<1>4. CASE ingest = "ways"
  <2>1. ingest' = "nodes"
    BY <1>4 DEF FinishPass
  <2>2. /\ StreamInv' /\ Read(extract')[Consumed'] = <<>>
    BY <1>1, <1>3, OpenedStream
  <2>3. ways' = DrivableWays(FlattenSeq(extract')) /\ resolved' = <<>>
    BY <1>1, <1>3, <1>4 DEF ReplaceInv, PassInv
  <2>4. NodesOf(ways', <<>>) = <<>>
    BY DEF NodesOf
  <2> QED
    BY <1>1, <1>3, <2>1, <2>2, <2>3, <2>4 DEF PassInv
<1>5. CASE ingest = "nodes"
  <2>1. ingest' = "begin"
    BY <1>5 DEF FinishPass
  <2>2. ways' = DrivableWays(FlattenSeq(extract')) /\ resolved' = NodesOf(ways', FlattenSeq(extract'))
    BY <1>1, <1>3, <1>5 DEF ReplaceInv, PassInv
  <2> QED
    BY <1>1, <1>3, <2>1, <2>2 DEF PassInv, Reading
<1> QED
  BY <1>1, <1>4, <1>5

LEMMA PassInvStep ==
    ASSUME ReplaceInv,
           \/ \E file \in Extracts : StartIngestion(file)
           \/ IngestionStep
           \/ IngestionFault
           \/ UNCHANGED ingestionVars
    PROVE  PassInv'
<1>1. ASSUME NEW file \in Extracts, StartIngestion(file) PROVE PassInv'
  <2>1. /\ ingest' = "ways" /\ extract' = file /\ emitted' = 0 /\ stream' = Opened
        /\ ways' = {} /\ resolved' = <<>>
    BY <1>1 DEF StartIngestion
  <2>2. StreamInv' /\ Read(extract')[Consumed'] = <<>>
    BY <2>1, OpenedStream
  <2> QED
    BY <2>1, <2>2, NothingFound DEF PassInv
<1>2. CASE FailPass \/ KillIngestion \/ StatementRefused \/ TruncateTables \/ InsertNodes
           \/ InsertEdges \/ Commit \/ Rollback
  <2>1. ingest' \notin {"ways", "nodes", "begin", "truncate"}
    BY <1>2 DEF FailPass, KillIngestion, StatementRefused, TruncateTables, InsertNodes,
                InsertEdges, Commit, Rollback
  <2> QED
    BY <2>1 DEF PassInv, Reading
<1>3. CASE BeginTransaction
  BY <1>3 DEF BeginTransaction, ReplaceInv, PassInv, Reading
<1>4. CASE UNCHANGED ingestionVars
  <2>1. StreamInv' = StreamInv /\ Consumed' = Consumed /\ Reading' = Reading
    BY <1>4 DEF ingestionVars, StreamInv, Consumed, Reading
  <2> QED
    BY <1>4, <2>1 DEF ingestionVars, ReplaceInv, PassInv
<1> QED
  BY <1>1, <1>2, <1>3, <1>4, EventsKeepPassInv, ConsumingKeepsPassInv, FinishKeepsPassInv
     DEF IngestionStep, IngestionFault

-----------------------------------------------------------------------------
(* The replacement of the tables                                           *)

LEMMA PartsOfBoth ==
    ASSUME NEW f, NEW g, NEW all, PartOf(f, all), PartOf(g, all)
    PROVE  PartOf(Over(f, g), all)
  BY DEF PartOf, Over

LEMMA PartOfPart ==
    ASSUME NEW f, NEW all, PartOf(f, all), NEW S \in SUBSET DOMAIN f
    PROVE  PartOf(Restrict(f, S), all)
  BY DEF PartOf, Restrict

LEMMA GraphHasRows ==
    ASSUME NEW file
    PROVE  /\ GraphOf(file) = [nodes |-> GraphOf(file).nodes, edges |-> GraphOf(file).edges]
           /\ GraphOf(file).nodes = [id \in DOMAIN GraphOf(file).nodes |-> GraphOf(file).nodes[id]]
  BY DEF GraphOf

\* A batch of nodes is moved from the rows that wait into the table.
LEMMA InsertingNodesKeepsTables ==
    ASSUME ReplaceInv, UNCHANGED situation, InsertNodes
    PROVE  TableInv'
<1> DEFINE g == GraphOf(extract)
<1>1. /\ ingest = "insertNodes" /\ UNCHANGED <<extract, committed>> /\ extract \in Extracts
      /\ NodesInv(g) /\ tables.edges = {} /\ pending.edges = g.edges
  BY DEF InsertNodes, ReplaceInv, TableInv
<1>2. PICK batch \in Batches(DOMAIN pending.nodes) :
          /\ tables' = [tables EXCEPT !.nodes = Over(Restrict(pending.nodes, batch), @)]
          /\ pending' = [pending EXCEPT !.nodes = Restrict(@, DOMAIN @ \ batch)]
  BY DEF InsertNodes
<1>3. batch \in SUBSET DOMAIN pending.nodes
  BY DEF Batches, kSubset
<1> DEFINE moved == Restrict(pending.nodes, batch)
           left == Restrict(pending.nodes, DOMAIN pending.nodes \ batch)
<1>4. /\ tables'.nodes = Over(moved, tables.nodes) /\ tables'.edges = tables.edges
      /\ pending'.nodes = left /\ pending'.edges = pending.edges
  BY <1>2 DEF ReplaceInv, Rows
<1>5. DOMAIN moved = batch /\ DOMAIN left = DOMAIN pending.nodes \ batch
  BY DEF Restrict
<1>6. PartOf(moved, g.nodes) /\ PartOf(left, g.nodes)
  BY <1>1, <1>3, PartOfPart DEF NodesInv
<1> HIDE DEF moved, left
<1>7. PartOf(tables'.nodes, g.nodes) /\ PartOf(pending'.nodes, g.nodes)
  BY <1>1, <1>4, <1>6, PartsOfBoth DEF NodesInv
<1>8. DOMAIN tables'.nodes = DOMAIN tables.nodes \cup batch
  BY <1>4, <1>5 DEF Over
<1>9. DOMAIN g.nodes \subseteq DOMAIN tables'.nodes \cup DOMAIN pending'.nodes
  BY <1>1, <1>3, <1>4, <1>5, <1>8 DEF NodesInv
<1>10. CASE pending'.nodes = <<>>
  <2>1. DOMAIN tables'.nodes = DOMAIN g.nodes
    <3>1. DOMAIN pending'.nodes = {}
      BY <1>10
    <3> QED
      BY <1>7, <1>9, <3>1 DEF PartOf
  <2>2. tables'.nodes = g.nodes
    <3>1. g.nodes = [id \in DOMAIN g.nodes |-> g.nodes[id]]
      BY GraphHasRows
    <3>2. tables'.nodes = [id \in DOMAIN tables'.nodes |-> tables'.nodes[id]]
          /\ \A id \in DOMAIN tables'.nodes : tables'.nodes[id] = g.nodes[id]
      BY <1>7 DEF PartOf
    <3> HIDE DEF g
    <3> QED
      BY <2>1, <3>1, <3>2
  <2>3. tables'.edges \cup pending'.edges = g.edges /\ ingest' = "insertEdges"
    BY <1>1, <1>4, <1>10 DEF InsertNodes
  <2> QED
    BY <1>1, <2>2, <2>3 DEF TableInv, ReplaceInv, Outside
<1>11. CASE pending'.nodes # <<>>
  <2>1. ingest' = "insertNodes" /\ tables'.edges = {} /\ pending'.edges = g.edges
    BY <1>1, <1>4, <1>11 DEF InsertNodes
  <2>2. NodesInv(g)'
    BY <1>1, <1>7, <1>9 DEF NodesInv
  <2> QED
    BY <1>1, <2>1, <2>2 DEF TableInv, ReplaceInv, Outside
<1> QED
  BY <1>10, <1>11

LEMMA InsertingEdgesKeepsTables ==
    ASSUME ReplaceInv, UNCHANGED situation, InsertEdges
    PROVE  TableInv'
<1> DEFINE g == GraphOf(extract)
<1>1. /\ ingest = "insertEdges" /\ UNCHANGED <<extract, committed>> /\ extract \in Extracts
      /\ tables.nodes = g.nodes /\ tables.edges \cup pending.edges = g.edges
  BY DEF InsertEdges, ReplaceInv, TableInv
<1>2. PICK batch \in Batches(pending.edges) :
          /\ tables' = [tables EXCEPT !.edges = @ \cup batch]
          /\ pending' = [pending EXCEPT !.edges = @ \ batch]
  BY DEF InsertEdges
<1>3. batch \subseteq pending.edges
  BY DEF Batches, kSubset
<1>4. /\ tables' = [nodes |-> g.nodes, edges |-> tables.edges \cup batch]
      /\ pending'.edges = pending.edges \ batch
  BY <1>1, <1>2 DEF ReplaceInv, Rows
<1>5. tables'.nodes = g.nodes /\ tables'.edges \cup pending'.edges = g.edges
  BY <1>1, <1>3, <1>4
<1>6. CASE pending'.edges = {}
  <2>1. ingest' = "commit" /\ tables' = g
    BY <1>1, <1>4, <1>5, <1>6, GraphHasRows DEF InsertEdges
  <2> QED
    BY <1>1, <2>1 DEF TableInv, ReplaceInv, Outside
<1>7. CASE pending'.edges # {}
  <2>1. ingest' = "insertEdges"
    BY <1>7 DEF InsertEdges
  <2> QED
    BY <1>1, <1>5, <2>1 DEF TableInv, ReplaceInv, Outside
<1> QED
  BY <1>6, <1>7

LEMMA TruncatingKeepsTables ==
    ASSUME ReplaceInv, UNCHANGED situation, TruncateTables
    PROVE  TableInv'
<1> DEFINE g == GraphOf(extract)
<1>1. /\ ingest' = "insertNodes" /\ tables' = NoRows /\ UNCHANGED <<extract, committed>>
      /\ pending' = [nodes |-> resolved, edges |-> BuildEdges(resolved)]
      /\ extract \in Extracts /\ ways = DrivableWays(FlattenSeq(extract))
      /\ resolved = ReferencedNodes(FlattenSeq(extract))
  BY ReferencedNodesAre DEF TruncateTables, ReplaceInv, PassInv
<1>2. pending' = g
  BY <1>1, TwoPassesFindTheGraph
<1>3. tables'.nodes = <<>> /\ tables'.edges = {}
  BY <1>1 DEF NoRows
<1>4. PartOf(<<>>, g.nodes)
  BY DEF PartOf
<1>5. PartOf(g.nodes, g.nodes)
  BY GraphHasRows DEF PartOf
<1>6. NodesInv(g)'
  BY <1>1, <1>2, <1>3, <1>4, <1>5 DEF NodesInv
<1> QED
  BY <1>1, <1>2, <1>3, <1>6 DEF TableInv, ReplaceInv, Outside

LEMMA TableInvStep ==
    ASSUME ReplaceInv, UNCHANGED situation,
           \/ \E file \in Extracts : StartIngestion(file)
           \/ IngestionStep
           \/ IngestionFault
           \/ UNCHANGED ingestionVars
    PROVE  TableInv'
<1> USE DEF ReplaceInv, TableInv, Outside
<1>1. ASSUME UNCHANGED <<tables, committed>>,
             ingest' \notin {"insertNodes", "insertEdges", "commit", "rollback"},
             ingest \notin {"insertNodes", "insertEdges", "commit", "rollback"}
      PROVE  TableInv'
  BY <1>1
<1>2. ASSUME NEW file \in Extracts, StartIngestion(file) PROVE TableInv'
  BY <1>1, <1>2 DEF StartIngestion
<1>3. CASE \/ StreamData \/ StreamEnd \/ StreamError \/ ConsumeBatch \/ WaitForEvent
           \/ FinishPass \/ FailPass \/ BeginTransaction
  BY <1>1, <1>3 DEF StreamData, StreamEnd, StreamError, ConsumeBatch, WaitForEvent, FinishPass,
                    FailPass, BeginTransaction, Awake, Reading
<1>4. CASE StatementRefused
  BY <1>4 DEF StatementRefused
<1>5. CASE Commit
  BY <1>5 DEF Commit
<1>6. CASE Rollback \/ KillIngestion
  BY <1>6 DEF Rollback, KillIngestion
<1>7. CASE UNCHANGED ingestionVars
  BY <1>7 DEF ingestionVars, NodesInv
<1> QED
  BY <1>2, <1>3, <1>4, <1>5, <1>6, <1>7, TruncatingKeepsTables, InsertingNodesKeepsTables,
     InsertingEdgesKeepsTables
     DEF IngestionStep, IngestionFault

AtomicInv == SearchedInv /\ PassInv /\ TableInv

LEMMA AtomicInvInit == Init => AtomicInv
<1> SUFFICES ASSUME Init PROVE AtomicInv
  OBVIOUS
<1>1. ingest = "idle" /\ tables = situation.tables /\ committed = situation.tables
  BY DEF Init, IngestionInit
<1> QED
  BY <1>1, SearchedInvInit DEF AtomicInv, PassInv, TableInv, Outside, Reading

LEMMA AtomicInvStep == AtomicInv /\ [Next]_vars => AtomicInv'
<1> SUFFICES ASSUME AtomicInv, [Next]_vars PROVE AtomicInv'
  OBVIOUS
<1>1. SearchedInv'
  BY SearchedInvStep DEF AtomicInv
<1>2. ReplaceInv
  BY DEF AtomicInv, SearchedInv, RequestInv, MapInv, ReplaceInv
<1>3. situation' = situation
  BY DEF Next, LoadNodes, LoadEdges, Restart, ReceiveRequest, HandlerStep, AnswerFromCache, MissCache,
         SnapPoint, SnapRefused, FindRoute, CallOptimizer, RunOptimizer, TakeResult, StoreAndAnswer, Clock, Ingest,
         HandlerUnchanged, requestVars, vars
<1>4. CASE Ingest
  <2>1. situation.extracts \subseteq Extracts
    BY RequestsAssumption DEF AtomicInv, SearchedInv, RequestInv, GraphInv
  <2> QED
    BY <1>1, <1>2, <1>3, <1>4, <2>1, PassInvStep, TableInvStep DEF Ingest, AtomicInv
<1>5. CASE UNCHANGED ingestionVars
  BY <1>1, <1>2, <1>3, <1>5, PassInvStep, TableInvStep DEF AtomicInv
<1>6. Ingest \/ UNCHANGED ingestionVars
  BY DEF Next, LoadNodes, LoadEdges, Restart, ReceiveRequest, HandlerStep, AnswerFromCache, MissCache,
         SnapPoint, SnapRefused, FindRoute, CallOptimizer, RunOptimizer, TakeResult, StoreAndAnswer, Clock,
         HandlerUnchanged, requestVars, vars
<1> QED
  BY <1>4, <1>5, <1>6

LEMMA AtomicInvariance == Spec => []AtomicInv
  BY AtomicInvInit, AtomicInvStep, PTL DEF Spec

\* Whoever reads the road tables finds what was there before or all that one
\* file describes, for all files and however they are cut into batches,
\* whatever the parser, the database and the process do in between.
THEOREM ReplacedAtomically == Spec => []ReplacementIsAtomic
<1>1. AtomicInv => ReplacementIsAtomic
  <2> SUFFICES ASSUME AtomicInv, ~ Locked PROVE ReplacementIsAtomic
    BY DEF ReplacementIsAtomic, ReplacesAllOrNothing
  <2>1. tables = committed
    BY DEF AtomicInv, TableInv, Outside, Locked
  <2> QED
    BY <2>1 DEF AtomicInv, TableInv, ReplacementIsAtomic, ReplacesAllOrNothing
<1> QED
  BY <1>1, AtomicInvariance, PTL

-----------------------------------------------------------------------------
(* Paths between the nodes of a component                                  *)

EndsKnown(g) == \A e \in g.edges : e.from \in g.nodes /\ e.to \in g.nodes

\* What a search needs to find a leg.
LegExists(g, a, b) ==
    /\ {a, b} \subseteq g.nodes
    /\ a = b \/ \E m \in Middles(g, a, b) : Joined(g, <<a>> \o m \o <<b>>)

IsSimplePath(g, p, a, b) == IsPath(g, p, a, b) /\ NoStopTwice(p)

LEMMA PathStops ==
    ASSUME NEW g, NEW a \in g.nodes
    PROVE  IsSimplePath(g, <<a>>, a, a)
<1>1. Connects(g.nodes, <<a>>, a, a)
  BY Standstill
<1>2. Len(<<a>>) = 1 /\ DOMAIN <<a>> = {1}
  OBVIOUS
<1> QED
  BY <1>1, <1>2 DEF IsSimplePath, IsPath, Joined, NoStopTwice

LEMMA FunctionIsSequence ==
    ASSUME NEW S, NEW n \in Nat, NEW q \in [1 .. n -> S]
    PROVE  q \in Seq(S) /\ Len(q) = n
OBVIOUS

LEMMA LongerSequence ==
    ASSUME NEW S, NEW p \in Seq(S), Len(p) \in Nat \ {0}, NEW x \in S
    PROVE  LET q == Append(p, x)
           IN  /\ Connects(S, q, p[1], x) /\ Len(q) = Len(p) + 1 /\ DOMAIN q = 1 .. Len(p) + 1
               /\ q[Len(p) + 1] = x /\ \A i \in 1 .. Len(p) : q[i] = p[i]
BY DEF Connects

\* A path goes on along an edge, or has been at its end before.
LEMMA PathGoesOn ==
    ASSUME NEW g, EndsKnown(g), NEW a, NEW e \in g.edges, NEW p, IsSimplePath(g, p, a, e.from)
    PROVE  \E q : IsSimplePath(g, q, a, e.to)
<1> DEFINE n == Len(p)
<1>1. /\ p \in Seq(g.nodes) /\ n \in Nat \ {0} /\ DOMAIN p = 1 .. n
      /\ p[1] = a /\ p[n] = e.from /\ e.to \in g.nodes
      /\ \A k \in 1 .. n - 1 : \E d \in g.edges : d.from = p[k] /\ d.to = p[k + 1]
      /\ \A i, j \in 1 .. n : p[i] = p[j] => i = j
      /\ \A k \in 1 .. n : p[k] \in g.nodes
  BY DEF IsSimplePath, IsPath, Connects, Joined, NoStopTwice, EndsKnown
<1>2. ASSUME NEW k \in 1 .. n, p[k] = e.to PROVE \E q : IsSimplePath(g, q, a, e.to)
  <2> DEFINE q == [i \in 1 .. k |-> p[i]]
  <2>1. /\ Connects(g.nodes, q, p[1], p[k])
        /\ Len(q) = k /\ DOMAIN q = 1 .. k /\ \A i \in 1 .. k : q[i] = p[i]
    <3>1. k \in Nat \ {0} /\ \A i \in 1 .. k : i \in 1 .. n
      BY <1>1
    <3>2. q \in [1 .. k -> g.nodes] /\ \A i \in 1 .. k : q[i] = p[i]
      BY <1>1, <3>1
    <3> HIDE DEF q, n
    <3>3. 1 \in 1 .. k /\ k \in 1 .. k
      BY <3>1
    <3>4. DOMAIN q = 1 .. k
      BY <3>2
    <3>5. q \in Seq(g.nodes) /\ Len(q) = k
      <4>1. k \in Nat /\ q \in [1 .. k -> g.nodes]
        BY <3>1, <3>2
      <4> QED
        BY <4>1, FunctionIsSequence
    <3> QED
      BY <3>1, <3>2, <3>3, <3>4, <3>5 DEF Connects
  <2> HIDE DEF q, n
  <2>2. Joined(g, q)
    <3>1. \A i \in 1 .. k - 1 : i \in 1 .. n - 1 /\ i \in 1 .. k /\ i + 1 \in 1 .. k
      BY <1>1
    <3>2. \A i \in 1 .. k - 1 : q[i] = p[i] /\ q[i + 1] = p[i + 1]
      BY <2>1, <3>1
    <3>3. \A i \in 1 .. k - 1 : \E d \in g.edges : d.from = q[i] /\ d.to = q[i + 1]
      BY <1>1, <3>1, <3>2
    <3>4. Len(q) = k
      BY <2>1
    <3> QED
      BY <3>3, <3>4 DEF Joined
  <2>3. NoStopTwice(q)
    BY <1>1, <2>1 DEF NoStopTwice
  <2> QED
    BY <1>1, <1>2, <2>1, <2>2, <2>3 DEF IsSimplePath, IsPath
<1>3. ASSUME \A k \in 1 .. n : p[k] # e.to PROVE \E q : IsSimplePath(g, q, a, e.to)
  <2> DEFINE q == Append(p, e.to)
  <2>1. /\ Connects(g.nodes, q, p[1], e.to) /\ Len(q) = n + 1 /\ DOMAIN q = 1 .. n + 1
        /\ q[n + 1] = e.to /\ \A i \in 1 .. n : q[i] = p[i]
    BY <1>1, LongerSequence
  <2> HIDE DEF q, n
  <2>2. ASSUME NEW i \in 1 .. n PROVE \E d \in g.edges : d.from = q[i] /\ d.to = q[i + 1]
    <3>1. CASE i = n
      BY <1>1, <2>1, <3>1
    <3>2. CASE i # n
      <4>1. i \in 1 .. n - 1 /\ i + 1 \in 1 .. n
        BY <1>1, <3>2
      <4>2. q[i] = p[i] /\ q[i + 1] = p[i + 1]
        BY <2>1, <4>1
      <4> QED
        BY <1>1, <4>1, <4>2
    <3> QED
      BY <3>1, <3>2
  <2>3. Joined(g, q)
    <3>1. Len(q) - 1 = n
      BY <1>1, <2>1
    <3> QED
      BY <2>2, <3>1 DEF Joined
  <2>4. NoStopTwice(q)
    BY <1>1, <1>3, <2>1 DEF NoStopTwice
  <2> QED
    BY <1>1, <2>1, <2>3, <2>4 DEF IsSimplePath, IsPath
<1> QED
  BY <1>2, <1>3

\* A set of nodes that no edge leaves holds whatever is reachable from it.
LEMMA ReachableStaysInside ==
    ASSUME NEW g, IsGraph(g), NEW S, NEW n \in S,
           \A e \in g.edges : e.from \in S => e.to \in S
    PROVE  ReachableFrom(g, n) \subseteq S
<1> DEFINE c == Cardinality(g.nodes)
           step == [k \in 1 .. c |-> [near \in SUBSET S |-> Wider(g, near)]]
           Widens(w) == w = [k \in 0 .. c |-> IF k = 0 THEN {n} ELSE Wider(g, w[k - 1])]
           w == CHOOSE w : Widens(w)
<1>1. c \in Nat
  BY FS_CardinalityType DEF IsGraph
<1>2. \A near \in SUBSET S : Wider(g, near) \in SUBSET S
  BY DEF Wider
<1>3. {n} \in SUBSET S /\ step \in [1 .. c -> [SUBSET S -> SUBSET S]]
  BY <1>2
<1>4. PICK h : Iterates(c, SUBSET S, {n}, step, h)
  <2> HIDE DEF step, c
  <2> QED
    BY <1>1, <1>3, Iteration
<1> HIDE DEF c
<1>5. h \in [0 .. c -> SUBSET S] /\ h[0] = {n} /\ \A k \in 1 .. c : h[k] = step[k][h[k - 1]]
  BY <1>4 DEF Iterates
<1>6. ASSUME NEW k \in 1 .. c PROVE h[k] = Wider(g, h[k - 1])
  <2>1. k - 1 \in 0 .. c
    BY <1>1
  <2>2. h[k - 1] \in SUBSET S
    BY <1>5, <2>1
  <2> QED
    BY <1>5, <2>2
<1>7. Widens(h)
  BY <1>1, <1>5, <1>6
<1>8. Widens(w)
  <2> HIDE DEF Widens
  <2> QED
    BY <1>7
<1> DEFINE T == {k \in 0 .. c : w[k] \in SUBSET S}
<1> HIDE DEF w
<1>9. w[0] = {n} /\ \A k \in 1 .. c : w[k] = Wider(g, w[k - 1])
  <2>1. 0 \in 0 .. c /\ \A k \in 1 .. c : k \in 0 .. c /\ k # 0
    BY <1>1
  <2> QED
    BY <1>8, <2>1
<1>10. 0 .. c \subseteq T
  <2>1. 0 \in T
    BY <1>1, <1>3, <1>9
  <2>2. \A k \in 1 .. c : k - 1 \in T => k \in T
    BY <1>1, <1>2, <1>9
  <2> HIDE DEF T
  <2> QED
    BY <1>1, <2>1, <2>2, Induction
<1>11. ReachableFrom(g, n) = w[c]
  BY DEF ReachableFrom, w, c
<1> QED
  BY <1>1, <1>10, <1>11

LEMMA EndsAndMiddle ==
    ASSUME NEW S, NEW p \in Seq(S), Len(p) >= 2, NEW m \in Seq(S), Len(m) = Len(p) - 2,
           \A k \in 1 .. Len(m) : m[k] = p[k + 1]
    PROVE  p = <<p[1]>> \o m \o <<p[Len(p)]>>
<1> DEFINE n == Len(p)
           q == <<p[1]>> \o m \o <<p[n]>>
<1>1. n \in Nat /\ n >= 2 /\ Len(m) = n - 2 /\ \A k \in 1 .. n : p[k] \in S
  OBVIOUS
<1>2. Len(q) = n /\ q[1] = p[1] /\ q[n] = p[n] /\ \A k \in 2 .. n - 1 : q[k] = m[k - 1]
  BY <1>1
<1>3. q \in Seq(S)
  BY <1>1
<1> HIDE DEF q, n
<1>4. ASSUME NEW k \in 1 .. n PROVE q[k] = p[k]
  <2>1. CASE k \in 2 .. n - 1
    <3>1. k - 1 \in 1 .. Len(m) /\ (k - 1) + 1 = k
      BY <1>1, <2>1
    <3> QED
      BY <1>2, <2>1, <3>1
  <2>2. CASE k = 1 \/ k = n
    BY <1>2, <2>2
  <2> QED
    BY <1>1, <2>1, <2>2
<1>5. Len(p) = n
  BY DEF n
<1>6. p = q
  BY <1>2, <1>3, <1>4, <1>5
<1> QED
  BY <1>6 DEF q, n

\* A simple path passes different nodes between two different ends.
LEMMA SimplePathIsALeg ==
    ASSUME NEW g, IsGraph(g), NEW a, NEW b, NEW p, IsSimplePath(g, p, a, b), a # b
    PROVE  LegExists(g, a, b)
<1> DEFINE n == Len(p)
           c == n - 2
           m == [k \in 1 .. c |-> p[k + 1]]
           S == {p[k] : k \in 2 .. n - 1}
<1>1. /\ p \in Seq(g.nodes) /\ n \in Nat \ {0} /\ DOMAIN p = 1 .. n
      /\ p[1] = a /\ p[n] = b /\ \A k \in 1 .. n : p[k] \in g.nodes
      /\ \A i, j \in 1 .. n : p[i] = p[j] => i = j
  BY DEF IsSimplePath, IsPath, Connects, NoStopTwice
<1>2. n >= 2 /\ c \in Nat
  <2>1. n # 1
    BY <1>1
  <2> QED
    BY <1>1, <2>1
<1>3. \A k \in 2 .. n - 1 : p[k] \in g.nodes /\ p[k] # a /\ p[k] # b
  <2>1. \A k \in 2 .. n - 1 : k \in 1 .. n /\ 1 \in 1 .. n /\ n \in 1 .. n /\ k # 1 /\ k # n
    BY <1>1
  <2> HIDE DEF n
  <2> QED
    BY <1>1, <2>1
<1>4. S \in SUBSET (g.nodes \ {a, b})
  BY <1>3
<1>5. m \in [1 .. c -> S] /\ \A i, j \in 1 .. c : i # j => m[i] # m[j]
  <2>1. \A k \in 1 .. c : k + 1 \in 2 .. n - 1 /\ k + 1 \in 1 .. n
    BY <1>1
  <2>2. \A i, j \in 1 .. c : i # j => i + 1 # j + 1
    OBVIOUS
  <2> HIDE DEF c, n
  <2> QED
    BY <1>1, <2>1, <2>2
<1>6. \A s \in S : \E k \in 1 .. c : m[k] = s
  <2> SUFFICES ASSUME NEW k \in 2 .. n - 1 PROVE \E i \in 1 .. c : m[i] = p[k]
    OBVIOUS
  <2>1. k - 1 \in 1 .. c /\ (k - 1) + 1 = k
    BY <1>1
  <2> QED
    BY <2>1
<1>7. Cardinality(S) = c
  <2> HIDE DEF m, S, c
  <2>1. m \in Bijection(1 .. c, S)
    BY <1>5, <1>6 DEF Bijection, Injection, Surjection, IsInjective
  <2>2. IsFiniteSet(1 .. c)
    BY <1>2, FS_Interval
  <2>3. Cardinality(S) = Cardinality(1 .. c)
    <3>1. IsFiniteSet(S)
      BY <1>4, FS_Subset DEF IsGraph
    <3> QED
      BY <2>1, <2>2, <3>1, FS_Bijection DEF ExistsBijection
  <2>4. \A i \in Nat : Cardinality(1 .. i) = i
    <3>1. \A i \in Nat : Cardinality(1 .. i) = IF 1 > i THEN 0 ELSE i - 1 + 1
      BY FS_Interval
    <3> QED
      BY <3>1
  <2> QED
    BY <1>2, <2>3, <2>4
<1>8. m \in SetToSeqs(S)
  <2> HIDE DEF m, S, c
  <2> QED
    BY <1>5, <1>7 DEF SetToSeqs
<1>9. m \in Middles(g, a, b)
  <2> HIDE DEF m, S
  <2> QED
    BY <1>4, <1>8 DEF Middles
<1>10. p = <<a>> \o m \o <<b>>
  <2>1. m \in Seq(g.nodes) /\ Len(m) = c
    <3>1. m \in [1 .. c -> g.nodes]
      BY <1>4, <1>5
    <3> HIDE DEF m, c
    <3> QED
      BY <1>2, <3>1
  <2>2. \A k \in 1 .. c : m[k] = p[k + 1]
    OBVIOUS
  <2>3. n >= 2 /\ Len(m) = n - 2 /\ \A k \in 1 .. Len(m) : m[k] = p[k + 1]
    BY <1>2, <2>1, <2>2
  <2> HIDE DEF m
  <2>4. p = <<p[1]>> \o m \o <<p[n]>>
    <3>1. p \in Seq(g.nodes) /\ m \in Seq(g.nodes)
      BY <1>1, <2>1
    <3> QED
      BY <2>3, <3>1, EndsAndMiddle
  <2> QED
    BY <1>1, <2>4
<1>11. Joined(g, <<a>> \o m \o <<b>>)
  <2> HIDE DEF m
  <2> QED
    BY <1>10 DEF IsSimplePath, IsPath
<1>12. a \in g.nodes /\ b \in g.nodes
  BY <1>1, <1>2
<1> HIDE DEF m
<1> QED
  BY <1>9, <1>11, <1>12 DEF LegExists

\* Between two nodes of a strongly connected component there is a leg.
LEMMA ComponentIsConnected ==
    ASSUME NEW g, IsGraph(g), EndsKnown(g), NEW c \in LargestComponents(g), NEW a \in c, NEW b \in c
    PROVE  LegExists(g, a, b)
<1>1. PICK n \in g.nodes : /\ a \in g.nodes /\ n \in ReachableFrom(g, a)
                           /\ b \in g.nodes /\ b \in ReachableFrom(g, n)
  <2>1. PICK n \in g.nodes :
            c = {m \in g.nodes : m \in ReachableFrom(g, n) /\ n \in ReachableFrom(g, m)}
    BY DEF LargestComponents
  <2> QED
    BY <2>1
<1> DEFINE S == {x \in g.nodes : \E p : IsSimplePath(g, p, a, x)}
<1>2. a \in S
  BY <1>1, PathStops
<1>3. ASSUME NEW e \in g.edges, e.from \in S PROVE e.to \in S
  <2>1. PICK p : IsSimplePath(g, p, a, e.from)
    BY <1>3
  <2>2. \E q : IsSimplePath(g, q, a, e.to)
    BY <2>1, PathGoesOn
  <2> QED
    BY <2>2 DEF EndsKnown
<1> HIDE DEF S
<1>4. n \in S
  BY <1>1, <1>2, <1>3, ReachableStaysInside
<1>5. b \in S
  BY <1>1, <1>3, <1>4, ReachableStaysInside
<1>6. PICK p : IsSimplePath(g, p, a, b)
  BY <1>5 DEF S
<1> QED
  BY <1>1, <1>6, SimplePathIsALeg DEF LegExists

-----------------------------------------------------------------------------
(* No leg is missing                                                       *)

NetInv == server = "up" => \A a, b \in graph.routable : LegExists(graph, a, b)

LegsInv ==
    handler = "optimize" =>
        /\ stage # "thrown"
        /\ DOMAIN snapped = 1 .. stopCount + 1
        /\ \A k \in DOMAIN snapped : snapped[k] \in graph.routable
        /\ \A i \in 0 .. stopCount, j \in 1 .. stopCount :
              legs[<<i, j>>] = FindShortestPath(graph, snapped[i + 1], snapped[j + 1])

RoutedInv ==
    /\ SearchedInv /\ NetInv /\ LegsInv
    /\ answer # "ROUTE_NOT_FOUND"

LEMMA RoutedInvInit == Init => RoutedInv
<1> SUFFICES ASSUME Init PROVE RoutedInv
  OBVIOUS
<1>1. server = "loadNodes" /\ handler = "idle" /\ answer = "none"
  BY DEF Init
<1> QED
  BY <1>1, SearchedInvInit DEF RoutedInv, NetInv, LegsInv

\* The graph of a server that is up has a leg between any two routable nodes.
LEMMA NetInvStep ==
    ASSUME SearchedInv, SearchedInv', NetInv, [Next]_vars
    PROVE  NetInv'
<1>1. CASE LoadEdges
  <2> DEFINE known == {e \in tables.edges : {e.from, e.to} \subseteq graph.nodes}
             loaded == [graph EXCEPT !.edges = known]
  <2>1. PICK routable \in LargestComponents(loaded) :
            graph' = [loaded EXCEPT !.routable = routable]
    BY <1>1 DEF LoadEdges
  <2>2. /\ graph' = [nodes |-> graph.nodes, edges |-> known, routable |-> routable]
        /\ loaded = [nodes |-> graph.nodes, edges |-> known, routable |-> graph.routable]
    <3>1. loaded = [nodes |-> graph.nodes, edges |-> known, routable |-> graph.routable]
      <4>1. PICK n, e, r : graph = [nodes |-> n, edges |-> e, routable |-> r]
        BY Zenon DEF SearchedInv, RequestInv, GraphInv
      <4> HIDE DEF known
      <4> QED
        BY <4>1
    <3> HIDE DEF loaded, known
    <3> QED
      BY <2>1, <3>1
  <2>3. loaded.nodes = graph'.nodes /\ loaded.edges = graph'.edges /\ graph'.routable = routable
    BY <2>2
  <2>4. EndsKnown(loaded)
    <3>1. loaded.nodes = graph.nodes /\ loaded.edges = known
      BY <2>2
    <3>2. \A e \in known : e.from \in graph.nodes /\ e.to \in graph.nodes
      OBVIOUS
    <3> HIDE DEF loaded, known
    <3> QED
      BY <3>1, <3>2 DEF EndsKnown
  <2> HIDE DEF loaded
  <2>5. IsGraph(loaded)
    BY <2>3 DEF SearchedInv, MapInv, IsGraph, Measured
  <2>6. \A a, b \in routable : LegExists(loaded, a, b)
    BY <2>1, <2>4, <2>5, ComponentIsConnected
  <2>7. \A a, b : LegExists(loaded, a, b) = LegExists(graph', a, b)
    BY <2>3 DEF LegExists, Middles, Joined
  <2> QED
    BY <2>3, <2>6, <2>7 DEF NetInv
<1>2. CASE LoadNodes \/ Restart
  BY <1>2 DEF LoadNodes, Restart, NetInv
<1>3. CASE UNCHANGED <<server, graph>>
  BY <1>3 DEF NetInv
<1>4. CASE CallOptimizer \/ RunOptimizer \/ TakeResult \/ Clock \/ Ingest \/ UNCHANGED vars
  BY <1>3, <1>4 DEF CallOptimizer, RunOptimizer, TakeResult, Clock, Ingest, vars, requestVars
<1>5. CASE \/ \E r \in situation.requests : ReceiveRequest(r)
           \/ AnswerFromCache \/ MissCache \/ FindRoute \/ StoreAndAnswer
           \/ \E k \in DOMAIN snapped : SnapPoint(k)
           \/ SnapRefused
  BY <1>3, <1>5 DEF ReceiveRequest, AnswerFromCache, MissCache, FindRoute, StoreAndAnswer,
                    SnapPoint, SnapRefused, HandlerUnchanged
<1> QED
  BY <1>1, <1>2, <1>4, <1>5 DEF Next, HandlerStep

LEMMA RoutableLegsAreFound ==
    ASSUME MapInv, NetInv, server = "up", NEW a \in graph.routable, NEW b \in graph.routable
    PROVE  FindShortestPath(graph, a, b) # NoRoute
<1>1. LegExists(graph, a, b) /\ IsGraph(graph)
  BY DEF NetInv, MapInv
<1> QED
  BY <1>1, FoundLeg DEF LegExists

\* Every point of a request that is snapped has a node of the component.
LEMMA AllAreSnapped ==
    ASSUME RequestInv, Snapped
    PROVE  /\ server = "up"
           /\ StopsOf(request) \in Nat \ {0}
           /\ DOMAIN snapped = 1 .. StopsOf(request) + 1
           /\ \A k \in DOMAIN snapped : snapped[k] \in graph.routable
           /\ request.kind = "point-to-point" => StopsOf(request) = 1
<1>1. request \in situation.requests /\ server = "up" /\ DOMAIN snapped = DOMAIN request.points
  BY DEF RequestInv, HandlerInv, Snapped
<1>2. /\ IsList(request.points) /\ Len(request.points) >= 2
      /\ request.kind = "point-to-point" => Len(request.points) = 2
  BY <1>1, RequestsAssumption DEF RequestInv, GraphInv
<1>3. Len(request.points) \in Nat /\ DOMAIN request.points = 1 .. Len(request.points)
  BY <1>2 DEF IsList
<1>4. \A k \in DOMAIN snapped : snapped[k] \in graph.routable
  BY DEF RequestInv, HandlerInv, Snapped
<1>5. DOMAIN snapped = 1 .. StopsOf(request) + 1 /\ StopsOf(request) \in Nat \ {0}
  <2> DEFINE n == Len(request.points)
  <2>1. n \in Nat /\ n >= 2 /\ DOMAIN snapped = 1 .. n
    BY <1>1, <1>2, <1>3
  <2> HIDE DEF n
  <2>2. (n - 1) + 1 = n /\ n - 1 \in Nat \ {0}
    BY <2>1
  <2> QED
    BY <2>1, <2>2 DEF StopsOf, n
<1>6. request.kind = "point-to-point" => StopsOf(request) = 1
  BY <1>2 DEF StopsOf
<1> QED
  BY <1>1, <1>4, <1>5, <1>6

\* While the optimizer is at work no leg is missing.
LEMMA NoLegIsMissing ==
    ASSUME RoutedInv, handler = "optimize"
    PROVE  /\ stopCount \in Nat
           /\ \A i \in 0 .. stopCount, j \in 1 .. stopCount : legs[<<i, j>>] # NoRoute
<1>1. stopCount \in Nat /\ server = "up"
  BY DEF RoutedInv, SearchedInv, RequestInv, OptimizerInv, OptimizerTypeOK, HandlerInv
<1>2. ASSUME NEW i \in 0 .. stopCount, NEW j \in 1 .. stopCount
      PROVE  legs[<<i, j>>] # NoRoute
  <2>1. i + 1 \in 1 .. stopCount + 1 /\ j + 1 \in 1 .. stopCount + 1
    BY <1>1
  <2>2. snapped[i + 1] \in graph.routable /\ snapped[j + 1] \in graph.routable
    BY <2>1 DEF RoutedInv, LegsInv
  <2> QED
    BY <1>1, <2>2, RoutableLegsAreFound DEF RoutedInv, SearchedInv, LegsInv
<1> QED
  BY <1>1, <1>2

LEMMA AnyTourIsDrivable ==
    ASSUME stopCount \in Nat, NEW t \in Seq(1 .. stopCount),
           \A i \in 0 .. stopCount, j \in 1 .. stopCount : legs[<<i, j>>] # NoRoute
    PROVE  Drivable(t)
<1> SUFFICES ASSUME NEW k \in DOMAIN t PROVE legs[LegAt(t, k)] # NoRoute
  BY DEF Drivable
<1>1. DOMAIN t = 1 .. Len(t) /\ Len(t) \in Nat /\ \A i \in 1 .. Len(t) : t[i] \in 1 .. stopCount
  OBVIOUS
<1>2. k # 1 => k - 1 \in 1 .. Len(t)
  BY <1>1
<1> QED
  BY <1>1, <1>2 DEF LegAt

LEMMA OptimizerDoesNotThrow ==
    ASSUME RoutedInv, RunOptimizer
    PROVE  stage' # "thrown"
<1>1. handler = "optimize" /\ OptimizerStep /\ stage # "thrown"
  BY DEF RunOptimizer, RoutedInv, LegsInv
<1>2. /\ stopCount \in Nat
      /\ \A i \in 0 .. stopCount, j \in 1 .. stopCount : legs[<<i, j>>] # NoRoute
  BY <1>1, NoLegIsMissing
<1>3. CASE MeasureInputOrder
  <2>1. InputOrder \in Seq(1 .. stopCount)
    BY <1>2 DEF InputOrder
  <2> QED
    BY <1>2, <1>3, <2>1, AnyTourIsDrivable DEF MeasureInputOrder
<1>4. CASE VisitNearest
  <2>1. order \in Seq(1 .. stopCount)
    BY DEF RoutedInv, SearchedInv, RequestInv, OptimizerInv, OptimizerTypeOK
  <2>2. ASSUME NEW j \in Unvisited PROVE legs[LegTo(j)] # NoRoute
    <3>1. j \in 1 .. stopCount
      BY DEF Unvisited
    <3>2. Append(order, j) \in Seq(1 .. stopCount) /\ Len(order) + 1 \in DOMAIN Append(order, j)
      BY <2>1, <3>1
    <3> QED
      BY <1>2, <3>2, AnyTourIsDrivable DEF LegTo, Drivable
  <2> QED
    BY <1>1, <1>4, <2>2 DEF VisitNearest
<1>5. CASE TryCandidate
  <2>1. TwoOptSwap(order, start, end) \in Seq(1 .. stopCount)
    BY <1>5, SwapKeepsTour
       DEF TryCandidate, RoutedInv, SearchedInv, RequestInv, OptimizerInv, OptimizerTypeOK, HasTour
  <2>2. Drivable(TwoOptSwap(order, start, end))
    BY <1>2, <2>1, AnyTourIsDrivable
  <2>3. NextPair
    BY <1>5, <2>2 DEF TryCandidate
  <2> QED
    BY <1>1, <2>3 DEF NextPair
<1> QED
  BY <1>1, <1>3, <1>4, <1>5
     DEF OptimizerStep, BeginTwoOpt, BeginPass, StopAtDeadline, EndTwoOpt

LEMMA CallKeepsLegsInv ==
    ASSUME RoutedInv, CallOptimizer
    PROVE  LegsInv'
<1> DEFINE count == StopsOf(request)
<1>1. /\ stopCount' = count /\ stage' \in {"naive", "rejected"} /\ UNCHANGED <<graph, snapped>>
      /\ legs' = [ij \in (0 .. count) \X (1 .. count) |->
                     FindShortestPath(graph, snapped[ij[1] + 1], snapped[ij[2] + 1])]
  BY DEF CallOptimizer, Begin
<1>2. /\ DOMAIN snapped = 1 .. count + 1
      /\ \A k \in DOMAIN snapped : snapped[k] \in graph.routable
  BY AllAreSnapped DEF CallOptimizer, RoutedInv, SearchedInv
<1> HIDE DEF count
<1>3. \A i \in 0 .. count, j \in 1 .. count :
          legs'[<<i, j>>] = FindShortestPath(graph, snapped[i + 1], snapped[j + 1])
  BY <1>1
<1> QED
  BY <1>1, <1>2, <1>3 DEF LegsInv

LEMMA RoutedInvStep == RoutedInv /\ [Next]_vars => RoutedInv'
<1> SUFFICES ASSUME RoutedInv, [Next]_vars PROVE RoutedInv'
  OBVIOUS
<1> USE DEF RoutedInv
<1>1. SearchedInv' /\ NetInv'
  BY SearchedInvStep, NetInvStep
<1>2. CASE handler' # "optimize" /\ answer' # "ROUTE_NOT_FOUND"
  BY <1>1, <1>2 DEF LegsInv
<1>3. ASSUME UNCHANGED <<graph, handler, snapped, answer, stopCount, legs>>, stage' # "thrown"
      PROVE  RoutedInv'
  BY <1>1, <1>3 DEF LegsInv
<1>4. CASE LoadNodes \/ LoadEdges
  BY <1>2, <1>4 DEF LoadNodes, LoadEdges, SearchedInv, RequestInv, HandlerInv
<1>5. CASE Restart
  BY <1>2, <1>5 DEF Restart
<1>6. CASE \/ \E r \in situation.requests : ReceiveRequest(r)
           \/ AnswerFromCache \/ MissCache \/ StoreAndAnswer
           \/ \E k \in DOMAIN snapped : SnapPoint(k)
           \/ SnapRefused
  BY <1>2, <1>6 DEF ReceiveRequest, AnswerFromCache, MissCache, StoreAndAnswer, SnapPoint,
                   SnapRefused, AnswerWith
<1>7. CASE FindRoute
  <2>1. FindShortestPath(graph, snapped[1], snapped[2]) # NoRoute
    <3>1. Snapped /\ request.kind = "point-to-point"
      BY <1>7 DEF FindRoute
    <3>2. DOMAIN snapped = 1 .. 2 /\ server = "up"
          /\ \A k \in DOMAIN snapped : snapped[k] \in graph.routable
      BY <3>1, AllAreSnapped DEF SearchedInv
    <3>3. snapped[1] \in graph.routable /\ snapped[2] \in graph.routable
      BY <3>2
    <3> QED
      BY <3>2, <3>3, RoutableLegsAreFound DEF SearchedInv
  <2> QED
    BY <1>2, <1>7, <2>1 DEF FindRoute
<1>8. CASE CallOptimizer
  BY <1>1, <1>8, CallKeepsLegsInv DEF CallOptimizer
<1>9. CASE RunOptimizer
  <2>1. UNCHANGED <<graph, handler, snapped, answer>> /\ stage' # "thrown"
    BY <1>9, OptimizerDoesNotThrow DEF RunOptimizer, requestVars
  <2>2. UNCHANGED <<stopCount, legs>>
    BY <1>9 DEF RunOptimizer, OptimizerStep, MeasureInputOrder, VisitNearest, BeginTwoOpt,
                BeginPass, TryCandidate, StopAtDeadline, EndTwoOpt
  <2> QED
    BY <1>3, <2>1, <2>2
<1>10. CASE TakeResult
  <2>1. handler = "optimize" /\ stage # "thrown" /\ stage \in {"done", "rejected", "thrown"}
    BY <1>10 DEF TakeResult, Return, LegsInv
  <2> QED
    BY <1>2, <1>10, <2>1 DEF TakeResult, AnswerWith
<1>11. CASE Clock \/ Ingest \/ UNCHANGED vars
  <2>1. UNCHANGED <<graph, handler, snapped, answer, stopCount, legs, stage>>
    BY <1>11 DEF Clock, DeadlinePasses, Ingest, vars, requestVars, optimizerVars
  <2>2. stage # "thrown"
    BY DEF LegsInv, SearchedInv, RequestInv, HandlerInv
  <2> QED
    BY <1>3, <2>1, <2>2
<1> QED
  BY <1>4, <1>5, <1>6, <1>7, <1>8, <1>9, <1>10, <1>11 DEF Next, HandlerStep

LEMMA RoutedInvariance == Spec => []RoutedInv
  BY RoutedInvInit, RoutedInvStep, PTL DEF Spec

\* Two nodes that points were snapped to have a route on the graph that is
\* searched, for every road network and extract, although the tables the points
\* were snapped with may be newer than the graph.
THEOREM RoutesAreFound == Spec => []SnappedPointsHaveRoutes
<1>1. RoutedInv => SnappedPointsHaveRoutes
  BY DEF RoutedInv, LegsInv, SearchedInv, RequestInv, HandlerInv, SnappedPointsHaveRoutes
<1> QED
  BY <1>1, RoutedInvariance, PTL

-----------------------------------------------------------------------------
(* Paths that are joined                                                   *)

LEMMA SameSums ==
    ASSUME NEW n \in Nat, NEW d, NEW f, NEW h, AddsUp(n, d, f), AddsUp(n, d, h)
    PROVE  \A k \in 0 .. n : f[k] = h[k]
<1> DEFINE T == {k \in 0 .. n : f[k] = h[k]}
<1>1. 0 \in T
  BY DEF AddsUp
<1>2. \A k \in 1 .. n : k - 1 \in T => k \in T
  BY DEF AddsUp
<1> HIDE DEF T
<1>3. 0 .. n \subseteq T
  BY <1>1, <1>2, Induction
<1> QED
  BY <1>3 DEF T

\* First the numbers of d, then those of e.
LEMMA SumOfBoth ==
    ASSUME NEW n \in Nat, NEW m \in Nat, NEW l, l = n + m,
           NEW d, NEW e, NEW c, NEW f, NEW h, NEW s,
           AddsUp(n, d, f), AddsUp(m, e, h), AddsUp(l, c, s),
           \A k \in 1 .. n : c[k] = d[k],
           \A k \in 1 .. m : c[n + k] = e[k]
    PROVE  s[l] = f[n] + h[m]
<1> DEFINE T == {k \in 0 .. n : s[k] = f[k]}
           U == {k \in 0 .. m : s[n + k] = f[n] + h[k]}
<1>1. n \in T
  <2>1. 0 \in T
    BY DEF AddsUp
  <2>2. ASSUME NEW k \in 1 .. n, k - 1 \in T PROVE k \in T
    <3>1. k \in 1 .. n + m
      OBVIOUS
    <3>2. s[k] = s[k - 1] + c[k] /\ f[k] = f[k - 1] + d[k]
      BY <3>1 DEF AddsUp
    <3> QED
      BY <2>2, <3>2
  <2> HIDE DEF T
  <2>3. 0 .. n \subseteq T
    BY <2>1, <2>2, Induction
  <2> QED
    BY <2>3
<1>2. m \in U
  <2>1. 0 \in U
    <3>1. n + 0 = n /\ h[0] = 0 /\ f[n] \in Nat /\ s[n] = f[n]
      BY <1>1 DEF AddsUp
    <3> QED
      BY <3>1
  <2>2. ASSUME NEW k \in 1 .. m, k - 1 \in U PROVE k \in U
    <3>1. n + k \in 1 .. n + m /\ (n + k) - 1 = n + (k - 1)
      OBVIOUS
    <3>2. s[n + k] = s[n + (k - 1)] + c[n + k] /\ h[k] = h[k - 1] + e[k]
      BY <3>1 DEF AddsUp
    <3>3. h[k - 1] \in Nat /\ h[k] \in Nat /\ f[n] \in Nat /\ s[n + (k - 1)] \in Nat
          /\ s[n + k] \in Nat
      <4>1. k - 1 \in 0 .. m /\ n + (k - 1) \in 0 .. n + m /\ n + k \in 0 .. n + m
        OBVIOUS
      <4> QED
        BY <4>1 DEF AddsUp
    <3>4. s[n + (k - 1)] = f[n] + h[k - 1] /\ c[n + k] = e[k]
      BY <2>2
    <3>5. e[k] \in Nat
      BY DEF AddsUp
    <3>6. s[n + k] = f[n] + h[k]
      BY <3>2, <3>3, <3>4, <3>5
    <3> QED
      BY <3>6
  <2> HIDE DEF U
  <2>3. 0 .. m \subseteq U
    BY <2>1, <2>2, Induction
  <2> QED
    BY <2>3
<1> QED
  BY <1>2

\* A path and the rest of the next one.
Continues(S, r, p, q) ==
    /\ r \in Seq(S) /\ Len(r) = Len(p) + (Len(q) - 1)
    /\ \A k \in 1 .. Len(p) : r[k] = p[k]
    /\ \A k \in 1 .. Len(q) - 1 : r[Len(p) + k] = q[k + 1]

LEMMA Continued ==
    ASSUME NEW S, NEW p \in Seq(S), NEW q \in Seq(S), Len(q) \in Nat \ {0}
    PROVE  Continues(S, p \o Tail(q), p, q)
BY DEF Continues

\* The path r from a to c is p followed by q.
IsJoined(g, p, q, r, a, c) ==
    /\ IsPath(g, r, a, c)
    /\ PathLength(g, r) = PathLength(g, p) + PathLength(g, q)
    /\ Len(p) <= Len(r) /\ \A k \in 1 .. Len(p) : r[k] = p[k]

LEMMA PathsJoin ==
    ASSUME NEW g, IsGraph(g), NEW a, NEW b, NEW c, NEW p, NEW q, NEW r,
           IsPath(g, p, a, b), IsPath(g, q, b, c), Continues(g.nodes, r, p, q)
    PROVE  IsJoined(g, p, q, r, a, c)
<1> DEFINE n == Len(p)
           m == Len(q) - 1
<1>1. /\ p \in Seq(g.nodes) /\ n \in Nat \ {0} /\ p[1] = a /\ p[n] = b
      /\ q \in Seq(g.nodes) /\ Len(q) \in Nat \ {0} /\ m \in Nat /\ Len(q) = m + 1
      /\ q[1] = b /\ q[m + 1] = c
  BY DEF IsPath, Connects
<1>2. /\ r \in Seq(g.nodes) /\ Len(r) = n + m
      /\ \A k \in 1 .. n : r[k] = p[k]
      /\ \A k \in 1 .. m : r[n + k] = q[k + 1]
  BY DEF Continues
<1> HIDE DEF n, m
<1>3. ASSUME NEW k \in 1 .. n + m - 1
      PROVE  \/ k \in 1 .. n - 1 /\ r[k] = p[k] /\ r[k + 1] = p[k + 1]
             \/ /\ k - n + 1 \in 1 .. m
                /\ r[k] = q[k - n + 1] /\ r[k + 1] = q[(k - n + 1) + 1]
  <2>1. CASE k < n
    <3>1. k \in 1 .. n /\ k + 1 \in 1 .. n /\ k \in 1 .. n - 1
      BY <1>1, <2>1
    <3> QED
      BY <1>2, <3>1
  <2>2. CASE k = n
    <3>1. k - n + 1 = 1 /\ 1 \in 1 .. m /\ n \in 1 .. n
      BY <1>1, <2>2
    <3>2. r[n + 1] = q[1 + 1] /\ r[n] = p[n]
      BY <1>2, <3>1
    <3> QED
      BY <1>1, <2>2, <3>1, <3>2
  <2>3. CASE k > n
    <3> DEFINE i == k - n
    <3>1. i \in 1 .. m /\ i + 1 \in 1 .. m /\ k = n + i /\ k + 1 = n + (i + 1) /\ k - n + 1 = i + 1
      BY <1>1, <2>3
    <3> HIDE DEF i
    <3>2. r[n + i] = q[i + 1] /\ r[n + (i + 1)] = q[(i + 1) + 1]
      BY <1>2, <3>1
    <3> QED
      BY <3>1, <3>2
  <2>4. k < n \/ k = n \/ k > n
    BY <1>1
  <2> QED
    BY <2>1, <2>2, <2>3, <2>4
<1>4. Connects(g.nodes, r, a, c)
  <2>1. r[1] = a
    BY <1>1, <1>2
  <2>2. r[n + m] = c
    <3>1. CASE m = 0
      BY <1>1, <1>2, <3>1
    <3>2. CASE m # 0
      BY <1>1, <1>2, <3>2
    <3> QED
      BY <3>1, <3>2
  <2> QED
    BY <1>1, <1>2, <2>1, <2>2 DEF Connects
<1>5. Joined(g, r)
  <2>1. /\ \A k \in 1 .. n - 1 : \E e \in g.edges : e.from = p[k] /\ e.to = p[k + 1]
        /\ \A k \in 1 .. m : \E e \in g.edges : e.from = q[k] /\ e.to = q[k + 1]
    BY DEF IsPath, Joined, n, m
  <2>2. ASSUME NEW k \in 1 .. n + m - 1
        PROVE  \E e \in g.edges : e.from = r[k] /\ e.to = r[k + 1]
    BY <1>3, <2>1
  <2>3. Len(r) - 1 = n + m - 1
    BY <1>1, <1>2
  <2> QED
    BY <2>2, <2>3 DEF Joined
<1>6. PathLength(g, r) = PathLength(g, p) + PathLength(g, q)
  <2> DEFINE i == n - 1
             l == Len(r) - 1
  <2>1. PICK f : AddsUp(i, EdgeLengths(g, p), f) /\ PathLength(g, p) = f[i]
    BY <1>1, PathLengthAddsUp DEF IsPath, n
  <2>2. PICK h : AddsUp(m, EdgeLengths(g, q), h) /\ PathLength(g, q) = h[m]
    <3>1. Joined(g, q) /\ Len(q) \in Nat \ {0} /\ m = Len(q) - 1
      BY <1>1 DEF IsPath, m
    <3>2. \E h : AddsUp(Len(q) - 1, EdgeLengths(g, q), h) /\ PathLength(g, q) = h[Len(q) - 1]
      BY <3>1, PathLengthAddsUp
    <3> QED
      BY <3>1, <3>2
  <2>3. PICK s : AddsUp(l, EdgeLengths(g, r), s) /\ PathLength(g, r) = s[l]
    <3>1. Len(r) \in Nat \ {0}
      BY <1>1, <1>2
    <3> QED
      BY <1>5, <3>1, PathLengthAddsUp
  <2>4. \A k \in 1 .. i : EdgeLengths(g, r)[k] = EdgeLengths(g, p)[k]
    <3> SUFFICES ASSUME NEW k \in 1 .. n - 1
                 PROVE  EdgeLengths(g, r)[k] = EdgeLengths(g, p)[k]
      OBVIOUS
    <3>1. k \in 1 .. n /\ k + 1 \in 1 .. n /\ k \in 1 .. n + m - 1 /\ Len(r) - 1 = n + m - 1
      BY <1>1, <1>2
    <3>2. r[k] = p[k] /\ r[k + 1] = p[k + 1]
      BY <1>2, <3>1
    <3>3. k \in 1 .. Len(r) - 1 /\ k \in 1 .. Len(p) - 1
      BY <3>1 DEF n
    <3> QED
      BY <3>2, <3>3 DEF EdgeLengths
  <2>5. \A k \in 1 .. m : EdgeLengths(g, r)[i + k] = EdgeLengths(g, q)[k]
    <3> SUFFICES ASSUME NEW k \in 1 .. m
                 PROVE  EdgeLengths(g, r)[i + k] = EdgeLengths(g, q)[k]
      OBVIOUS
    <3> DEFINE j == n - 1 + k
    <3>1. j \in 1 .. n + m - 1 /\ j - n + 1 = k /\ ~ (j \in 1 .. n - 1) /\ Len(r) - 1 = n + m - 1
      BY <1>1, <1>2
    <3> HIDE DEF j
    <3>2. r[j] = q[k] /\ r[j + 1] = q[k + 1]
      BY <1>3, <3>1
    <3>3. j \in 1 .. Len(r) - 1 /\ k \in 1 .. Len(q) - 1
      BY <3>1 DEF m
    <3>4. EdgeLengths(g, r)[j] = EdgeLengths(g, q)[k]
      BY <3>2, <3>3 DEF EdgeLengths
    <3> QED
      BY <3>4 DEF j
  <2>6. i \in Nat /\ m \in Nat /\ l = i + m
    BY <1>1, <1>2
  <2> HIDE DEF i, l
  <2>7. s[l] = f[i] + h[m]
    BY <2>1, <2>2, <2>3, <2>4, <2>5, <2>6, SumOfBoth
  <2> QED
    BY <2>1, <2>2, <2>3, <2>7
<1>7. Len(p) <= Len(r) /\ \A k \in 1 .. Len(p) : r[k] = p[k]
  BY <1>1, <1>2 DEF n
<1> QED
  BY <1>4, <1>5, <1>6, <1>7 DEF IsPath, IsJoined

-----------------------------------------------------------------------------
(* Tours drive along the graph                                             *)

\* Every leg is a path of the graph between the nodes of its two stops.
LegsAreDriven ==
    \A i \in 0 .. stopCount, j \in 1 .. stopCount :
        \E p : /\ IsPath(graph, p, snapped[i + 1], snapped[j + 1])
               /\ PathLength(graph, p) \in Nat
               /\ legs[<<i, j>>] = [distanceM |-> PathLength(graph, p), path |-> p]

\* The paths of a tour up to each of its stops.
PathsOf(t, w) ==
    /\ w[0] = <<>>
    /\ \A k \in 1 .. Len(t) :
          w[k] = w[k - 1] \o (IF w[k - 1] = <<>> THEN legs[LegAt(t, k)].path
                              ELSE Tail(legs[LegAt(t, k)].path))

\* The legs of a tour, one after the other.
From(t, k) == IF k = 1 THEN snapped[1] ELSE snapped[t[k - 1] + 1]

LEMMA LegOfTour ==
    ASSUME LegsAreDriven, IsGraph(graph), stopCount \in Nat,
           NEW t \in Seq(1 .. stopCount), NEW k \in 1 .. Len(t)
    PROVE  /\ IsPath(graph, legs[LegAt(t, k)].path, From(t, k), snapped[t[k] + 1])
           /\ legs[LegAt(t, k)].distanceM = PathLength(graph, legs[LegAt(t, k)].path)
           /\ legs[LegAt(t, k)].distanceM \in Nat /\ legs[LegAt(t, k)] # NoRoute
<1> DEFINE i == IF k = 1 THEN 0 ELSE t[k - 1]
<1>1. Len(t) \in Nat /\ \A j \in 1 .. Len(t) : t[j] \in 1 .. stopCount
  OBVIOUS
<1>2. i \in 0 .. stopCount /\ t[k] \in 1 .. stopCount /\ LegAt(t, k) = <<i, t[k]>>
  <2>1. k # 1 => k - 1 \in 1 .. Len(t)
    BY <1>1
  <2> QED
    BY <1>1, <2>1 DEF LegAt
<1>3. i + 1 = (IF k = 1 THEN 1 ELSE t[k - 1] + 1)
  OBVIOUS
<1> HIDE DEF i
<1>4. PICK p : /\ IsPath(graph, p, snapped[i + 1], snapped[t[k] + 1])
               /\ PathLength(graph, p) \in Nat
               /\ legs[<<i, t[k]>>] = [distanceM |-> PathLength(graph, p), path |-> p]
  BY <1>2 DEF LegsAreDriven
<1>5. legs[LegAt(t, k)].path = p /\ legs[LegAt(t, k)].distanceM = PathLength(graph, p)
  BY <1>2, <1>4
<1>6. snapped[i + 1] = From(t, k)
  BY <1>3 DEF From
<1>7. legs[LegAt(t, k)] # NoRoute
  <2>1. p \in Seq(Nat)
    BY <1>4 DEF IsPath, Connects, IsGraph
  <2>2. legs[LegAt(t, k)] \in [distanceM : Nat, path : Seq(Nat)]
    BY <1>2, <1>4, <2>1
  <2> QED
    BY <2>2, RequestsAssumption
<1> QED
  BY <1>4, <1>5, <1>6, <1>7

LEMMA TailIsSequence ==
    ASSUME NEW S, NEW q \in Seq(S), Len(q) \in Nat \ {0}
    PROVE  Tail(q) \in Seq(S)
OBVIOUS

LEMMA TourPathGrows ==
    ASSUME LegsAreDriven, IsGraph(graph), stopCount \in Nat, NEW t \in Seq(1 .. stopCount)
    PROVE  \E w : PathsOf(t, w) /\ TourPath(t) = w[Len(t)]
<1> DEFINE n == Len(t)
           V == Seq(graph.nodes)
           leg == [k \in 1 .. n |-> legs[LegAt(t, k)].path]
           longer(v, k) == v \o (IF v = <<>> THEN leg[k] ELSE Tail(leg[k]))
           step == [k \in 1 .. n |-> [v \in V |-> longer(v, k)]]
           Grows(w) == w = [k \in 0 .. n |-> IF k = 0 THEN <<>> ELSE longer(w[k - 1], k)]
           w == CHOOSE w : Grows(w)
           f == CHOOSE f : f = [k \in 0 .. n |->
                    IF k = 0 THEN <<>>
                    ELSE LET l == legs[LegAt(t, k)].path
                             sofar == f[k - 1]
                         IN sofar \o (IF sofar = <<>> THEN l ELSE Tail(l))]
<1>1. n \in Nat
  OBVIOUS
<1>2. \A k \in 1 .. n : leg[k] \in V /\ Tail(leg[k]) \in V
  BY LegOfTour, TailIsSequence DEF IsPath, Connects
<1>3. \A k \in 1 .. n : leg[k] = legs[LegAt(t, k)].path
  OBVIOUS
<1> HIDE DEF leg
<1>4. step \in [1 .. n -> [V -> V]] /\ <<>> \in V
  <2>1. ASSUME NEW k \in 1 .. n, NEW v \in V PROVE longer(v, k) \in V
    <3>1. leg[k] \in V /\ Tail(leg[k]) \in V
      BY <1>2
    <3> DEFINE x == IF v = <<>> THEN leg[k] ELSE Tail(leg[k])
    <3>2. x \in Seq(graph.nodes)
      BY <3>1
    <3> HIDE DEF x
    <3>3. v \o x \in Seq(graph.nodes)
      BY <3>2
    <3> QED
      BY <3>3 DEF x
  <2>2. <<>> \in V
    OBVIOUS
  <2> HIDE DEF V, n, longer
  <2> QED
    BY <2>1, <2>2
<1>5. PICK h : Iterates(n, V, <<>>, step, h)
  <2> HIDE DEF step, V, n
  <2> QED
    BY <1>1, <1>4, Iteration
<1>6. h \in [0 .. n -> V] /\ h[0] = <<>> /\ \A k \in 1 .. n : h[k] = step[k][h[k - 1]]
  <2> HIDE DEF step, V, n
  <2> QED
    BY <1>5 DEF Iterates
<1>7. ASSUME NEW k \in 1 .. n PROVE h[k] = longer(h[k - 1], k)
  <2>1. k - 1 \in 0 .. n
    BY <1>1
  <2>2. h[k - 1] \in V
    BY <1>6, <2>1
  <2> HIDE DEF V, n, longer
  <2> QED
    BY <1>6, <2>2
<1> HIDE DEF longer, n
<1>8. Grows(h)
  BY <1>1, <1>6, <1>7
<1>9. Grows(w)
  <2> HIDE DEF Grows
  <2> QED
    BY <1>8
<1> HIDE DEF w
<1>10. w[0] = <<>> /\ \A k \in 1 .. n : w[k] = longer(w[k - 1], k)
  <2>1. 0 \in 0 .. n /\ \A k \in 1 .. n : k \in 0 .. n /\ k # 0
    BY <1>1
  <2> QED
    BY <1>9, <2>1
<1>11. PathsOf(t, w)
  BY <1>3, <1>10 DEF PathsOf, longer, n
<1>12. f = w
  <2>1. \A x : [k \in 0 .. n |->
                    IF k = 0 THEN <<>>
                    ELSE LET l == legs[LegAt(t, k)].path
                             sofar == x[k - 1]
                         IN sofar \o (IF sofar = <<>> THEN l ELSE Tail(l))]
              = [k \in 0 .. n |-> IF k = 0 THEN <<>> ELSE longer(x[k - 1], k)]
    <3>1. \A k \in 0 .. n : k # 0 => leg[k] = legs[LegAt(t, k)].path
      BY <1>1, <1>3
    <3> QED
      BY <3>1 DEF longer
  <2> QED
    BY <2>1 DEF w
<1>13. TourPath(t) = f[n]
  BY DEF TourPath, n
<1> HIDE DEF f
<1> QED
  BY <1>11, <1>12, <1>13 DEF n

\* A tour drives along the graph from stop to stop and is as long as it says.
DrivesAlong(t, path) ==
    /\ IsPath(graph, path, snapped[1], snapped[t[Len(t)] + 1])
    /\ PathLength(graph, path) = TourLength(t)
    /\ \E at \in [1 .. Len(t) -> DOMAIN path] :
          \A k \in 1 .. Len(t) : /\ path[at[k]] = snapped[t[k] + 1]
                                 /\ k > 1 => at[k - 1] <= at[k]

\* The part of a tour up to its k-th stop, when the sums of the legs are s.
DrivenSoFar(t, w, s, k) ==
    /\ IsPath(graph, w[k], snapped[1], snapped[t[k] + 1])
    /\ PathLength(graph, w[k]) = s[k]
    /\ \A j \in 1 .. k : /\ Len(w[j]) \in 1 .. Len(w[k])
                         /\ w[k][Len(w[j])] = snapped[t[j] + 1]

LEMMA FirstLeg ==
    ASSUME LegsAreDriven, IsGraph(graph), stopCount \in Nat,
           NEW t \in Seq(1 .. stopCount), 1 \in 1 .. Len(t),
           NEW w, PathsOf(t, w), NEW s, AddsUp(Len(t), LegLengths(t), s)
    PROVE  DrivenSoFar(t, w, s, 1)
<1> DEFINE q == legs[LegAt(t, 1)].path
<1>1. IsPath(graph, q, snapped[1], snapped[t[1] + 1])
      /\ legs[LegAt(t, 1)].distanceM = PathLength(graph, q)
      /\ legs[LegAt(t, 1)].distanceM \in Nat
  BY LegOfTour DEF From
<1>2. w[1] = q
  <2>1. q \in Seq(graph.nodes)
    BY <1>1 DEF IsPath, Connects
  <2>2. w[1] = <<>> \o q
    <3>1. \A k \in 1 .. Len(t) : k = 1 => w[k - 1] = <<>>
      BY DEF PathsOf
    <3> QED
      BY <3>1 DEF PathsOf
  <2> QED
    BY <2>1, <2>2
<1>3. s[1] = PathLength(graph, q)
  <2>1. s[1] = 0 + legs[LegAt(t, 1)].distanceM
    BY DEF AddsUp, LegLengths
  <2> QED
    BY <1>1, <2>1
<1> HIDE DEF q
<1>4. Len(q) \in Nat \ {0} /\ q[Len(q)] = snapped[t[1] + 1]
  BY <1>1 DEF IsPath, Connects
<1> QED
  BY <1>1, <1>2, <1>3, <1>4 DEF DrivenSoFar

LEMMA NextLeg ==
    ASSUME LegsAreDriven, IsGraph(graph), stopCount \in Nat,
           NEW t \in Seq(1 .. stopCount), NEW k \in 2 .. Len(t),
           NEW w, PathsOf(t, w), NEW s, AddsUp(Len(t), LegLengths(t), s),
           DrivenSoFar(t, w, s, k - 1)
    PROVE  DrivenSoFar(t, w, s, k)
<1> DEFINE q == legs[LegAt(t, k)].path
           p == w[k - 1]
           r == w[k]
<1>0. Len(t) \in Nat /\ k \in 1 .. Len(t) /\ k # 1
  OBVIOUS
<1>1. /\ IsPath(graph, q, snapped[t[k - 1] + 1], snapped[t[k] + 1])
      /\ legs[LegAt(t, k)].distanceM = PathLength(graph, q)
  BY <1>0, LegOfTour DEF From
<1>2. IsPath(graph, p, snapped[1], snapped[t[k - 1] + 1]) /\ PathLength(graph, p) = s[k - 1]
  BY DEF DrivenSoFar
<1>3. r = p \o Tail(q)
  <2>1. p # <<>>
    BY <1>2 DEF IsPath, Connects
  <2> QED
    BY <1>0, <2>1 DEF PathsOf
<1>4. s[k] = PathLength(graph, p) + PathLength(graph, q)
  <2>1. s[k] = s[k - 1] + legs[LegAt(t, k)].distanceM
    BY <1>0 DEF AddsUp, LegLengths
  <2> QED
    BY <1>1, <1>2, <2>1
<1> HIDE DEF p, q, r
<1>5. Continues(graph.nodes, r, p, q)
  <2>1. p \in Seq(graph.nodes) /\ q \in Seq(graph.nodes) /\ Len(q) \in Nat \ {0}
    BY <1>1, <1>2 DEF IsPath, Connects
  <2> QED
    BY <1>3, <2>1, Continued
<1>6. /\ IsPath(graph, r, snapped[1], snapped[t[k] + 1])
      /\ PathLength(graph, r) = PathLength(graph, p) + PathLength(graph, q)
      /\ Len(p) <= Len(r) /\ \A i \in 1 .. Len(p) : r[i] = p[i]
  <2> DEFINE a == snapped[1]
             b == snapped[t[k - 1] + 1]
             c == snapped[t[k] + 1]
  <2>1. IsPath(graph, p, a, b) /\ IsPath(graph, q, b, c)
    BY <1>1, <1>2
  <2> HIDE DEF a, b, c
  <2>2. IsJoined(graph, p, q, r, a, c)
    BY <1>5, <2>1, PathsJoin
  <2> QED
    BY <2>2 DEF IsJoined, a, c
<1>7. Len(p) \in Nat \ {0} /\ Len(r) \in Nat \ {0} /\ r[Len(r)] = snapped[t[k] + 1]
  BY <1>2, <1>6 DEF IsPath, Connects
<1>8. ASSUME NEW j \in 1 .. k
      PROVE  Len(w[j]) \in 1 .. Len(r) /\ r[Len(w[j])] = snapped[t[j] + 1]
  <2>1. CASE j = k
    BY <1>7, <2>1 DEF r
  <2>2. CASE j # k
    <3>1. j \in 1 .. k - 1
      BY <1>0, <2>2
    <3>2. Len(w[j]) \in 1 .. Len(p) /\ p[Len(w[j])] = snapped[t[j] + 1]
      BY <3>1 DEF DrivenSoFar, p
    <3> DEFINE i == Len(w[j])
    <3>3. i \in 1 .. Len(p) /\ p[i] = snapped[t[j] + 1]
      BY <3>2
    <3> HIDE DEF i
    <3>4. i \in 1 .. Len(r) /\ r[i] = snapped[t[j] + 1]
      BY <1>6, <1>7, <3>3
    <3> QED
      BY <3>4 DEF i
  <2> QED
    BY <2>1, <2>2
<1> QED
  BY <1>4, <1>6, <1>8 DEF DrivenSoFar, r

LEMMA ToursAreDriven ==
    ASSUME LegsAreDriven, LegsMeasured, IsGraph(graph), stopCount \in Nat,
           NEW t \in Seq(1 .. stopCount), Len(t) >= 1
    PROVE  DrivesAlong(t, TourPath(t))
<1> DEFINE n == Len(t)
<1>1. n \in Nat /\ n >= 1 /\ 1 \in 1 .. n /\ n \in 1 .. n /\ DOMAIN t = 1 .. n
  OBVIOUS
<1>2. Drivable(t)
  BY <1>1, LegOfTour DEF Drivable
<1>3. PICK s : AddsUp(n, LegLengths(t), s) /\ TourLength(t) = s[n]
  BY <1>2, TourLengthAddsUp
<1>4. PICK w : PathsOf(t, w) /\ TourPath(t) = w[n]
  BY TourPathGrows
<1> DEFINE T == {k \in 0 .. n : k = 0 \/ DrivenSoFar(t, w, s, k)}
<1>5. 0 \in T
  BY <1>1
<1>6. ASSUME NEW k \in 1 .. n, k - 1 \in T PROVE k \in T
  <2>1. CASE k = 1
    BY <1>1, <1>3, <1>4, <2>1, FirstLeg
  <2>2. CASE k # 1
    <3>1. k \in 2 .. n /\ k - 1 # 0
      BY <1>1, <2>2
    <3>2. DrivenSoFar(t, w, s, k - 1)
      BY <1>6, <3>1
    <3>3. DrivenSoFar(t, w, s, k)
      BY <1>3, <1>4, <3>1, <3>2, NextLeg
    <3> QED
      BY <3>3
  <2> QED
    BY <2>1, <2>2
<1>7. \A k \in 1 .. n : DrivenSoFar(t, w, s, k)
  <2>1. 0 .. n \subseteq T
    <3> HIDE DEF T, n
    <3> QED
      BY <1>1, <1>5, <1>6, Induction
  <2>2. \A k \in 1 .. n : k \in 0 .. n /\ k # 0
    BY <1>1
  <2> QED
    BY <2>1, <2>2
<1>8. IsPath(graph, w[n], snapped[1], snapped[t[n] + 1]) /\ PathLength(graph, w[n]) = s[n]
  BY <1>1, <1>7 DEF DrivenSoFar
<1> DEFINE at == [k \in 1 .. n |-> Len(w[k])]
<1>9. \A k \in 1 .. n : at[k] \in 1 .. Len(w[n]) /\ w[n][at[k]] = snapped[t[k] + 1]
  BY <1>1, <1>7 DEF DrivenSoFar
<1>10. ASSUME NEW k \in 1 .. n, k > 1 PROVE at[k - 1] <= at[k]
  <2>1. k - 1 \in 1 .. n /\ k - 1 \in 1 .. k /\ DrivenSoFar(t, w, s, k)
    BY <1>1, <1>7, <1>10
  <2>2. Len(w[k - 1]) \in 1 .. Len(w[k])
    BY <2>1 DEF DrivenSoFar
  <2>3. at[k - 1] = Len(w[k - 1]) /\ at[k] = Len(w[k])
    BY <2>1
  <2>4. Len(w[k]) \in Nat
    BY <2>1 DEF DrivenSoFar, IsPath, Connects
  <2> HIDE DEF at
  <2> QED
    BY <2>2, <2>3, <2>4
<1>11. DOMAIN w[n] = 1 .. Len(w[n])
  BY <1>8 DEF IsPath, Connects
<1>12. at \in [1 .. n -> DOMAIN w[n]]
  BY <1>9, <1>11
<1> HIDE DEF at
<1> QED
  BY <1>3, <1>4, <1>8, <1>9, <1>10, <1>12 DEF DrivesAlong

-----------------------------------------------------------------------------
(* Responses can be driven                                                 *)

LEMMA FoundLegsAreDriven ==
    ASSUME RoutedInv, handler = "optimize"
    PROVE  LegsAreDriven
<1>1. stopCount \in Nat /\ server = "up" /\ IsGraph(graph)
  BY DEF RoutedInv, SearchedInv, RequestInv, OptimizerInv, OptimizerTypeOK, HandlerInv, MapInv
<1>2. ASSUME NEW i \in 0 .. stopCount, NEW j \in 1 .. stopCount
      PROVE  \E p : /\ IsPath(graph, p, snapped[i + 1], snapped[j + 1])
                    /\ PathLength(graph, p) \in Nat
                    /\ legs[<<i, j>>] = [distanceM |-> PathLength(graph, p), path |-> p]
  <2> DEFINE a == snapped[i + 1]
             b == snapped[j + 1]
  <2>1. legs[<<i, j>>] = FindShortestPath(graph, a, b)
    BY DEF RoutedInv, LegsInv
  <2>2. legs[<<i, j>>] # NoRoute
    BY NoLegIsMissing
  <2> HIDE DEF a, b
  <2>3. \E p : /\ IsPath(graph, p, a, b) /\ PathLength(graph, p) \in Nat
               /\ FindShortestPath(graph, a, b) = [distanceM |-> PathLength(graph, p), path |-> p]
    BY <1>1, <2>1, <2>2, FoundLeg
  <2> QED
    BY <2>1, <2>3 DEF a, b
<1> QED
  BY <1>2 DEF LegsAreDriven

\* What makes the next response drivable, its stops under a name.
LEMMA StopsAreMet ==
    ASSUME NEW stops, stops = [k \in DOMAIN reply'.order |-> snapped'[reply'.order[k] + 1]],
           reply'.path[1] = snapped'[1], Last(reply'.path) = Last(stops),
           Joined(graph', reply'.path), PathLength(graph', reply'.path) = reply'.distanceM,
           PassesInOrder(reply'.path, stops)
    PROVE  RouteIsDrivable'
  BY DEF RouteIsDrivable

\* A response whose stops are passed in their order.
LEMMA DrivenReplyIsDrivable ==
    ASSUME NEW path, NEW t, NEW n \in Nat \ {0}, t \in Seq(1 .. n), Len(t) >= 1, DrivesAlong(t, path),
           graph' = graph, snapped' = snapped,
           reply' = [order |-> t, path |-> path, distanceM |-> TourLength(t)]
    PROVE  RouteIsDrivable'
<1> DEFINE stops == [k \in DOMAIN t |-> snapped[t[k] + 1]]
<1>1. reply'.order = t /\ reply'.path = path /\ reply'.distanceM = TourLength(t)
  OBVIOUS
<1>2. DOMAIN t = 1 .. Len(t) /\ Len(t) \in Nat /\ Len(t) \in 1 .. Len(t)
  OBVIOUS
<1>3. /\ Connects(graph.nodes, path, snapped[1], snapped[t[Len(t)] + 1])
      /\ Joined(graph, path) /\ PathLength(graph, path) = TourLength(t)
  BY DEF DrivesAlong, IsPath
<1>4. path[1] = snapped[1] /\ Last(path) = snapped[t[Len(t)] + 1]
  BY <1>3 DEF Connects, Last
<1>5. DOMAIN stops = 1 .. Len(t) /\ \A k \in 1 .. Len(t) : stops[k] = snapped[t[k] + 1]
  BY <1>2
<1>6. Last(stops) = snapped[t[Len(t)] + 1]
  <2>1. stops \in Seq({stops[k] : k \in 1 .. Len(t)}) /\ Len(stops) = Len(t)
    <3> HIDE DEF stops
    <3>1. stops \in [1 .. Len(t) -> {stops[k] : k \in 1 .. Len(t)}]
      <4>1. stops = [k \in 1 .. Len(t) |-> stops[k]]
        BY <1>2 DEF stops
      <4> QED
        BY <4>1
    <3> QED
      BY <1>2, <3>1, FunctionIsSequence
  <2> HIDE DEF stops
  <2> QED
    BY <1>2, <1>5, <2>1 DEF Last
<1>7. PICK at \in [1 .. Len(t) -> DOMAIN path] :
          \A k \in 1 .. Len(t) : /\ path[at[k]] = snapped[t[k] + 1]
                                 /\ k > 1 => at[k - 1] <= at[k]
  BY DEF DrivesAlong
<1>8. PassesInOrder(path, stops)
  <2> HIDE DEF stops
  <2> QED
    BY <1>5, <1>7 DEF PassesInOrder
<1>9. stops = [k \in DOMAIN reply'.order |-> snapped'[reply'.order[k] + 1]]
  BY <1>1
<1> HIDE DEF stops
<1>10. /\ reply'.path[1] = snapped'[1] /\ Last(reply'.path) = Last(stops)
       /\ Joined(graph', reply'.path) /\ PathLength(graph', reply'.path) = reply'.distanceM
       /\ PassesInOrder(reply'.path, stops)
  BY <1>1, <1>3, <1>4, <1>6, <1>8
<1> QED
  BY <1>9, <1>10, StopsAreMet

\* The response to a route with one destination.
LEMMA FoundRouteIsDrivable ==
    ASSUME RoutedInv, FindRoute
    PROVE  RouteIsDrivable'
<1> DEFINE leg == FindShortestPath(graph, snapped[1], snapped[2])
<1>1. CASE leg = NoRoute
  BY <1>1 DEF FindRoute, AnswerWith, RouteIsDrivable
<1>2. CASE leg # NoRoute
  <2>1. PICK p : /\ IsPath(graph, p, snapped[1], snapped[2]) /\ PathLength(graph, p) \in Nat
                 /\ leg = [distanceM |-> PathLength(graph, p), path |-> p]
    BY <1>2, FoundLeg DEF RoutedInv, SearchedInv, MapInv
  <2> HIDE DEF leg
  <2>2. /\ reply' = [order |-> <<1>>, path |-> leg.path, distanceM |-> leg.distanceM]
        /\ UNCHANGED <<graph, snapped>>
    BY <1>2 DEF FindRoute, HandlerUnchanged, leg
  <2>3. reply'.order = <<1>> /\ reply'.path = p /\ reply'.distanceM = PathLength(graph, p)
    BY <2>1, <2>2
  <2> DEFINE stops == [k \in DOMAIN <<1>> |-> snapped[<<1>>[k] + 1]]
  <2>4. stops = <<snapped[2]>>
    OBVIOUS
  <2>5. DOMAIN stops = {1} /\ stops[1] = snapped[2] /\ Last(stops) = snapped[2]
    <3> HIDE DEF stops
    <3> QED
      BY <2>4 DEF Last
  <2>6. stops = [k \in DOMAIN reply'.order |-> snapped'[reply'.order[k] + 1]]
    BY <2>2, <2>3
  <2> HIDE DEF stops
  <2>7. /\ Joined(graph, p) /\ p[1] = snapped[1] /\ Last(p) = snapped[2]
        /\ Len(p) \in DOMAIN p /\ p[Len(p)] = snapped[2]
    BY <2>1 DEF IsPath, Connects, Last
  <2>8. PassesInOrder(p, stops)
    <3> DEFINE at == [k \in {1} |-> Len(p)]
    <3>1. at \in [DOMAIN stops -> DOMAIN p]
      BY <2>5, <2>7
    <3>2. \A k \in DOMAIN stops : p[at[k]] = stops[k] /\ (k > 1 => at[k - 1] <= at[k])
      BY <2>5, <2>7
    <3> QED
      BY <3>1, <3>2 DEF PassesInOrder
  <2> QED
    BY <2>2, <2>3, <2>5, <2>6, <2>7, <2>8 DEF RouteIsDrivable
<1> QED
  BY <1>1, <1>2

\* The response with an optimized tour.
LEMMA TakenTourIsDrivable ==
    ASSUME RoutedInv, TakeResult
    PROVE  RouteIsDrivable'
<1>1. handler = "optimize" /\ stage \in {"done", "rejected", "thrown"} /\ UNCHANGED graph
  BY DEF TakeResult, Return
<1>2. CASE stage # "done"
  BY <1>1, <1>2 DEF TakeResult, AnswerWith, RouteIsDrivable
<1>3. CASE stage = "done"
  <2>1. /\ stopCount \in Nat \ {0} /\ order \in Seq(1 .. stopCount) /\ Len(order) >= 1
        /\ LegsMeasured /\ IsGraph(graph)
    BY <1>3 DEF RoutedInv, SearchedInv, RequestInv, OptimizerInv, OptimizerTypeOK, HasTour, SwapInv,
                MapInv
  <2>2. DrivesAlong(order, TourPath(order))
    BY <1>1, <2>1, FoundLegsAreDriven, ToursAreDriven
  <2>3. /\ reply' = [order |-> order, path |-> TourPath(order), distanceM |-> TourLength(order)]
        /\ UNCHANGED snapped
    BY <1>3 DEF TakeResult
  <2> QED
    BY <1>1, <2>1, <2>2, <2>3, DrivenReplyIsDrivable
<1> QED
  BY <1>2, <1>3

DrivableInv == RoutedInv /\ RouteIsDrivable

LEMMA DrivableInvStep == DrivableInv /\ [Next]_vars => DrivableInv'
<1> SUFFICES ASSUME DrivableInv, [Next]_vars PROVE DrivableInv'
  OBVIOUS
<1> USE DEF DrivableInv
<1>1. RoutedInv'
  BY RoutedInvStep
<1>2. CASE handler' # "store"
  BY <1>1, <1>2 DEF RouteIsDrivable
<1>3. CASE UNCHANGED <<handler, graph, snapped, reply>>
  BY <1>1, <1>3 DEF RouteIsDrivable
<1>4. CASE FindRoute \/ TakeResult
  BY <1>1, <1>4, FoundRouteIsDrivable, TakenTourIsDrivable
<1>5. CASE LoadNodes \/ LoadEdges \/ Restart
  BY <1>1, <1>2, <1>5 DEF LoadNodes, LoadEdges, Restart, RoutedInv, SearchedInv, RequestInv, HandlerInv
<1>6. CASE \/ \E r \in situation.requests : ReceiveRequest(r)
           \/ AnswerFromCache \/ MissCache \/ StoreAndAnswer \/ CallOptimizer
           \/ \E k \in DOMAIN snapped : SnapPoint(k)
           \/ SnapRefused
  BY <1>2, <1>6 DEF ReceiveRequest, AnswerFromCache, MissCache, StoreAndAnswer, CallOptimizer,
                    SnapPoint, SnapRefused, AnswerWith
<1>7. CASE RunOptimizer \/ Clock \/ Ingest \/ UNCHANGED vars
  BY <1>3, <1>7 DEF RunOptimizer, Clock, Ingest, vars, requestVars
<1> QED
  BY <1>4, <1>5, <1>6, <1>7 DEF Next, HandlerStep

LEMMA DrivableInvInit == Init => DrivableInv
<1>1. Init => RouteIsDrivable
  BY DEF Init, RouteIsDrivable
<1> QED
  BY <1>1, RoutedInvInit DEF DrivableInv

\* What a request is answered can be driven: along edges of the graph, past
\* the snapped stops in the order that is announced, in the distance that is
\* announced, for every network, tour and moment of the deadline.
THEOREM RoutesAreDrivable == Spec => []RouteIsDrivable
<1>1. DrivableInv => RouteIsDrivable
  BY DEF DrivableInv
<1> QED
  BY <1>1, DrivableInvInit, DrivableInvStep, PTL DEF Spec
=============================================================================
