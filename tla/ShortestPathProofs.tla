------------------------- MODULE ShortestPathProofs -------------------------
(***************************************************************************)
(* Proofs about BinaryHeap and ShortestPath, for every finite road         *)
(* network, all queries with a consistent heuristic, and any order in      *)
(* which the database returns nodes and edges.                             *)
(***************************************************************************)
EXTENDS ShortestPath, RoadGraphProofs, FiniteRecursion, SequenceTheorems

-----------------------------------------------------------------------------
(* The binary heap                                                         *)

\* A parent comes before its children, which are at 2k and 2k + 1.
LEMMA ParentIsSmaller ==
    /\ \A k \in Nat \ {0, 1} : Parent(k) \in Nat \ {0} /\ Parent(k) < k
    /\ \A j, k \in Nat : j <= k => Parent(j) <= Parent(k)
    /\ \A j, k \in Nat : Parent(j) = k <=> j = 2 * k \/ j = 2 * k + 1
  BY DEF Parent

\* Items have a priority.
Items(X) == \A x \in X : x.priority \in Nat

\* In an ordered heap no item has a smaller priority than the first.
LEMMA TopIsLeast ==
    ASSUME NEW X, Items(X), NEW s \in Seq(X), HeapOrdered(s)
    PROVE  \A j \in 1 .. Len(s) : s[1].priority <= s[j].priority
<1> DEFINE n == Len(s)
           S == {k \in 0 .. n : \A j \in 1 .. k : s[1].priority <= s[j].priority}
<1>1. n \in Nat /\ \A j \in 1 .. n : s[j].priority \in Nat
  BY LenProperties DEF Items
<1>2. 0 \in S
  BY <1>1
<1>3. ASSUME NEW k \in 1 .. n, k - 1 \in S PROVE k \in S
  <2>1. s[1].priority <= s[k].priority
    <3>1. CASE k = 1
      BY <1>1, <3>1
    <3>2. CASE k # 1
      <4>1. Parent(k) \in 1 .. k - 1 /\ Parent(k) \in 1 .. n /\ k \in 2 .. n /\ 1 \in 1 .. n
        BY <1>1, <3>2, ParentIsSmaller
      <4>2. s[1].priority <= s[Parent(k)].priority
        BY <1>3, <4>1
      <4>3. s[Parent(k)].priority <= s[k].priority
        BY <4>1 DEF HeapOrdered
      <4> QED
        BY <1>1, <4>1, <4>2, <4>3
    <3> QED
      BY <3>1, <3>2
  <2>2. \A j \in 1 .. k : j = k \/ j \in 1 .. k - 1
    BY <1>1
  <2> QED
    BY <1>1, <1>3, <2>1, <2>2
<1>4. n \in S
  <2> HIDE DEF S
  <2>1. 0 .. n \subseteq S
    BY <1>1, <1>2, <1>3, Induction
  <2> QED
    BY <1>1, <2>1
<1> QED
  BY <1>4

\* The loop of bubbleUp ends: the function from positions to results exists.
BubblesUp(X, s, i, x, up) ==
    /\ up \in [1 .. i -> [1 .. Len(s) -> X]]
    /\ \A k \in 1 .. i :
          up[k] = IF k = 1 \/ s[Parent(k)].priority <= x.priority
                  THEN [s EXCEPT ![k] = x]
                  ELSE [up[Parent(k)] EXCEPT ![k] = s[Parent(k)]]
    /\ BubbleUp(s, i, x) = up[i]

LEMMA BubbleUpLoop ==
    ASSUME NEW X, NEW s \in Seq(X), NEW x \in X, NEW i \in 1 .. Len(s)
    PROVE  \E up : BubblesUp(X, s, i, x, up)
<1> DEFINE n == Len(s)
           V == [1 .. n -> X]
           D == 1 .. i
           stops(k) == k = 1 \/ s[Parent(k)].priority <= x.priority
           body(k, f) == IF stops(k) THEN [s EXCEPT ![k] = x]
                         ELSE [f[Parent(k)] EXCEPT ![k] = s[Parent(k)]]
           step == [k \in D |-> [f \in [D -> V] |-> body(k, f)]]
           rank == [k \in D |-> k]
           up == CHOOSE up : up = [k \in 1 .. i |-> IF k = 1 \/ s[Parent(k)].priority <= x.priority
                            THEN [s EXCEPT ![k] = x]
                            ELSE [up[Parent(k)] EXCEPT ![k] = s[Parent(k)]]]
<1>1. n \in Nat /\ i \in 1 .. n /\ s \in V
  BY LenProperties
<1>2. BubbleUp(s, i, x) = up[i]
  BY DEF BubbleUp
<1>3. \A k \in D : k \in 1 .. n /\ (~ stops(k) => Parent(k) \in D /\ Parent(k) < k)
  <2>1. \A k \in D : k \in Nat \ {0} /\ k <= i
    BY <1>1
  <2>2. \A k \in D : k # 1 => Parent(k) \in Nat \ {0} /\ Parent(k) < k
    BY <2>1, ParentIsSmaller
  <2> QED
    BY <1>1, <2>1, <2>2
<1>4. \A k \in D : \A f \in [D -> V] : body(k, f) \in V
  BY <1>1, <1>3
<1>5. \A k \in D : \A f, g \in [D -> V] :
         (\A j \in D : j < k => f[j] = g[j]) => body(k, f) = body(k, g)
  BY <1>3
<1>6. rank \in [D -> 1 .. i] /\ \A k \in D : rank[k] = k
  OBVIOUS
<1> HIDE DEF body, V, D
<1>7. step \in [D -> [[D -> V] -> V]] /\ \A k \in D : \A f \in [D -> V] : step[k][f] = body(k, f)
  BY <1>4
<1> HIDE DEF step, rank
<1>8. \A k \in D : \A f, g \in [D -> V] :
         (\A j \in D : rank[j] < rank[k] => f[j] = g[j]) => step[k][f] = step[k][g]
  BY <1>5, <1>6, <1>7
<1>9. PICK f : Solves(D, V, step, f)
  <2>1. i \in Nat
    BY <1>1
  <2> QED
    BY <1>1, <1>6, <1>7, <1>8, <2>1, RankedRecursion, Zenon
<1>10. f \in [D -> V] /\ \A k \in D : f[k] = body(k, f)
  BY <1>7, <1>9 DEF Solves
<1>11. f = [k \in D |-> body(k, f)]
  BY <1>10
<1>12. up = [k \in D |-> body(k, up)]
  BY <1>11 DEF body, D
<1> HIDE DEF up
<1>13. up = f
  <2> DEFINE S == {k \in 0 .. i : \A j \in 1 .. k : up[j] = f[j]}
  <2>1. 0 \in S
    BY <1>1
  <2>2. ASSUME NEW k \in 1 .. i, k - 1 \in S PROVE k \in S
    <3>1. up[k] = body(k, up) /\ f[k] = body(k, f)
      BY <1>10, <1>12 DEF D
    <3>2. ~ stops(k) => Parent(k) \in 1 .. k - 1
      BY <1>3 DEF D
    <3>3. \A j \in 1 .. k - 1 : up[j] = f[j]
      BY <2>2
    <3>4. up[k] = f[k]
      BY <3>1, <3>2, <3>3 DEF body
    <3>5. \A j \in 1 .. k : j = k \/ j \in 1 .. k - 1
      BY <1>1
    <3> QED
      BY <1>1, <3>3, <3>4, <3>5
  <2> HIDE DEF S
  <2>3. 0 .. i \subseteq S
    BY <1>1, <2>1, <2>2, Induction
  <2>4. \A j \in 1 .. i : up[j] = f[j]
    BY <1>1, <2>3 DEF S
  <2> QED
    BY <1>10, <1>12, <2>4 DEF D
<1>14. BubblesUp(X, s, i, x, up)
  BY <1>2, <1>10, <1>13 DEF body, V, D, BubblesUp
<1> QED
  BY <1>14

\* What the loop makes of s when x has risen to position k: below k nothing
\* has changed, up to k the order holds, and above k no priority has grown.
Risen(s, x, k, r) ==
    /\ \A j \in k + 1 .. Len(s) : r[j] = s[j]
    /\ \A j \in 2 .. k : r[Parent(j)].priority <= r[j].priority
    /\ \A j \in 1 .. k - 1 : r[j].priority <= s[j].priority
    /\ r[k] = x \/ (k # 1 /\ r[k] = s[Parent(k)])
    /\ {r[j] : j \in 1 .. k} = {s[j] : j \in 1 .. k - 1} \cup {x}

\* Where bubbleUp stops, the item is in its place.
LEMMA RisenStops ==
    ASSUME NEW X, Items(X), NEW s \in Seq(X), NEW x \in X, NEW k \in 1 .. Len(s),
           \A j \in 2 .. Len(s) - 1 : s[Parent(j)].priority <= s[j].priority,
           k = 1 \/ s[Parent(k)].priority <= x.priority
    PROVE  Risen(s, x, k, [s EXCEPT ![k] = x])
<1> DEFINE n == Len(s)
           r == [s EXCEPT ![k] = x]
<1>1. n \in Nat /\ DOMAIN s = 1 .. n /\ \A j \in 1 .. n : s[j].priority \in Nat
  BY LenProperties DEF Items
<1>2. r[k] = x /\ \A j \in 1 .. n : j # k => r[j] = s[j]
  BY <1>1
<1> HIDE DEF r, n
<1>3. \A j \in k + 1 .. n : r[j] = s[j]
  BY <1>1, <1>2 DEF n
<1>4. ASSUME NEW j \in 2 .. k PROVE r[Parent(j)].priority <= r[j].priority
  <2>1. Parent(j) \in 1 .. n /\ Parent(j) # k /\ j \in 1 .. n
    BY <1>1, ParentIsSmaller DEF n
  <2>2. r[Parent(j)] = s[Parent(j)]
    BY <1>2, <2>1
  <2>3. CASE j = k
    BY <1>2, <2>2, <2>3
  <2>4. CASE j # k
    <3>1. j \in 2 .. n - 1
      BY <1>1, <2>4 DEF n
    <3> QED
      BY <1>2, <2>1, <2>2, <2>4, <3>1 DEF n
  <2> QED
    BY <2>3, <2>4
<1>5. \A j \in 1 .. k - 1 : r[j].priority <= s[j].priority /\ r[j] = s[j]
  BY <1>1, <1>2 DEF n
<1>6. {r[j] : j \in 1 .. k} = {s[j] : j \in 1 .. k - 1} \cup {x}
  <2>1. \A j \in 1 .. k : j = k \/ j \in 1 .. k - 1
    BY <1>1 DEF n
  <2>2. k \in 1 .. k /\ \A j \in 1 .. k - 1 : j \in 1 .. k
    BY <1>1 DEF n
  <2> QED
    BY <1>2, <1>5, <2>1, <2>2
<1> QED
  BY <1>2, <1>3, <1>4, <1>5, <1>6 DEF Risen, r, n

\* Where it goes on, what was made above leaves a place for the parent.
LEMMA RisenGoesOn ==
    ASSUME NEW X, Items(X), NEW s \in Seq(X), NEW x \in X, NEW k \in 2 .. Len(s),
           \A j \in 2 .. Len(s) - 1 : s[Parent(j)].priority <= s[j].priority,
           ~ (s[Parent(k)].priority <= x.priority),
           NEW q \in [1 .. Len(s) -> X], Risen(s, x, Parent(k), q)
    PROVE  Risen(s, x, k, [q EXCEPT ![k] = s[Parent(k)]])
<1> DEFINE n == Len(s)
           m == Parent(k)
           r == [q EXCEPT ![k] = s[m]]
<1>1. n \in Nat /\ \A j \in 1 .. n : s[j].priority \in Nat /\ q[j].priority \in Nat
  BY LenProperties DEF Items
<1>2. m \in 1 .. k - 1 /\ k \in 2 .. n /\ m \in 1 .. n /\ x.priority \in Nat
  BY <1>1, ParentIsSmaller DEF Items
<1>3. r[k] = s[m] /\ \A j \in 1 .. n : j # k => r[j] = q[j]
  BY <1>2
<1>4. /\ \A j \in m + 1 .. n : q[j] = s[j]
      /\ \A j \in 2 .. m : q[Parent(j)].priority <= q[j].priority
      /\ \A j \in 1 .. m - 1 : q[j].priority <= s[j].priority
      /\ q[m] = x \/ (m # 1 /\ q[m] = s[Parent(m)])
      /\ {q[j] : j \in 1 .. m} = {s[j] : j \in 1 .. m - 1} \cup {x}
  BY DEF Risen
<1>5. \A j \in 2 .. n - 1 : s[Parent(j)].priority <= s[j].priority
  OBVIOUS
<1>6. ~ (s[m].priority <= x.priority)
  OBVIOUS
<1>up. \A j \in 2 .. k : Parent(j) \in 1 .. m /\ Parent(j) < j
  <2> SUFFICES ASSUME NEW j \in 2 .. k PROVE Parent(j) \in 1 .. m /\ Parent(j) < j
    OBVIOUS
  <2>1. j \in Nat \ {0, 1} /\ j \in Nat /\ k \in Nat /\ j <= k
    BY <1>2
  <2>2. Parent(j) \in Nat \ {0} /\ Parent(j) < j /\ Parent(j) <= m
    BY <2>1, ParentIsSmaller
  <2> HIDE DEF m
  <2> QED
    BY <1>2, <2>2
<1> HIDE DEF r, n, m
<1>7. q[m].priority <= s[m].priority
  <2>1. CASE q[m] = x
    BY <1>1, <1>2, <1>6, <2>1
  <2>2. CASE m # 1 /\ q[m] = s[Parent(m)]
    <3>1. m \in 2 .. n - 1
      BY <1>1, <1>2, <2>2
    <3> QED
      BY <1>5, <2>2, <3>1
  <2> QED
    BY <1>4, <2>1, <2>2
<1>8. ASSUME NEW j \in 1 .. k - 1 PROVE q[j].priority <= s[j].priority
  <2>1. j \in 1 .. m - 1 \/ j = m \/ j \in m + 1 .. n
    BY <1>1, <1>2
  <2>2. s[j].priority \in Nat
    BY <1>1, <1>2
  <2> QED
    BY <1>4, <1>7, <2>1, <2>2
<1>9. ASSUME NEW j \in 2 .. k PROVE r[Parent(j)].priority <= r[j].priority
  <2>1. Parent(j) \in 1 .. m /\ Parent(j) \in 1 .. n /\ Parent(j) # k /\ r[Parent(j)] = q[Parent(j)]
    BY <1>up, <1>1, <1>2, <1>3
  <2>2. CASE j = k
    BY <1>3, <1>7, <2>1, <2>2 DEF m
  <2>3. CASE j \in 2 .. m
    <3>1. j \in 1 .. n /\ j # k
      BY <1>1, <1>2, <2>3
    <3> QED
      BY <1>3, <1>4, <2>1, <2>3, <3>1
  <2>4. CASE j \in m + 1 .. k - 1
    <3>1. j \in 1 .. n /\ j # k /\ j \in m + 1 .. n /\ j \in 2 .. n - 1
      BY <1>1, <1>2, <2>4
    <3>2. r[j] = s[j]
      BY <1>3, <1>4, <3>1
    <3>3. s[Parent(j)].priority <= s[j].priority
      BY <1>5, <3>1
    <3>4. q[Parent(j)].priority <= s[Parent(j)].priority
      <4>1. Parent(j) \in 1 .. k - 1
        BY <1>2, <2>1
      <4> QED
        BY <1>8, <4>1
    <3> QED
      BY <1>1, <2>1, <3>1, <3>2, <3>3, <3>4
  <2> QED
    BY <1>1, <1>2, <2>2, <2>3, <2>4
<1>10. \A j \in k + 1 .. n : r[j] = s[j]
  <2>1. \A j \in k + 1 .. n : j \in 1 .. n /\ j # k /\ j \in m + 1 .. n
    BY <1>1, <1>2
  <2> QED
    BY <1>3, <1>4, <2>1
<1>11. \A j \in 1 .. k - 1 : r[j].priority <= s[j].priority
  <2>1. \A j \in 1 .. k - 1 : j \in 1 .. n /\ j # k
    BY <1>1, <1>2
  <2> QED
    BY <1>3, <1>8, <2>1
<1>12. {r[j] : j \in 1 .. k} = {s[j] : j \in 1 .. k - 1} \cup {x}
  <2>1. ASSUME NEW j \in 1 .. k PROVE r[j] \in {s[i] : i \in 1 .. k - 1} \cup {x}
    <3>1. CASE j = k
      BY <1>2, <1>3, <3>1
    <3>2. CASE j \in m + 1 .. k - 1
      <4>1. j \in 1 .. n /\ j # k /\ j \in m + 1 .. n /\ j \in 1 .. k - 1
        BY <1>1, <1>2, <3>2
      <4> QED
        BY <1>3, <1>4, <4>1
    <3>3. CASE j \in 1 .. m
      <4>1. j \in 1 .. n /\ j # k
        BY <1>1, <1>2, <3>3
      <4>2. r[j] \in {s[i] : i \in 1 .. m - 1} \cup {x}
        BY <1>3, <1>4, <3>3, <4>1
      <4>3. \A i \in 1 .. m - 1 : i \in 1 .. k - 1
        BY <1>2
      <4> QED
        BY <4>2, <4>3
    <3>4. j = k \/ j \in m + 1 .. k - 1 \/ j \in 1 .. m
      BY <1>2
    <3> QED
      BY <3>1, <3>2, <3>3, <3>4
  <2>2. \A j \in 1 .. m : q[j] \in {r[i] : i \in 1 .. k}
    <3>1. \A j \in 1 .. m : j \in 1 .. k /\ j # k /\ j \in 1 .. n
      BY <1>1, <1>2
    <3> QED
      BY <1>3, <3>1
  <2>3. ASSUME NEW j \in 1 .. k - 1 PROVE s[j] \in {r[i] : i \in 1 .. k}
    <3>1. CASE j = m
      <4>1. k \in 1 .. k
        BY <1>2
      <4> QED
        BY <1>3, <3>1, <4>1
    <3>2. CASE j \in m + 1 .. k - 1
      <4>1. j \in 1 .. n /\ j # k /\ j \in m + 1 .. n /\ j \in 1 .. k
        BY <1>1, <1>2, <3>2
      <4> QED
        BY <1>3, <1>4, <4>1
    <3>3. CASE j \in 1 .. m - 1
      <4>1. s[j] \in {q[i] : i \in 1 .. m}
        BY <1>4, <3>3
      <4> QED
        BY <2>2, <4>1
    <3>4. j = m \/ j \in m + 1 .. k - 1 \/ j \in 1 .. m - 1
      BY <1>2
    <3> QED
      BY <3>1, <3>2, <3>3, <3>4
  <2>4. x \in {r[i] : i \in 1 .. k}
    <3>1. x \in {q[j] : j \in 1 .. m}
      BY <1>4
    <3> QED
      BY <2>2, <3>1
  <2> QED
    BY <2>1, <2>3, <2>4
<1>13. Risen(s, x, k, r)
  <2>1. r[k] = x \/ (k # 1 /\ r[k] = s[Parent(k)])
    BY <1>2, <1>3 DEF m
  <2>2. \A j \in 2 .. k : r[Parent(j)].priority <= r[j].priority
    BY <1>9
  <2> QED
    BY <1>10, <1>11, <1>12, <2>1, <2>2, Zenon DEF Risen, n
<1> QED
  BY <1>13 DEF r, m

\* push() keeps the order and adds the item.
LEMMA PushProperties ==
    ASSUME NEW X, Items(X), NEW h \in Seq(X), HeapOrdered(h), NEW x \in X
    PROVE  /\ Push(h, x) \in Seq(X) /\ Len(Push(h, x)) = Len(h) + 1
           /\ HeapOrdered(Push(h, x))
           /\ Range(Push(h, x)) = Range(h) \cup {x}
<1> DEFINE s == Append(h, x)
           n == Len(s)
<1>1. /\ Len(h) \in Nat /\ s \in Seq(X) /\ n = Len(h) + 1 /\ DOMAIN h = 1 .. Len(h)
      /\ \A i \in 1 .. n - 1 : s[i] = h[i]
  BY AppendProperties, LenProperties
<1>2. Push(h, x) = BubbleUp(s, n, x)
  BY <1>1 DEF Push
<1>3. \A j \in 2 .. n - 1 : s[Parent(j)].priority <= s[j].priority
  <2>1. \A j \in 2 .. n - 1 : Parent(j) \in 1 .. n - 1 /\ j \in 1 .. n - 1
    BY <1>1, ParentIsSmaller
  <2> QED
    BY <1>1, <2>1 DEF HeapOrdered
<1> HIDE DEF s
<1>4. n \in 1 .. Len(s)
  BY <1>1
<1>5. PICK up : BubblesUp(X, s, n, x, up)
  BY <1>1, <1>4, BubbleUpLoop
<1>loop. /\ up \in [1 .. n -> [1 .. n -> X]] /\ BubbleUp(s, n, x) = up[n]
       /\ \A k \in 1 .. n :
             up[k] = IF k = 1 \/ s[Parent(k)].priority <= x.priority
                     THEN [s EXCEPT ![k] = x]
                     ELSE [up[Parent(k)] EXCEPT ![k] = s[Parent(k)]]
  BY <1>5 DEF BubblesUp
<1>6. ASSUME NEW k \in 1 .. n, \A j \in 1 .. k - 1 : Risen(s, x, j, up[j])
      PROVE  Risen(s, x, k, up[k])
  <2>1. CASE k = 1 \/ s[Parent(k)].priority <= x.priority
    <3>1. up[k] = [s EXCEPT ![k] = x]
      BY <1>loop, <2>1
    <3>2. s \in Seq(X)
      BY <1>1
    <3>3. Risen(s, x, k, [s EXCEPT ![k] = x])
      BY <1>3, <2>1, <3>2, RisenStops
    <3> QED
      BY <3>1, <3>3
  <2>2. CASE ~ (k = 1 \/ s[Parent(k)].priority <= x.priority)
    <3>1. up[k] = [up[Parent(k)] EXCEPT ![k] = s[Parent(k)]]
      BY <1>loop, <2>2
    <3>2. k \in 2 .. n /\ Parent(k) \in 1 .. k - 1 /\ Parent(k) \in 1 .. n
      BY <1>1, <2>2, ParentIsSmaller
    <3>3. Risen(s, x, Parent(k), up[Parent(k)]) /\ up[Parent(k)] \in [1 .. Len(s) -> X]
      BY <1>loop, <1>6, <3>2
    <3> DEFINE q == up[Parent(k)]
    <3>4. s \in Seq(X) /\ q \in [1 .. Len(s) -> X] /\ k \in 2 .. Len(s) /\ Risen(s, x, Parent(k), q)
      BY <1>1, <3>2, <3>3
    <3> HIDE DEF q
    <3>5. Risen(s, x, k, [q EXCEPT ![k] = s[Parent(k)]])
      BY <1>3, <2>2, <3>4, RisenGoesOn
    <3> QED
      BY <3>1, <3>5 DEF q
  <2> QED
    BY <2>1, <2>2
<1>7. Risen(s, x, n, up[n])
  <2> DEFINE S == {k \in 0 .. n : \A j \in 1 .. k : Risen(s, x, j, up[j])}
  <2>1. 0 \in S
    BY <1>1
  <2>2. ASSUME NEW k \in 1 .. n, k - 1 \in S PROVE k \in S
    <3>1. \A j \in 1 .. k : j = k \/ j \in 1 .. k - 1
      BY <1>1
    <3> QED
      BY <1>1, <1>6, <2>2, <3>1
  <2>3. n \in Nat
    BY <1>1
  <2> HIDE DEF S, n
  <2>4. 0 .. n \subseteq S
    BY <2>1, <2>2, <2>3, Induction
  <2> QED
    BY <2>3, <2>4, <1>1 DEF S
<1> DEFINE r == up[n]
<1>8. r \in [1 .. n -> X]
  BY <1>1, <1>loop
<1> HIDE DEF r
<1>9. r \in Seq(X) /\ Len(r) = n
  <2>1. n \in Nat
    BY <1>1
  <2> HIDE DEF n
  <2>2. r \in Seq(X)
    BY <1>8, <2>1, SeqDef
  <2> QED
    BY <1>8, <2>1, <2>2, LenProperties
<1>10. HeapOrdered(r)
  BY <1>7, <1>9 DEF HeapOrdered, Risen, r
<1>11. Range(r) = Range(h) \cup {x}
  <2>1. Range(r) = {r[j] : j \in 1 .. n}
    BY <1>8 DEF Range
  <2>2. {r[j] : j \in 1 .. n} = {s[j] : j \in 1 .. n - 1} \cup {x}
    BY <1>7 DEF Risen, r
  <2>3. Range(h) = {h[j] : j \in 1 .. n - 1}
    BY <1>1 DEF Range
  <2>4. {s[j] : j \in 1 .. n - 1} = {h[j] : j \in 1 .. n - 1}
    BY <1>1
  <2> QED
    BY <2>1, <2>2, <2>3, <2>4
<1> QED
  BY <1>1, <1>2, <1>loop, <1>9, <1>10, <1>11 DEF r

\* Which child sinkDown swaps with, and why the other one may stay.
LEMMA SmallerChildProperties ==
    ASSUME NEW X, Items(X), NEW s \in Seq(X), NEW x \in X, NEW k \in 1 .. Len(s)
    PROVE  LET c == SmallerChild(s, k, x)
           IN /\ c \in k .. Len(s)
              /\ c = k => \A j \in 1 .. Len(s) : Parent(j) = k => x.priority <= s[j].priority
              /\ c # k => /\ Parent(c) = k
                          /\ s[c].priority < x.priority
                          /\ \A j \in 1 .. Len(s) : Parent(j) = k => s[c].priority <= s[j].priority
<1> DEFINE n == Len(s)
           left == IF 2 * k <= n /\ s[2 * k].priority < x.priority THEN 2 * k ELSE k
           best == IF left = k THEN x.priority ELSE s[left].priority
           c == IF 2 * k + 1 <= n /\ s[2 * k + 1].priority < best THEN 2 * k + 1 ELSE left
<1>1. n \in Nat /\ x.priority \in Nat /\ \A j \in 1 .. n : s[j].priority \in Nat
  BY LenProperties DEF Items
<1>2. SmallerChild(s, k, x) = c
  BY DEF SmallerChild
<1>3. k \in 1 .. n
  OBVIOUS
<1>4. \A j \in 1 .. n : Parent(j) = k => j = 2 * k \/ j = 2 * k + 1
  BY <1>1, <1>3, ParentIsSmaller
<1>5. Parent(2 * k) = k /\ Parent(2 * k + 1) = k
  BY <1>3, <1>1, ParentIsSmaller
<1> HIDE DEF n
<1>6. /\ left \in k .. n /\ best \in Nat /\ best <= x.priority
      /\ (2 * k <= n => best <= s[2 * k].priority)
      /\ (left = k => best = x.priority)
      /\ (left # k => left = 2 * k /\ best = s[left].priority /\ best < x.priority)
  <2>1. CASE 2 * k <= n /\ s[2 * k].priority < x.priority
    <3>1. left = 2 * k /\ 2 * k # k /\ 2 * k \in 1 .. n /\ 2 * k \in k .. n
      BY <1>1, <1>3, <2>1
    <3>2. best = s[2 * k].priority /\ best \in Nat
      BY <1>1, <3>1
    <3> HIDE DEF left, best
    <3> QED
      BY <1>1, <2>1, <3>1, <3>2
  <2>2. CASE ~ (2 * k <= n /\ s[2 * k].priority < x.priority)
    <3>1. left = k /\ best = x.priority
      BY <2>2
    <3>2. 2 * k <= n => 2 * k \in 1 .. n
      BY <1>1, <1>3
    <3> HIDE DEF left, best
    <3> QED
      BY <1>1, <1>3, <2>2, <3>1, <3>2
  <2> QED
    BY <2>1, <2>2
<1> HIDE DEF left, best
<1>7. CASE 2 * k + 1 <= n /\ s[2 * k + 1].priority < best
  <2>1. c = 2 * k + 1 /\ c \in 1 .. n /\ c \in k .. n /\ c # k
    BY <1>1, <1>3, <1>7
  <2>2. s[c].priority < x.priority /\ s[c].priority < best
    BY <1>1, <1>6, <1>7, <2>1
  <2> HIDE DEF c
  <2>3. ASSUME NEW j \in 1 .. n, Parent(j) = k PROVE s[c].priority <= s[j].priority
    <3>1. CASE j = 2 * k
      <4>1. best <= s[j].priority /\ s[j].priority \in Nat /\ s[c].priority \in Nat
        BY <1>1, <1>6, <2>1, <3>1
      <4> QED
        BY <1>6, <2>2, <4>1
    <3>2. CASE j = 2 * k + 1
      BY <1>1, <2>1, <3>2
    <3> QED
      BY <1>4, <2>3, <3>1, <3>2
  <2> QED
    BY <1>2, <1>5, <2>1, <2>2, <2>3 DEF n
<1>8. CASE ~ (2 * k + 1 <= n /\ s[2 * k + 1].priority < best)
  <2>1. c = left
    BY <1>8
  <2> HIDE DEF c
  <2>2. ASSUME NEW j \in 1 .. n, Parent(j) = k PROVE best <= s[j].priority
    <3>1. CASE j = 2 * k
      BY <1>1, <1>6, <3>1
    <3>2. CASE j = 2 * k + 1
      BY <1>1, <1>6, <1>8, <3>2
    <3> QED
      BY <1>4, <2>2, <3>1, <3>2
  <2> QED
    BY <1>2, <1>5, <1>6, <2>1, <2>2 DEF n
<1> QED
  BY <1>7, <1>8

\* The loop of sinkDown ends, too.
SinksDown(X, s, x, sink) ==
    /\ sink \in [1 .. Len(s) -> [1 .. Len(s) -> X]]
    /\ \A k \in 1 .. Len(s) :
          sink[k] = IF SmallerChild(s, k, x) = k THEN [s EXCEPT ![k] = x]
                    ELSE [sink[SmallerChild(s, k, x)] EXCEPT ![k] = s[SmallerChild(s, k, x)]]
    /\ SinkDown(s, x) = sink[1]

LEMMA SinkDownLoop ==
    ASSUME NEW X, Items(X), NEW s \in Seq(X), NEW x \in X
    PROVE  \E sink : SinksDown(X, s, x, sink)
<1> DEFINE n == Len(s)
           V == [1 .. n -> X]
           D == 1 .. n
           child(k) == SmallerChild(s, k, x)
           body(k, f) == IF child(k) = k THEN [s EXCEPT ![k] = x]
                         ELSE [f[child(k)] EXCEPT ![k] = s[child(k)]]
           step == [k \in D |-> [f \in [D -> V] |-> body(k, f)]]
           rank == [k \in D |-> n + 1 - k]
           sink == CHOOSE sink : sink = [k \in 1 .. n |->
                        LET c == SmallerChild(s, k, x)
                        IN IF c = k THEN [s EXCEPT ![k] = x]
                           ELSE [sink[c] EXCEPT ![k] = s[c]]]
<1>1. n \in Nat /\ s \in V
  BY LenProperties
<1>2. SinkDown(s, x) = sink[1]
  BY DEF SinkDown
<1>3. \A k \in D : child(k) \in D /\ (child(k) # k => child(k) > k)
  <2>1. ASSUME NEW k \in D PROVE child(k) \in k .. n
    BY SmallerChildProperties
  <2> HIDE DEF child
  <2> QED
    BY <1>1, <2>1
<1> HIDE DEF child
<1>4. \A k \in D : \A f \in [D -> V] : body(k, f) \in V
  BY <1>1, <1>3
<1>5. \A k \in D : \A f, g \in [D -> V] :
         (\A j \in D : j > k => f[j] = g[j]) => body(k, f) = body(k, g)
  BY <1>3
<1>6. rank \in [D -> 1 .. n] /\ \A j, k \in D : rank[j] < rank[k] <=> j > k
  BY <1>1
<1>7. sink = CHOOSE g : g = [k \in D |-> body(k, g)]
  BY DEF child
<1> HIDE DEF body, V, D, sink, n
<1>8. step \in [D -> [[D -> V] -> V]] /\ \A k \in D : \A f \in [D -> V] : step[k][f] = body(k, f)
  BY <1>4
<1> HIDE DEF step, rank
<1>9. \A k \in D : \A f, g \in [D -> V] :
         (\A j \in D : rank[j] < rank[k] => f[j] = g[j]) => step[k][f] = step[k][g]
  <2>1. ASSUME NEW k \in D, NEW f \in [D -> V], NEW g \in [D -> V],
               \A j \in D : rank[j] < rank[k] => f[j] = g[j]
        PROVE  step[k][f] = step[k][g]
    <3>1. \A j \in D : j > k => f[j] = g[j]
      BY <1>6, <2>1
    <3>2. body(k, f) = body(k, g)
      BY <1>5, <3>1
    <3> QED
      BY <1>8, <3>2
  <2> QED
    BY <2>1
<1>10. PICK f : Solves(D, V, step, f)
  BY <1>1, <1>6, <1>8, <1>9, RankedRecursion, Zenon
<1>11. f \in [D -> V] /\ \A k \in D : f[k] = body(k, f)
  BY <1>8, <1>10 DEF Solves
<1>12. f = [k \in D |-> body(k, f)]
  BY <1>11
<1>13. sink = [k \in D |-> body(k, sink)]
  BY <1>7, <1>12
<1>14. sink = f
  <2> DEFINE S == {d \in 0 .. n : \A j \in n + 1 - d .. n : sink[j] = f[j]}
  <2>1. 0 \in S
    BY <1>1
  <2>2. ASSUME NEW d \in 1 .. n, d - 1 \in S PROVE d \in S
    <3> DEFINE k == n + 1 - d
    <3>1. k \in D /\ k \in 1 .. n
      BY <1>1 DEF D
    <3>2. sink[k] = body(k, sink) /\ f[k] = body(k, f)
      BY <1>11, <1>13, <3>1
    <3>3. child(k) # k => child(k) \in n + 1 - (d - 1) .. n
      BY <1>1, <1>3, <3>1 DEF D
    <3>4. \A j \in n + 1 - (d - 1) .. n : sink[j] = f[j]
      BY <2>2
    <3>5. sink[k] = f[k]
      BY <3>2, <3>3, <3>4 DEF body
    <3>6. \A j \in k .. n : j = k \/ j \in n + 1 - (d - 1) .. n
      BY <1>1
    <3> QED
      BY <1>1, <3>4, <3>5, <3>6
  <2> HIDE DEF S
  <2>3. 0 .. n \subseteq S
    BY <1>1, <2>1, <2>2, Induction
  <2>4. n \in S /\ n + 1 - n = 1
    BY <1>1, <2>3
  <2>5. \A j \in D : sink[j] = f[j]
    BY <2>4 DEF S, D
  <2> QED
    BY <1>11, <1>13, <2>5
<1>15. SinksDown(X, s, x, sink)
  BY <1>2, <1>11, <1>14 DEF body, child, V, D, n, SinksDown
<1> QED
  BY <1>15

\* What the loop makes of s when x has sunk from position k: above k nothing
\* has changed, from k on the order holds, and no priority below k has shrunk.
Sunk(s, x, k, r) ==
    /\ \A j \in 1 .. k - 1 : r[j] = s[j]
    /\ \A j \in 2 .. Len(s) : Parent(j) >= k => r[Parent(j)].priority <= r[j].priority
    /\ \A j \in k + 1 .. Len(s) : s[j].priority <= r[j].priority
    /\ r[k] = x \/ \E c \in k + 1 .. Len(s) : Parent(c) = k /\ r[k] = s[c]
    /\ {r[j] : j \in k .. Len(s)} = {s[j] : j \in k + 1 .. Len(s)} \cup {x}

\* Where sinkDown stops, the item is in its place.
LEMMA SunkStops ==
    ASSUME NEW X, Items(X), NEW s \in Seq(X), HeapOrdered(s), NEW x \in X, NEW k \in 1 .. Len(s),
           \A j \in 1 .. Len(s) : Parent(j) = k => x.priority <= s[j].priority
    PROVE  Sunk(s, x, k, [s EXCEPT ![k] = x])
<1> DEFINE n == Len(s)
           r == [s EXCEPT ![k] = x]
<1>1. n \in Nat /\ DOMAIN s = 1 .. n /\ \A j \in 1 .. n : s[j].priority \in Nat
  BY LenProperties DEF Items
<1>2. r[k] = x /\ \A j \in 1 .. n : j # k => r[j] = s[j]
  BY <1>1
<1>3. k \in 1 .. n /\ (\A j \in 1 .. n : Parent(j) = k => x.priority <= s[j].priority)
      /\ \A j \in 2 .. n : s[Parent(j)].priority <= s[j].priority
  BY DEF HeapOrdered
<1> HIDE DEF r, n
<1>4. \A j \in 1 .. k - 1 : r[j] = s[j]
  BY <1>1, <1>2, <1>3
<1>5. ASSUME NEW j \in 2 .. n, Parent(j) >= k PROVE r[Parent(j)].priority <= r[j].priority
  <2>1. Parent(j) \in 1 .. n /\ j # k /\ j \in 1 .. n
    BY <1>1, <1>3, <1>5, ParentIsSmaller
  <2>2. r[j] = s[j]
    BY <1>2, <2>1
  <2>3. CASE Parent(j) = k
    BY <1>2, <1>3, <2>1, <2>2, <2>3
  <2>4. CASE Parent(j) # k
    BY <1>2, <1>3, <2>1, <2>2, <2>4
  <2> QED
    BY <2>3, <2>4
<1>6. \A j \in k + 1 .. n : s[j].priority <= r[j].priority /\ r[j] = s[j]
  <2>1. \A j \in k + 1 .. n : j \in 1 .. n /\ j # k
    BY <1>1, <1>3
  <2> QED
    BY <1>1, <1>2, <2>1
<1>7. {r[j] : j \in k .. n} = {s[j] : j \in k + 1 .. n} \cup {x}
  <2>1. \A j \in k .. n : j = k \/ j \in k + 1 .. n
    BY <1>1, <1>3
  <2>2. k \in k .. n /\ \A j \in k + 1 .. n : j \in k .. n
    BY <1>1, <1>3
  <2> QED
    BY <1>2, <1>6, <2>1, <2>2
<1>8. Sunk(s, x, k, r)
  <2>1. \A j \in 2 .. n : Parent(j) >= k => r[Parent(j)].priority <= r[j].priority
    BY <1>5
  <2>2. \A j \in k + 1 .. n : s[j].priority <= r[j].priority
    BY <1>6
  <2> QED
    BY <1>2, <1>4, <1>7, <2>1, <2>2, Zenon DEF Sunk, n
<1> QED
  BY <1>8 DEF r

\* Where it goes on, the smaller child is above its sibling.
LEMMA SunkGoesOn ==
    ASSUME NEW X, Items(X), NEW s \in Seq(X), HeapOrdered(s), NEW x \in X, NEW k \in 1 .. Len(s),
           NEW c \in k + 1 .. Len(s), Parent(c) = k, s[c].priority < x.priority,
           \A j \in 1 .. Len(s) : Parent(j) = k => s[c].priority <= s[j].priority,
           NEW q \in [1 .. Len(s) -> X], Sunk(s, x, c, q)
    PROVE  Sunk(s, x, k, [q EXCEPT ![k] = s[c]])
<1> DEFINE n == Len(s)
           r == [q EXCEPT ![k] = s[c]]
<1>1. n \in Nat /\ \A j \in 1 .. n : s[j].priority \in Nat /\ q[j].priority \in Nat
  BY LenProperties DEF Items
<1>2. k \in 1 .. n /\ c \in k + 1 .. n /\ c \in 1 .. n /\ c # k /\ x.priority \in Nat
  BY <1>1 DEF Items
<1>3. r[k] = s[c] /\ \A j \in 1 .. n : j # k => r[j] = q[j]
  BY <1>2
<1>4. /\ \A j \in 1 .. c - 1 : q[j] = s[j]
      /\ \A j \in 2 .. n : Parent(j) >= c => q[Parent(j)].priority <= q[j].priority
      /\ \A j \in c + 1 .. n : s[j].priority <= q[j].priority
      /\ q[c] = x \/ \E d \in c + 1 .. n : Parent(d) = c /\ q[c] = s[d]
      /\ {q[j] : j \in c .. n} = {s[j] : j \in c + 1 .. n} \cup {x}
  BY DEF Sunk
<1>5. /\ \A j \in 2 .. n : s[Parent(j)].priority <= s[j].priority
      /\ \A j \in 1 .. n : Parent(j) = k => s[c].priority <= s[j].priority
  BY DEF HeapOrdered
<1>6. s[c].priority < x.priority
  OBVIOUS
<1>7. \A j \in 2 .. n : Parent(j) \in 1 .. n /\ Parent(j) < j /\ j \in 1 .. n
  BY <1>1, ParentIsSmaller
<1> HIDE DEF r, n
<1>8. s[c].priority <= q[c].priority
  <2>1. CASE q[c] = x
    BY <1>1, <1>2, <1>6, <2>1
  <2>2. ASSUME NEW d \in c + 1 .. n, Parent(d) = c, q[c] = s[d]
        PROVE  s[c].priority <= q[c].priority
    <3>1. d \in 2 .. n
      BY <1>1, <1>2
    <3> QED
      BY <1>5, <2>2, <3>1
  <2> QED
    BY <1>4, <2>1, <2>2
<1>9. ASSUME NEW j \in k + 1 .. n PROVE s[j].priority <= q[j].priority
  <2>1. j \in 1 .. c - 1 \/ j = c \/ j \in c + 1 .. n
    BY <1>1, <1>2
  <2>2. s[j].priority \in Nat
    BY <1>1, <1>2
  <2> QED
    BY <1>4, <1>8, <2>1, <2>2
<1>10. \A j \in 1 .. k - 1 : r[j] = s[j]
  <2>1. \A j \in 1 .. k - 1 : j \in 1 .. n /\ j # k /\ j \in 1 .. c - 1
    BY <1>1, <1>2
  <2> QED
    BY <1>3, <1>4, <2>1
<1>11. ASSUME NEW j \in 2 .. n, Parent(j) >= k PROVE r[Parent(j)].priority <= r[j].priority
  <2>1. Parent(j) \in 1 .. n /\ j \in k + 1 .. n /\ j \in 1 .. n /\ j # k /\ r[j] = q[j]
    BY <1>1, <1>2, <1>3, <1>7, <1>11
  <2>2. s[j].priority <= q[j].priority
    BY <1>9, <2>1
  <2>3. CASE Parent(j) = k
    <3>1. s[c].priority <= s[j].priority
      BY <1>5, <2>1, <2>3
    <3> QED
      BY <1>1, <1>2, <1>3, <2>1, <2>2, <2>3, <3>1
  <2>4. CASE Parent(j) \in k + 1 .. c - 1
    <3>1. r[Parent(j)] = s[Parent(j)]
      <4>1. Parent(j) # k /\ Parent(j) \in 1 .. c - 1
        BY <1>2, <2>4
      <4> QED
        BY <1>3, <1>4, <2>1, <4>1
    <3>2. s[Parent(j)].priority <= s[j].priority
      BY <1>5
    <3> QED
      BY <1>1, <2>1, <2>2, <3>1, <3>2
  <2>5. CASE Parent(j) >= c
    <3>1. Parent(j) # k
      BY <1>1, <1>2, <2>1, <2>5
    <3> QED
      BY <1>3, <1>4, <2>1, <2>5, <3>1
  <2> QED
    BY <1>1, <1>2, <1>11, <2>1, <2>3, <2>4, <2>5
<1>12. \A j \in k + 1 .. n : s[j].priority <= r[j].priority
  <2>1. \A j \in k + 1 .. n : j \in 1 .. n /\ j # k
    BY <1>1, <1>2
  <2> QED
    BY <1>3, <1>9, <2>1
<1>13. {r[j] : j \in k .. n} = {s[j] : j \in k + 1 .. n} \cup {x}
  <2>1. ASSUME NEW j \in k .. n PROVE r[j] \in {s[i] : i \in k + 1 .. n} \cup {x}
    <3>1. CASE j = k
      BY <1>2, <1>3, <3>1
    <3>2. CASE j \in k + 1 .. c - 1
      <4>1. j \in 1 .. n /\ j # k /\ j \in 1 .. c - 1 /\ j \in k + 1 .. n
        BY <1>1, <1>2, <3>2
      <4> QED
        BY <1>3, <1>4, <4>1
    <3>3. CASE j \in c .. n
      <4>1. j \in 1 .. n /\ j # k
        BY <1>1, <1>2, <3>3
      <4>2. r[j] \in {s[i] : i \in c + 1 .. n} \cup {x}
        BY <1>3, <1>4, <3>3, <4>1
      <4>3. \A i \in c + 1 .. n : i \in k + 1 .. n
        BY <1>1, <1>2
      <4> QED
        BY <4>2, <4>3
    <3>4. j = k \/ j \in k + 1 .. c - 1 \/ j \in c .. n
      BY <1>1, <1>2
    <3> QED
      BY <3>1, <3>2, <3>3, <3>4
  <2>2. \A j \in c .. n : q[j] \in {r[i] : i \in k .. n}
    <3>1. \A j \in c .. n : j \in k .. n /\ j # k /\ j \in 1 .. n
      BY <1>1, <1>2
    <3> QED
      BY <1>3, <3>1
  <2>3. ASSUME NEW j \in k + 1 .. n PROVE s[j] \in {r[i] : i \in k .. n}
    <3>1. CASE j = c
      <4>1. k \in k .. n
        BY <1>1, <1>2
      <4> QED
        BY <1>3, <3>1, <4>1
    <3>2. CASE j \in k + 1 .. c - 1
      <4>1. j \in 1 .. n /\ j # k /\ j \in 1 .. c - 1 /\ j \in k .. n
        BY <1>1, <1>2, <3>2
      <4> QED
        BY <1>3, <1>4, <4>1
    <3>3. CASE j \in c + 1 .. n
      <4>1. s[j] \in {q[i] : i \in c .. n}
        BY <1>4, <3>3
      <4> QED
        BY <2>2, <4>1
    <3>4. j = c \/ j \in k + 1 .. c - 1 \/ j \in c + 1 .. n
      BY <1>1, <1>2
    <3> QED
      BY <3>1, <3>2, <3>3, <3>4
  <2>4. x \in {r[i] : i \in k .. n}
    <3>1. x \in {q[j] : j \in c .. n}
      BY <1>4
    <3> QED
      BY <2>2, <3>1
  <2> QED
    BY <2>1, <2>3, <2>4
<1>14. Sunk(s, x, k, r)
  <2>1. \E d \in k + 1 .. n : Parent(d) = k /\ r[k] = s[d]
    BY <1>2, <1>3
  <2>2. \A j \in 2 .. n : Parent(j) >= k => r[Parent(j)].priority <= r[j].priority
    BY <1>11
  <2> QED
    BY <1>10, <1>12, <1>13, <2>1, <2>2, Zenon DEF Sunk, n
<1> QED
  BY <1>14 DEF r

\* The items of a sequence behind the first.
Behind(s) == {s[j] : j \in 2 .. Len(s)}

\* sinkDown() of an item that takes the place of the first.
LEMMA SinkDownProperties ==
    ASSUME NEW X, Items(X), NEW s \in Seq(X), s # <<>>, HeapOrdered(s), NEW x \in X
    PROVE  /\ SinkDown(s, x) \in Seq(X) /\ Len(SinkDown(s, x)) = Len(s)
           /\ HeapOrdered(SinkDown(s, x))
           /\ Range(SinkDown(s, x)) = Behind(s) \cup {x}
<1> DEFINE n == Len(s)
<1>1. n \in Nat \ {0} /\ n = Len(s)
  BY EmptySeq
<1>2. PICK sink : SinksDown(X, s, x, sink)
  BY SinkDownLoop
<1>3. /\ sink \in [1 .. n -> [1 .. n -> X]] /\ SinkDown(s, x) = sink[1]
      /\ \A k \in 1 .. n :
          sink[k] = IF SmallerChild(s, k, x) = k THEN [s EXCEPT ![k] = x]
                    ELSE [sink[SmallerChild(s, k, x)] EXCEPT ![k] = s[SmallerChild(s, k, x)]]
  BY <1>2 DEF SinksDown
<1>4. ASSUME NEW k \in 1 .. n, \A j \in k + 1 .. n : Sunk(s, x, j, sink[j])
      PROVE  Sunk(s, x, k, sink[k])
  <2> DEFINE c == SmallerChild(s, k, x)
  <2>1. /\ c \in k .. n
        /\ c = k => \A j \in 1 .. n : Parent(j) = k => x.priority <= s[j].priority
        /\ c # k => /\ Parent(c) = k
                    /\ s[c].priority < x.priority
                    /\ \A j \in 1 .. n : Parent(j) = k => s[c].priority <= s[j].priority
    BY SmallerChildProperties
  <2>2. sink[k] = IF c = k THEN [s EXCEPT ![k] = x] ELSE [sink[c] EXCEPT ![k] = s[c]]
    BY <1>3
  <2> HIDE DEF c
  <2>3. CASE c = k
    <3>1. Sunk(s, x, k, [s EXCEPT ![k] = x])
      BY <2>1, <2>3, SunkStops
    <3> QED
      BY <2>2, <2>3, <3>1
  <2>4. CASE c # k
    <3> DEFINE q == sink[c]
    <3>1. c \in k + 1 .. n /\ c \in 1 .. n
      BY <1>1, <2>1, <2>4
    <3>2. q \in [1 .. Len(s) -> X] /\ Sunk(s, x, c, q)
      BY <1>3, <1>4, <3>1
    <3> HIDE DEF q
    <3>3. Sunk(s, x, k, [q EXCEPT ![k] = s[c]])
      BY <2>1, <2>4, <3>1, <3>2, SunkGoesOn
    <3> QED
      BY <2>2, <2>4, <3>3 DEF q
  <2> QED
    BY <2>3, <2>4
<1>5. Sunk(s, x, 1, sink[1])
  <2> DEFINE S == {d \in 0 .. n : \A j \in n + 1 - d .. n : Sunk(s, x, j, sink[j])}
  <2> HIDE DEF n
  <2>1. 0 \in S
    BY <1>1
  <2>2. ASSUME NEW d \in 1 .. n, d - 1 \in S PROVE d \in S
    <3> DEFINE k == n + 1 - d
    <3>1. k \in 1 .. n /\ k + 1 = n + 1 - (d - 1)
      BY <1>1
    <3>2. \A j \in k + 1 .. n : Sunk(s, x, j, sink[j])
      BY <2>2, <3>1
    <3>3. Sunk(s, x, k, sink[k])
      BY <1>4, <3>1, <3>2
    <3>4. \A j \in k .. n : j = k \/ j \in k + 1 .. n
      BY <1>1
    <3> QED
      BY <1>1, <3>2, <3>3, <3>4
  <2> HIDE DEF S
  <2>3. 0 .. n \subseteq S
    BY <1>1, <2>1, <2>2, Induction
  <2>4. n \in S /\ n + 1 - n = 1 /\ 1 \in 1 .. n
    BY <1>1, <2>3
  <2> QED
    BY <2>4 DEF S
<1> DEFINE r == sink[1]
<1>6. r \in [1 .. n -> X]
  BY <1>1, <1>3
<1> HIDE DEF r, n
<1>7. r \in Seq(X) /\ Len(r) = n
  <2>1. r \in Seq(X)
    BY <1>1, <1>6, SeqDef
  <2> QED
    BY <1>1, <1>6, <2>1, LenProperties
<1>8. HeapOrdered(r)
  <2>1. \A j \in 2 .. n : Parent(j) >= 1
    BY <1>1, ParentIsSmaller
  <2>2. \A j \in 2 .. n : Parent(j) >= 1 => r[Parent(j)].priority <= r[j].priority
    BY <1>5 DEF Sunk, r, n
  <2> QED
    BY <1>7, <2>1, <2>2 DEF HeapOrdered
<1>9. Range(r) = {s[j] : j \in 2 .. n} \cup {x}
  <2>1. Range(r) = {r[j] : j \in 1 .. n}
    BY <1>6 DEF Range
  <2>2. {r[j] : j \in 1 .. n} = {s[j] : j \in 1 + 1 .. n} \cup {x}
    BY <1>5 DEF Sunk, r, n
  <2>3. 1 + 1 = 2
    OBVIOUS
  <2> QED
    BY <2>1, <2>2, <2>3
<1> QED
  BY <1>3, <1>7, <1>8, <1>9 DEF r, n, Behind

\* pop() keeps the order and every item but the first.
LEMMA PopProperties ==
    ASSUME NEW X, Items(X), NEW h \in Seq(X), h # <<>>, HeapOrdered(h)
    PROVE  /\ Pop(h) \in Seq(X) /\ Len(Pop(h)) = Len(h) - 1
           /\ HeapOrdered(Pop(h))
           /\ Range(Pop(h)) = Behind(h)
<1> DEFINE n == Len(h)
           last == h[n]
           s == SubSeq(h, 1, n - 1)
<1>1. n \in Nat \ {0} /\ DOMAIN h = 1 .. n /\ \A i \in 1 .. n : h[i] \in X
  BY EmptySeq, LenProperties
<1>2. Pop(h) = IF s = <<>> THEN <<>> ELSE SinkDown(s, last)
  BY DEF Pop
<1>3. s \in Seq(X) /\ Len(s) = n - 1 /\ \A i \in 1 .. n - 1 : s[i] = h[i]
  <2>1. 1 \in Int /\ n - 1 \in Int /\ \A i \in 1 .. n - 1 : h[i] \in X
    BY <1>1
  <2> HIDE DEF n
  <2>2. /\ s \in Seq(X)
        /\ Len(s) = IF 1 <= n - 1 THEN n - 1 - 1 + 1 ELSE 0
        /\ \A i \in 1 .. n - 1 - 1 + 1 : s[i] = h[1 + i - 1]
    BY <2>1, SubSeqProperties
  <2> HIDE DEF s
  <2> QED
    BY <1>1, <2>2
<1> HIDE DEF n, s, last
<1>4. CASE s = <<>>
  <2>1. n = 1 /\ Pop(h) = <<>>
    BY <1>1, <1>2, <1>3, <1>4
  <2>2. {h[j] : j \in 2 .. n} = {}
    BY <2>1
  <2>3. <<>> \in Seq(X) /\ Len(<<>>) = 0 /\ Range(<<>>) = {} /\ HeapOrdered(<<>>)
    BY EmptySeq DEF Range, HeapOrdered
  <2> QED
    BY <2>1, <2>2, <2>3 DEF n, Behind
<1>5. CASE s # <<>>
  <2>1. last \in X /\ n >= 2
    <3>1. n # 1
      BY <1>3, <1>5, EmptySeq
    <3> QED
      BY <1>1, <3>1 DEF last
  <2>2. HeapOrdered(s)
    <3>1. \A j \in 2 .. n - 1 : Parent(j) \in 1 .. n - 1 /\ j \in 1 .. n - 1 /\ j \in 2 .. n
      BY <1>1, ParentIsSmaller
    <3>2. \A j \in 2 .. n : h[Parent(j)].priority <= h[j].priority
      BY DEF HeapOrdered, n
    <3> QED
      BY <1>3, <3>1, <3>2 DEF HeapOrdered
  <2>3. /\ SinkDown(s, last) \in Seq(X) /\ Len(SinkDown(s, last)) = Len(s)
        /\ HeapOrdered(SinkDown(s, last))
        /\ Range(SinkDown(s, last)) = Behind(s) \cup {last}
    <3>1. s \in Seq(X) /\ last \in X
      BY <1>3, <2>1
    <3> QED
      BY <1>5, <2>2, <3>1, SinkDownProperties, Zenon
  <2>4. {s[j] : j \in 2 .. n - 1} \cup {last} = {h[j] : j \in 2 .. n}
    <3>1. \A j \in 2 .. n : j = n \/ j \in 2 .. n - 1
      BY <1>1
    <3>2. n \in 2 .. n /\ \A j \in 2 .. n - 1 : j \in 2 .. n /\ s[j] = h[j]
      BY <1>1, <1>3, <2>1
    <3> QED
      BY <3>1, <3>2 DEF last
  <2> QED
    BY <1>2, <1>3, <1>5, <2>3, <2>4 DEF n, Behind
<1> QED
  BY <1>4, <1>5

-----------------------------------------------------------------------------
(* The inductive invariant of the search                                   *)

\* A search between two known nodes has begun.
Started == search # "idle" /\ {query.start, query.goal} \subseteq Nodes

\* The items that the queue can hold; a priority is the length of a way to the
\* node with the heuristic added.
QueueItems == {Item(query, n, d) : n \in Nodes, d \in Nat}
Estimate(n) == distances[n] + query.air[n]

StageInv ==
    /\ search \in {"idle", "running", "found", "none"}
    /\ search = "idle" => query = NoQuery
    /\ search # "idle" => phase = "built" /\ query \in Queries
    /\ search # "idle" /\ ~ Started => search = "none"
    /\ ~ Started => /\ distances = <<>> /\ previous = <<>> /\ settled = {}
                    /\ queue = <<>> /\ rest = {}
    /\ nodesExplored = Cardinality(settled)

DistancesInv ==
    /\ settled \subseteq DOMAIN distances /\ DOMAIN distances \subseteq Nodes
    /\ \A n \in DOMAIN distances : distances[n] \in Nat
    /\ query.start \in DOMAIN distances /\ distances[query.start] = 0
    /\ query.start \in settled \/ (DOMAIN distances = {query.start} /\ settled = {})

\* An entry is as long as the distance of its node or, when it is stale,
\* longer; a node that is not settled yet has an entry with its distance.
QueueInv ==
    /\ queue \in Seq(QueueItems)
    /\ HeapOrdered(queue)
    /\ \A item \in Range(queue) :
          /\ item.value.nodeId \in DOMAIN distances
          /\ distances[item.value.nodeId] <= item.value.distanceM
    /\ \A m \in DOMAIN distances \ settled : Item(query, m, distances[m]) \in Range(queue)

\* The node settled last has the greatest estimate so far, and none in the
\* queue has a smaller one.
SettledInv ==
    /\ settled # {} =>
          /\ current.nodeId \in settled
          /\ current.distanceM = distances[current.nodeId]
          /\ \A n \in settled : Estimate(n) <= Estimate(current.nodeId)
          /\ \A item \in Range(queue) : Estimate(current.nodeId) <= item.priority
    /\ rest # {} => settled # {} /\ search = "running" /\ rest \subseteq Neighbors(current.nodeId)
    /\ search = "found" => current.nodeId = query.goal /\ query.goal \in settled
    /\ search # "found" => query.goal \notin settled
    /\ search = "none" => queue = <<>> /\ rest = {}

\* The edges out of the settled nodes have been looked at, those out of the
\* current one as far as rest says; from the goal no search goes on.
RelaxedInv ==
    \A n \in settled \ {query.goal} : \A m \in Neighbors(n) :
        (n = current.nodeId => m \notin rest) =>
            m \in DOMAIN distances /\ distances[m] <= distances[n] + EdgeLength(query, n, m)

\* previous leads back along edges that add up to the distances, and from a
\* settled node to one that was settled before it.
SettledInOrder(rank) ==
    /\ rank \in [settled -> Nat]
    /\ \A n \in settled : rank[n] < Cardinality(settled)
    /\ \A n \in settled \ {query.start} : rank[previous[n]] < rank[n]

PreviousInv ==
    /\ DOMAIN previous = DOMAIN distances \ {query.start}
    /\ \A m \in DOMAIN previous :
          /\ previous[m] \in settled
          /\ <<previous[m], m>> \in edges
          /\ distances[m] = distances[previous[m]] + EdgeLength(query, previous[m], m)
    /\ \E rank : SettledInOrder(rank)

SearchInv ==
    /\ StageInv
    /\ Started => DistancesInv /\ QueueInv /\ SettledInv /\ RelaxedInv /\ PreviousInv

Inv == GraphInv /\ SearchInv

-----------------------------------------------------------------------------
(* Queries, maps and items                                                 *)

\* What the assumption says of the query in hand.
LEMMA QueryTypes ==
    ASSUME query \in Queries
    PROVE  /\ query.goal \in Nodes => query.air[query.goal] = 0
           /\ \A n \in Nodes : query.air[n] \in Nat
           /\ \A n, m \in Nodes : EdgeLength(query, n, m) \in Nat
           /\ \A n, m \in Nodes : n # m => query.air[n] <= EdgeLength(query, n, m) + query.air[m]
  BY Consistency

LEMMA MapSetProperties ==
    ASSUME NEW map, NEW n, NEW value
    PROVE  /\ DOMAIN MapSet(map, n, value) = DOMAIN map \cup {n}
           /\ MapSet(map, n, value)[n] = value
           /\ \A m \in DOMAIN map : m # n => MapSet(map, n, value)[m] = map[m]
  BY DEF MapSet

LEMMA ItemFields ==
    ASSUME NEW n, NEW d
    PROVE  /\ Item(query, n, d).value.nodeId = n
           /\ Item(query, n, d).value.distanceM = d
           /\ Item(query, n, d).priority = d + query.air[n]
           /\ Item(query, n, d).value = Entry(n, d)
  BY DEF Item, Entry

LEMMA QueueItemTypes ==
    ASSUME query \in Queries
    PROVE  /\ Items(QueueItems)
           /\ \A n \in Nodes, d \in Nat : Item(query, n, d) \in QueueItems
           /\ \A item \in QueueItems :
                 /\ item.value.nodeId \in Nodes /\ item.value.distanceM \in Nat
                 /\ item = Item(query, item.value.nodeId, item.value.distanceM)
                 /\ item.priority = item.value.distanceM + query.air[item.value.nodeId]
                 /\ item.priority \in Nat
                 /\ item.value = Entry(item.value.nodeId, item.value.distanceM)
<1>1. ASSUME NEW item \in QueueItems
      PROVE  /\ item.value.nodeId \in Nodes /\ item.value.distanceM \in Nat
             /\ item = Item(query, item.value.nodeId, item.value.distanceM)
             /\ item.priority = item.value.distanceM + query.air[item.value.nodeId]
             /\ item.priority \in Nat
             /\ item.value = Entry(item.value.nodeId, item.value.distanceM)
  <2>1. PICK n \in Nodes, d \in Nat : item = Item(query, n, d)
    BY DEF QueueItems
  <2>2. query.air[n] \in Nat
    BY QueryTypes
  <2> QED
    BY <2>1, <2>2, ItemFields
<1>2. \A n \in Nodes, d \in Nat : Item(query, n, d) \in QueueItems
  BY DEF QueueItems
<1> QED
  BY <1>1, <1>2 DEF Items

\* Pushing and popping, in terms of the items in the queue.
LEMMA Pushed ==
    ASSUME query \in Queries, QueueInv, NEW n \in Nodes, NEW d \in Nat
    PROVE  LET q == Push(queue, Item(query, n, d))
           IN /\ q \in Seq(QueueItems) /\ HeapOrdered(q)
              /\ Range(q) = Range(queue) \cup {Item(query, n, d)}
  BY QueueItemTypes, PushProperties DEF QueueInv

LEMMA Popped ==
    ASSUME query \in Queries, QueueInv, queue # <<>>
    PROVE  LET top == queue[1]
           IN /\ top \in Range(queue) /\ top \in QueueItems /\ top.value = Top(queue)
              /\ Pop(queue) \in Seq(QueueItems) /\ HeapOrdered(Pop(queue))
              /\ Range(Pop(queue)) \subseteq Range(queue)
              /\ \A item \in Range(queue) : item # top => item \in Range(Pop(queue))
              /\ \A item \in Range(queue) : top.priority <= item.priority
<1> DEFINE n == Len(queue)
<1>1. Items(QueueItems) /\ queue \in Seq(QueueItems) /\ HeapOrdered(queue)
  BY QueueItemTypes DEF QueueInv
<1>2. n \in Nat \ {0} /\ DOMAIN queue = 1 .. n /\ \A i \in 1 .. n : queue[i] \in QueueItems
  BY <1>1, EmptySeq, LenProperties
<1>3. /\ Pop(queue) \in Seq(QueueItems) /\ HeapOrdered(Pop(queue))
      /\ Range(Pop(queue)) = Behind(queue)
  BY <1>1, PopProperties
<1>4. \A j \in 1 .. n : queue[1].priority <= queue[j].priority
  BY <1>1, TopIsLeast
<1> HIDE DEF n
<1>5. Range(queue) = {queue[j] : j \in 1 .. n} /\ Behind(queue) = {queue[j] : j \in 2 .. n}
  BY <1>2 DEF Range, Behind, n
<1>6. 1 \in 1 .. n /\ (\A j \in 2 .. n : j \in 1 .. n) /\ \A j \in 1 .. n : j = 1 \/ j \in 2 .. n
  BY <1>2
<1> QED
  BY <1>2, <1>3, <1>4, <1>5, <1>6 DEF Top

-----------------------------------------------------------------------------
(* The steps of the search                                                 *)

LEMMA StartSearchKeepsInv ==
    ASSUME SearchInv, NEW q \in Queries, StartSearch(q)
    PROVE  SearchInv'
<1>1. /\ phase = "built" /\ search = "idle" /\ q.start \in Nodes /\ q.goal \in Nodes
      /\ query' = q /\ distances' = MapSet(<<>>, q.start, 0)
      /\ queue' = Push(<<>>, Item(q, q.start, 0)) /\ search' = "running"
      /\ phase' = phase /\ edges' = edges
      /\ UNCHANGED <<previous, settled, nodesExplored, current, rest>>
  BY DEF StartSearch, graphVars
<1>2. /\ previous = <<>> /\ settled = {} /\ queue = <<>> /\ rest = {}
      /\ nodesExplored = Cardinality(settled)
  BY <1>1 DEF SearchInv, StageInv, Started
<1>3. Started' /\ StageInv'
  BY <1>1, <1>2 DEF Started, StageInv
<1>4. DOMAIN distances' = {q.start} /\ distances'[q.start] = 0
  BY <1>1 DEF MapSet
<1>5. DistancesInv'
  BY <1>1, <1>2, <1>4 DEF DistancesInv
<1>6. QueueInv'
  <2> DEFINE X == QueueItems'
             x == Item(q, q.start, 0)
  <2>1. /\ Items(X) /\ x \in X /\ x.value.nodeId = q.start /\ x.value.distanceM = 0
    <3>1. \A n \in Nodes : q.air[n] \in Nat
      BY Consistency
    <3>2. \A n \in Nodes, d \in Nat : Item(q, n, d).priority \in Nat
      BY <3>1 DEF Item
    <3>3. X = {Item(q, n, d) : n \in Nodes, d \in Nat}
      BY <1>1 DEF QueueItems, Item
    <3> QED
      BY <1>1, <3>2, <3>3 DEF Items, Item, Entry
  <2>2. <<>> \in Seq(X) /\ HeapOrdered(<<>>) /\ Range(<<>>) = {}
    BY EmptySeq DEF HeapOrdered, Range
  <2> HIDE DEF X, x
  <2>3. /\ Push(<<>>, x) \in Seq(X) /\ HeapOrdered(Push(<<>>, x))
        /\ Range(Push(<<>>, x)) = Range(<<>>) \cup {x}
    BY <2>1, <2>2, PushProperties
  <2>4. queue' \in Seq(X) /\ HeapOrdered(queue') /\ Range(queue') = {x}
    BY <1>1, <2>2, <2>3 DEF x
  <2>5. \A m \in DOMAIN distances' \ settled' : Item(query', m, distances'[m]) = x
    BY <1>1, <1>4 DEF x
  <2> QED
    BY <1>4, <2>1, <2>4, <2>5 DEF QueueInv, X
<1>7. SettledInv' /\ RelaxedInv'
  BY <1>1, <1>2 DEF SettledInv, RelaxedInv
<1>8. PreviousInv'
  <2>1. Cardinality({}) = 0
    BY FS_EmptySet
  <2>2. SettledInOrder(<<>>)'
    BY <1>1, <1>2 DEF SettledInOrder
  <2> QED
    BY <1>1, <1>2, <1>4, <2>2 DEF PreviousInv
<1> QED
  BY <1>3, <1>5, <1>6, <1>7, <1>8 DEF SearchInv

LEMMA UnknownNodeKeepsInv ==
    ASSUME SearchInv, NEW q \in Queries, UnknownNode(q)
    PROVE  SearchInv'
<1>1. /\ phase = "built" /\ search = "idle" /\ ~ {q.start, q.goal} \subseteq Nodes
      /\ query' = q /\ search' = "none" /\ phase' = phase
      /\ UNCHANGED <<distances, previous, settled, queue, nodesExplored, current, rest>>
  BY DEF UnknownNode, graphVars
<1>2. ~ Started /\ ~ Started'
  BY <1>1 DEF Started
<1> QED
  BY <1>1, <1>2 DEF SearchInv, StageInv

LEMMA SkipStaleKeepsInv ==
    ASSUME SearchInv, SkipStale
    PROVE  SearchInv'
<1>1. /\ search = "running" /\ rest = {} /\ queue # <<>> /\ Top(queue).nodeId \in settled
      /\ queue' = Pop(queue)
      /\ edges' = edges /\ phase' = phase
      /\ UNCHANGED <<query, distances, previous, settled, nodesExplored, current, rest, search>>
  BY DEF SkipStale, Iterating, graphVars
<1>2. /\ Started /\ Started' /\ query \in Queries /\ StageInv
      /\ DistancesInv /\ QueueInv /\ SettledInv /\ RelaxedInv /\ PreviousInv
  BY <1>1 DEF SearchInv, StageInv, Started
<1>3. /\ queue[1].value = Top(queue)
      /\ queue' \in Seq(QueueItems) /\ HeapOrdered(queue')
      /\ Range(queue') \subseteq Range(queue)
      /\ \A item \in Range(queue) : item # queue[1] => item \in Range(queue')
  BY <1>1, <1>2, Popped
<1>4. StageInv' /\ DistancesInv' /\ RelaxedInv'
  BY <1>1, <1>2 DEF StageInv, DistancesInv, RelaxedInv, Neighbors
<1>5. QueueInv'
  <2>1. QueueItems' = QueueItems
    BY <1>1 DEF QueueItems, Item
  <2>2. \A m \in DOMAIN distances \ settled : Item(query, m, distances[m]) \in Range(queue')
    <3>1. ASSUME NEW m \in DOMAIN distances \ settled PROVE Item(query, m, distances[m]) # queue[1]
      BY <1>1, <1>3, ItemFields
    <3> QED
      BY <1>2, <1>3, <3>1 DEF QueueInv
  <2> QED
    BY <1>1, <1>2, <1>3, <2>1, <2>2 DEF QueueInv
<1>6. SettledInv'
  BY <1>1, <1>2, <1>3 DEF SettledInv, Estimate
<1>7. PreviousInv'
  <2>1. \A rank : SettledInOrder(rank) => SettledInOrder(rank)'
    BY <1>1 DEF SettledInOrder
  <2> QED
    BY <1>1, <1>2, <2>1 DEF PreviousInv
<1> QED
  BY <1>2, <1>4, <1>5, <1>6, <1>7 DEF SearchInv

\* An entry whose node is not settled yet is not stale when it is the first.
LEMMA TopIsFinal ==
    ASSUME query \in Queries, DistancesInv, QueueInv, queue # <<>>,
           Top(queue).nodeId \notin settled
    PROVE  LET n == Top(queue).nodeId
           IN /\ n \in DOMAIN distances /\ n \in Nodes
              /\ Top(queue) = Entry(n, distances[n])
              /\ queue[1] = Item(query, n, distances[n])
              /\ queue[1].priority = Estimate(n)
<1> DEFINE top == queue[1]
           n == top.value.nodeId
           d == top.value.distanceM
<1>1. /\ top \in Range(queue) /\ top \in QueueItems /\ top.value = Top(queue)
      /\ \A item \in Range(queue) : top.priority <= item.priority
  BY Popped
<1>2. /\ n \in Nodes /\ d \in Nat /\ top = Item(query, n, d)
      /\ top.priority = d + query.air[n] /\ top.value = Entry(n, d)
  BY <1>1, QueueItemTypes
<1>3. n \in DOMAIN distances /\ distances[n] <= d /\ distances[n] \in Nat /\ n \notin settled
  BY <1>1 DEF QueueInv, DistancesInv
<1>4. Item(query, n, distances[n]) \in Range(queue)
  BY <1>3 DEF QueueInv
<1>5. top.priority <= distances[n] + query.air[n]
  BY <1>1, <1>4, ItemFields
<1>6. query.air[n] \in Nat
  BY <1>2, QueryTypes
<1> HIDE DEF n, d, top
<1>7. d = distances[n]
  BY <1>2, <1>3, <1>5, <1>6
<1> QED
  BY <1>1, <1>2, <1>3, <1>7 DEF Estimate, n, d, top

\* The first entry is the final distance of its node: nothing in the queue can
\* lead to it on a shorter way.
LEMMA SettleKeepsInv ==
    ASSUME SearchInv, GraphInv, Settle
    PROVE  SearchInv'
<1> DEFINE n == Top(queue).nodeId
           goal == query.goal
<1>1. /\ search = "running" /\ rest = {} /\ queue # <<>> /\ n \notin settled
      /\ queue' = Pop(queue) /\ current' = Top(queue) /\ settled' = settled \cup {n}
      /\ nodesExplored' = nodesExplored + 1
      /\ n = goal => search' = "found" /\ rest' = {}
      /\ n # goal => search' = "running" /\ rest' = Neighbors(n)
      /\ edges' = edges /\ phase' = phase
      /\ UNCHANGED <<query, distances, previous>>
  BY DEF Settle, SettleTop, Iterating, graphVars
<1>2. /\ Started /\ Started' /\ query \in Queries /\ StageInv
      /\ DistancesInv /\ QueueInv /\ SettledInv /\ RelaxedInv /\ PreviousInv
  BY <1>1 DEF SearchInv, StageInv, Started
<1>3. /\ queue[1] \in Range(queue)
      /\ queue' \in Seq(QueueItems) /\ HeapOrdered(queue')
      /\ Range(queue') \subseteq Range(queue)
      /\ \A item \in Range(queue) : item # queue[1] => item \in Range(queue')
      /\ \A item \in Range(queue) : queue[1].priority <= item.priority
  BY <1>1, <1>2, Popped
<1>4. /\ n \in DOMAIN distances /\ n \in Nodes
      /\ current' = Entry(n, distances[n])
      /\ queue[1] = Item(query, n, distances[n])
      /\ queue[1].priority = Estimate(n)
  BY <1>1, <1>2, TopIsFinal
<1>5. current'.nodeId = n /\ current'.distanceM = distances[n]
  BY <1>4 DEF Entry
<1>6. settled \subseteq Nodes /\ IsFiniteSet(settled) /\ Cardinality(settled) \in Nat
      /\ Cardinality(settled') = Cardinality(settled) + 1
  <2>1. settled \subseteq Nodes
    BY <1>2 DEF DistancesInv
  <2>2. IsFiniteSet(settled)
    BY <2>1, FoundIsFinite
  <2> HIDE DEF n
  <2> QED
    BY <1>1, <2>1, <2>2, FS_CardinalityType, FS_AddElement
<1> HIDE DEF n, goal
<1>7. ASSUME NEW m \in DOMAIN distances PROVE distances[m] \in Nat /\ Estimate(m) \in Nat
  <2>1. m \in Nodes /\ distances[m] \in Nat
    BY <1>2 DEF DistancesInv
  <2>2. query.air[m] \in Nat
    BY <1>2, <2>1, QueryTypes
  <2> QED
    BY <2>1, <2>2 DEF Estimate
<1>8. StageInv'
  BY <1>1, <1>2, <1>6 DEF StageInv
<1>9. DistancesInv'
  BY <1>1, <1>2, <1>4 DEF DistancesInv
<1>10. QueueInv'
  <2>1. QueueItems' = QueueItems
    BY <1>1 DEF QueueItems, Item
  <2>2. \A m \in DOMAIN distances \ settled' : Item(query, m, distances[m]) \in Range(queue')
    <3>1. ASSUME NEW m \in DOMAIN distances \ settled' PROVE Item(query, m, distances[m]) # queue[1]
      BY <1>1, <1>4, ItemFields
    <3> QED
      BY <1>1, <1>2, <1>3, <3>1 DEF QueueInv
  <2> QED
    BY <1>1, <1>2, <1>3, <2>1, <2>2 DEF QueueInv
<1>11. SettledInv'
  <2>1. \A m \in settled : Estimate(m) <= Estimate(n)
    <3>1. ASSUME NEW m \in settled PROVE Estimate(m) <= Estimate(n)
      <4>1. Estimate(m) <= Estimate(current.nodeId) /\ Estimate(current.nodeId) <= Estimate(n)
            /\ current.nodeId \in settled
        BY <1>2, <1>3, <1>4 DEF SettledInv
      <4>2. Estimate(m) \in Nat /\ Estimate(current.nodeId) \in Nat /\ Estimate(n) \in Nat
        BY <1>2, <1>4, <1>7, <4>1 DEF DistancesInv
      <4> QED
        BY <4>1, <4>2
    <3> QED
      BY <3>1
  <2>2. Estimate(n) <= Estimate(n)
    BY <1>4, <1>7
  <2>3. \A m : Estimate(m)' = Estimate(m)
    BY <1>1 DEF Estimate
  <2>4. \A item \in Range(queue') : Estimate(n) <= item.priority
    BY <1>3, <1>4
  <2>5. Estimate(current.nodeId)' = Estimate(n)
    BY <1>1, <1>5 DEF Estimate
  <2>6. rest' # {} => search' = "running" /\ rest' \subseteq Neighbors(current.nodeId)'
    BY <1>1, <1>5 DEF Neighbors
  <2>7. goal' = goal /\ goal \notin settled
    BY <1>1, <1>2 DEF SettledInv, goal
  <2> QED
    BY <1>1, <1>4, <1>5, <2>1, <2>2, <2>3, <2>4, <2>5, <2>6, <2>7 DEF SettledInv, goal
<1>12. RelaxedInv'
  <2>1. ASSUME NEW k \in settled' \ {goal}, NEW m \in Neighbors(k),
               k = current'.nodeId => m \notin rest'
        PROVE  m \in DOMAIN distances /\ distances[m] <= distances[k] + EdgeLength(query, k, m)
    <3>1. k # n
      BY <1>1, <1>5, <2>1
    <3>2. k \in settled \ {goal} /\ m \notin rest
      BY <1>1, <2>1, <3>1
    <3> QED
      BY <1>2, <2>1, <3>2 DEF RelaxedInv, goal
  <2> QED
    BY <1>1, <2>1 DEF RelaxedInv, Neighbors, goal
<1>13. PreviousInv'
  <2>1. PICK rank : SettledInOrder(rank)
    BY <1>2 DEF PreviousInv
  <2> DEFINE c == Cardinality(settled)
  <2>longer. PICK longer : longer = [m \in settled' |-> IF m = n THEN c ELSE rank[m]]
    OBVIOUS
  <2>2. SettledInOrder(longer)'
    <3>1. longer \in [settled' -> Nat]
      BY <1>1, <1>6, <2>1, <2>longer DEF SettledInOrder
    <3>2. longer[n] = c /\ \A m \in settled : longer[m] = rank[m] /\ rank[m] < c /\ rank[m] \in Nat
      BY <1>1, <2>1, <2>longer DEF SettledInOrder
    <3> HIDE DEF c
    <3>3. \A m \in settled' : longer[m] < c + 1
      BY <1>1, <1>6, <3>2 DEF c
    <3>4. ASSUME NEW m \in settled' \ {query.start} PROVE longer[previous[m]] < longer[m]
      <4>1. m \in DOMAIN previous /\ previous[m] \in settled
        BY <1>1, <1>2, <1>4 DEF PreviousInv, DistancesInv
      <4>2. CASE m = n
        BY <3>2, <4>1, <4>2
      <4>3. CASE m # n
        <5>1. m \in settled \ {query.start}
          BY <1>1, <4>3
        <5> QED
          BY <2>1, <3>2, <4>1, <5>1 DEF SettledInOrder
      <4> QED
        BY <4>2, <4>3
    <3> QED
      BY <1>1, <1>6, <3>1, <3>3, <3>4 DEF SettledInOrder, c
  <2>3. (\E r : SettledInOrder(r))'
    BY <2>2
  <2>4. \A m \in DOMAIN previous : previous[m] \in settled'
    BY <1>1, <1>2 DEF PreviousInv
  <2> QED
    BY <1>1, <1>2, <2>3, <2>4 DEF PreviousInv
<1> QED
  BY <1>2, <1>8, <1>9, <1>10, <1>11, <1>12, <1>13 DEF SearchInv

LEMMA ExhaustedKeepsInv ==
    ASSUME SearchInv, Exhausted
    PROVE  SearchInv'
<1>1. /\ search = "running" /\ rest = {} /\ queue = <<>> /\ search' = "none"
      /\ edges' = edges /\ phase' = phase
      /\ UNCHANGED <<query, distances, previous, settled, queue, nodesExplored, current, rest>>
  BY DEF Exhausted, Iterating, graphVars
<1>2. /\ Started /\ Started' /\ StageInv
      /\ DistancesInv /\ QueueInv /\ SettledInv /\ RelaxedInv /\ PreviousInv
  BY <1>1 DEF SearchInv, StageInv, Started
<1>3. StageInv' /\ DistancesInv' /\ RelaxedInv'
  BY <1>1, <1>2 DEF StageInv, DistancesInv, RelaxedInv, Neighbors
<1>4. QueueInv'
  BY <1>1, <1>2 DEF QueueInv, QueueItems, Item
<1>5. SettledInv'
  BY <1>1, <1>2 DEF SettledInv, Estimate
<1>6. PreviousInv'
  BY <1>1, <1>2 DEF PreviousInv, SettledInOrder
<1> QED
  BY <1>2, <1>3, <1>4, <1>5, <1>6 DEF SearchInv

\* A neighbour reached over the current node.
LEMMA VisitedOver ==
    ASSUME SearchInv, NEW n \in Nodes, Visit(n)
    PROVE  LET c == current.nodeId
               d == current.distanceM + EdgeLength(query, c, n)
           IN /\ Started /\ query \in Queries /\ search = "running" /\ n \in rest
              /\ c \in settled /\ c # query.goal /\ query.start \in settled
              /\ c \in DOMAIN distances /\ c \in Nodes
              /\ current.distanceM = distances[c]
              /\ distances[c] \in Nat /\ EdgeLength(query, c, n) \in Nat /\ d \in Nat
              /\ query.air[n] \in Nat /\ query.air[c] \in Nat
              /\ <<c, n>> \in edges
              /\ c # n => Estimate(c) <= d + query.air[n]
<1> DEFINE c == current.nodeId
<1>1. search = "running" /\ n \in rest
  BY DEF Visit
<1>2. Started /\ query \in Queries /\ DistancesInv /\ SettledInv
  BY <1>1 DEF SearchInv, StageInv, Started
<1>3. settled # {} /\ rest \subseteq Neighbors(c) /\ query.goal \notin settled
  BY <1>1, <1>2 DEF SettledInv
<1>4. /\ c \in settled /\ current.distanceM = distances[c] /\ <<c, n>> \in edges
  BY <1>1, <1>2, <1>3 DEF SettledInv, Neighbors
<1>5. query.start \in settled /\ c \in DOMAIN distances /\ c \in Nodes /\ distances[c] \in Nat
  BY <1>2, <1>3, <1>4 DEF DistancesInv
<1>6. /\ query.air[n] \in Nat /\ query.air[c] \in Nat /\ EdgeLength(query, c, n) \in Nat
      /\ c # n => query.air[c] <= EdgeLength(query, c, n) + query.air[n]
  BY <1>2, <1>5, QueryTypes
<1>7. c # query.goal
  BY <1>3, <1>4
<1> HIDE DEF c
<1>8. /\ current.distanceM + EdgeLength(query, c, n) \in Nat
      /\ c # n => Estimate(c) <= (current.distanceM + EdgeLength(query, c, n)) + query.air[n]
  BY <1>4, <1>5, <1>6 DEF Estimate
<1> QED
  BY <1>1, <1>2, <1>3, <1>4, <1>5, <1>6, <1>7, <1>8 DEF c

\* A shorter way to a node that is not settled yet.
LEMMA ImprovementKeepsInv ==
    ASSUME SearchInv, NEW n \in Nodes, Visit(n), n \notin settled,
           Improves(n, current.distanceM + EdgeLength(query, current.nodeId, n))
    PROVE  SearchInv'
<1> DEFINE c == current.nodeId
           d == current.distanceM + EdgeLength(query, c, n)
<1>1. /\ distances' = MapSet(distances, n, d)
      /\ previous' = MapSet(previous, n, c)
      /\ queue' = Push(queue, Item(query, n, d))
      /\ rest' = rest \ {n}
      /\ edges' = edges /\ phase' = phase
      /\ UNCHANGED <<query, settled, nodesExplored, current, search>>
      /\ n \in DOMAIN distances => d < distances[n]
  BY DEF Visit, graphVars, Improves
<1>2. /\ Started /\ query \in Queries /\ search = "running" /\ n \in rest
      /\ c \in settled /\ c # query.goal /\ query.start \in settled
      /\ c \in DOMAIN distances /\ c \in Nodes
      /\ current.distanceM = distances[c]
      /\ distances[c] \in Nat /\ EdgeLength(query, c, n) \in Nat /\ d \in Nat
      /\ query.air[n] \in Nat
      /\ <<c, n>> \in edges
      /\ c # n => Estimate(c) <= d + query.air[n]
  BY VisitedOver
<1>3. /\ Started' /\ StageInv
      /\ DistancesInv /\ QueueInv /\ SettledInv /\ RelaxedInv /\ PreviousInv
  BY <1>1, <1>2 DEF SearchInv, Started
<1>4. d = distances[c] + EdgeLength(query, c, n)
  BY <1>2
<1> HIDE DEF c, d
<1>5. /\ DOMAIN distances' = DOMAIN distances \cup {n}
      /\ distances'[n] = d
      /\ \A m \in DOMAIN distances : m # n => distances'[m] = distances[m]
  BY <1>1 DEF MapSet
<1>6. /\ DOMAIN previous' = DOMAIN previous \cup {n}
      /\ previous'[n] = c
      /\ \A m \in DOMAIN previous : m # n => previous'[m] = previous[m]
  BY <1>1 DEF MapSet
<1>7. \A m \in DOMAIN distances : distances[m] \in Nat /\ distances'[m] <= distances[m]
  BY <1>1, <1>2, <1>3, <1>5 DEF DistancesInv
<1>8. \A m \in settled : m \in DOMAIN distances /\ m # n /\ distances'[m] = distances[m]
  BY <1>3, <1>5 DEF DistancesInv
<1>9. StageInv'
  BY <1>1, <1>2, <1>3 DEF StageInv
<1>10. DistancesInv'
  BY <1>1, <1>2, <1>3, <1>5, <1>8 DEF DistancesInv
<1>11. QueueInv'
  <2> DEFINE item == Item(query, n, d)
  <2>1. queue' \in Seq(QueueItems) /\ HeapOrdered(queue') /\ Range(queue') = Range(queue) \cup {item}
    BY <1>1, <1>2, <1>3, Pushed
  <2>2. item.value.nodeId = n /\ item.value.distanceM = d
    BY ItemFields
  <2>3. item = Item(query, n, distances'[n])
    BY <1>5
  <2> HIDE DEF item
  <2>4. QueueItems' = QueueItems
    BY <1>1 DEF QueueItems, Item
  <2>5. ASSUME NEW x \in Range(queue')
        PROVE  /\ x.value.nodeId \in DOMAIN distances'
               /\ distances'[x.value.nodeId] <= x.value.distanceM
    <3>1. CASE x = item
      BY <1>2, <1>5, <2>2, <3>1
    <3>2. CASE x \in Range(queue)
      <4>1. /\ x.value.nodeId \in DOMAIN distances
            /\ distances[x.value.nodeId] <= x.value.distanceM
        BY <1>3, <3>2 DEF QueueInv
      <4>2. x.value.distanceM \in Nat
        <5>1. x \in QueueItems
          BY <1>3, <3>2, LenProperties DEF QueueInv, Range
        <5> QED
          BY <1>2, <5>1, QueueItemTypes
      <4>3. /\ distances[x.value.nodeId] \in Nat
            /\ distances'[x.value.nodeId] <= distances[x.value.nodeId]
            /\ distances'[x.value.nodeId] \in Nat
        BY <1>2, <1>5, <1>7, <4>1
      <4> QED
        BY <1>5, <4>1, <4>2, <4>3
    <3> QED
      BY <2>1, <3>1, <3>2
  <2>6. ASSUME NEW m \in DOMAIN distances' \ settled
        PROVE  Item(query, m, distances'[m]) \in Range(queue')
    <3>1. CASE m = n
      BY <2>1, <2>3, <3>1
    <3>2. CASE m # n
      BY <1>3, <1>5, <2>1, <3>2 DEF QueueInv
    <3> QED
      BY <3>1, <3>2
  <2> QED
    BY <1>1, <2>1, <2>4, <2>5, <2>6 DEF QueueInv
<1>12. SettledInv'
  <2>1. \A m \in settled : Estimate(m)' = Estimate(m)
    BY <1>1, <1>8 DEF Estimate
  <2>2. Item(query, n, d).priority = d + query.air[n]
    BY ItemFields
  <2>3. Range(queue') = Range(queue) \cup {Item(query, n, d)}
    BY <1>1, <1>2, <1>3, Pushed
  <2>4. Estimate(c) <= d + query.air[n]
    BY <1>2
  <2>5. \A item \in Range(queue') : Estimate(c) <= item.priority
    BY <1>2, <1>3, <2>2, <2>3, <2>4 DEF SettledInv, c
  <2>6. current.distanceM = distances'[c]
    BY <1>2, <1>8
  <2>7. rest' # {} => rest' \subseteq Neighbors(c)
    BY <1>1, <1>3 DEF SettledInv, c
  <2>8. Neighbors(c)' = Neighbors(c)
    BY <1>1 DEF Neighbors, c
  <2>9. \A m \in settled : Estimate(m) <= Estimate(c)
    BY <1>2, <1>3 DEF SettledInv, c
  <2> QED
    BY <1>1, <1>2, <1>3, <2>1, <2>5, <2>6, <2>7, <2>8, <2>9 DEF SettledInv, c
<1>13. RelaxedInv'
  <2>1. ASSUME NEW k \in settled \ {query.goal}, NEW m \in Neighbors(k),
               k = c => m \notin rest'
        PROVE  m \in DOMAIN distances' /\ distances'[m] <= distances'[k] + EdgeLength(query, k, m)
    <3>1. distances'[k] = distances[k] /\ distances[k] \in Nat /\ k \in Nodes /\ m \in Nodes
      BY <1>3, <1>7, <1>8 DEF DistancesInv, Neighbors
    <3>2. EdgeLength(query, k, m) \in Nat
      BY <1>2, <3>1, QueryTypes
    <3>3. CASE m = n /\ k = c
      BY <1>2, <1>4, <1>5, <3>1, <3>3
    <3>4. CASE ~ (m = n /\ k = c)
      <4>1. m \in DOMAIN distances /\ distances[m] <= distances[k] + EdgeLength(query, k, m)
        BY <1>1, <1>3, <2>1, <3>4 DEF RelaxedInv, c
      <4>2. distances[m] \in Nat /\ distances'[m] <= distances[m] /\ distances'[m] \in Nat
        BY <1>2, <1>5, <1>7, <4>1
      <4> QED
        BY <1>5, <3>1, <3>2, <4>1, <4>2
    <3> QED
      BY <3>3, <3>4
  <2>2. \A k : Neighbors(k)' = Neighbors(k)
    BY <1>1 DEF Neighbors
  <2> QED
    BY <1>1, <2>1, <2>2 DEF RelaxedInv, c
<1>14. PreviousInv'
  <2>1. DOMAIN previous' = DOMAIN distances' \ {query.start}
    BY <1>2, <1>3, <1>5, <1>6 DEF PreviousInv
  <2>2. ASSUME NEW m \in DOMAIN previous'
        PROVE  /\ previous'[m] \in settled
               /\ <<previous'[m], m>> \in edges
               /\ distances'[m] = distances'[previous'[m]] + EdgeLength(query, previous'[m], m)
    <3>1. CASE m = n
      BY <1>2, <1>4, <1>5, <1>6, <1>8, <3>1
    <3>2. CASE m # n
      <4>1. m \in DOMAIN previous /\ previous'[m] = previous[m] /\ m \in DOMAIN distances
        BY <1>3, <1>6, <3>2 DEF PreviousInv
      <4> QED
        BY <1>3, <1>5, <1>8, <3>2, <4>1 DEF PreviousInv
    <3> QED
      BY <3>1, <3>2
  <2>3. PICK rank : SettledInOrder(rank)
    BY <1>3 DEF PreviousInv
  <2>4. \A m \in settled \ {query.start} : previous'[m] = previous[m]
    BY <1>3, <1>6, <1>8 DEF PreviousInv
  <2>5. SettledInOrder(rank)'
    BY <1>1, <2>3, <2>4 DEF SettledInOrder
  <2> QED
    BY <1>1, <2>1, <2>2, <2>5 DEF PreviousInv
<1> QED
  BY <1>3, <1>9, <1>10, <1>11, <1>12, <1>13, <1>14 DEF SearchInv

\* A neighbour that is settled, or known at a distance that is no longer.
LEMMA NoImprovementKeepsInv ==
    ASSUME SearchInv, NEW n \in Nodes, Visit(n),
           ~ (n \notin settled /\ Improves(n, current.distanceM + EdgeLength(query, current.nodeId, n)))
    PROVE  SearchInv'
<1> DEFINE c == current.nodeId
           d == current.distanceM + EdgeLength(query, c, n)
<1>1. /\ rest' = rest \ {n}
      /\ edges' = edges /\ phase' = phase
      /\ UNCHANGED <<query, distances, previous, queue, settled, nodesExplored, current, search>>
      /\ n \in settled \/ (n \in DOMAIN distances /\ ~ d < distances[n])
  BY DEF Visit, graphVars, Improves
<1>2. /\ Started /\ query \in Queries /\ search = "running" /\ n \in rest
      /\ c \in settled /\ c # query.goal
      /\ c \in DOMAIN distances /\ c \in Nodes
      /\ current.distanceM = distances[c]
      /\ distances[c] \in Nat /\ EdgeLength(query, c, n) \in Nat /\ d \in Nat
      /\ query.air[n] \in Nat
      /\ c # n => Estimate(c) <= d + query.air[n]
  BY VisitedOver
<1>3. /\ Started' /\ StageInv
      /\ DistancesInv /\ QueueInv /\ SettledInv /\ RelaxedInv /\ PreviousInv
  BY <1>1, <1>2 DEF SearchInv, Started
<1>4. d = distances[c] + EdgeLength(query, c, n)
  BY <1>2
<1> HIDE DEF d
<1>5. n \in DOMAIN distances /\ distances[n] <= d
  <2>1. CASE n \in settled
    <3>1. n \in DOMAIN distances /\ distances[n] \in Nat /\ Estimate(n) <= Estimate(c)
      BY <1>2, <1>3, <2>1 DEF DistancesInv, SettledInv
    <3>2. CASE c = n
      BY <1>2, <1>4, <3>1, <3>2
    <3>3. CASE c # n
      <4>1. Estimate(n) \in Nat /\ Estimate(c) \in Nat
        <5>1. query.air[c] \in Nat
          BY <1>2, QueryTypes
        <5> QED
          BY <1>2, <3>1, <5>1 DEF Estimate
      <4>2. Estimate(n) <= d + query.air[n]
        BY <1>2, <3>1, <3>3, <4>1
      <4> QED
        BY <1>2, <3>1, <4>2 DEF Estimate
    <3> QED
      BY <3>2, <3>3
  <2>2. CASE n \in DOMAIN distances /\ ~ d < distances[n]
    BY <1>2, <1>3, <2>2 DEF DistancesInv
  <2> QED
    BY <1>1, <2>1, <2>2
<1>6. StageInv' /\ DistancesInv'
  BY <1>1, <1>2, <1>3 DEF StageInv, DistancesInv
<1>7. QueueInv'
  BY <1>1, <1>3 DEF QueueInv, QueueItems, Item
<1>8. SettledInv'
  BY <1>1, <1>2, <1>3 DEF SettledInv, Estimate, Neighbors
<1>9. RelaxedInv'
  <2>1. ASSUME NEW k \in settled \ {query.goal}, NEW m \in Neighbors(k),
               k = c => m \notin rest'
        PROVE  m \in DOMAIN distances /\ distances[m] <= distances[k] + EdgeLength(query, k, m)
    <3>1. CASE m = n /\ k = c
      BY <1>4, <1>5, <3>1
    <3>2. CASE ~ (m = n /\ k = c)
      BY <1>1, <1>3, <2>1, <3>2 DEF RelaxedInv
    <3> QED
      BY <3>1, <3>2
  <2>2. \A k : Neighbors(k)' = Neighbors(k)
    BY <1>1 DEF Neighbors
  <2> QED
    BY <1>1, <2>1, <2>2 DEF RelaxedInv
<1>10. PreviousInv'
  BY <1>1, <1>3 DEF PreviousInv, SettledInOrder
<1> QED
  BY <1>3, <1>6, <1>7, <1>8, <1>9, <1>10 DEF SearchInv

LEMMA SearchStands ==
    ASSUME SearchInv, UNCHANGED searchVars, (edges' = edges /\ phase' = phase) \/ search = "idle"
    PROVE  SearchInv'
<1>1. UNCHANGED <<query, distances, previous, settled, queue, nodesExplored, current, rest, search>>
  BY DEF searchVars
<1>2. Started' = Started
  BY <1>1 DEF Started
<1>3. StageInv'
  BY <1>1, <1>2 DEF SearchInv, StageInv
<1>4. SUFFICES ASSUME Started
               PROVE DistancesInv' /\ QueueInv' /\ SettledInv' /\ RelaxedInv' /\ PreviousInv'
  BY <1>2, <1>3 DEF SearchInv
<1>5. edges' = edges /\ phase' = phase
  BY <1>4 DEF Started
<1>6. DistancesInv' /\ RelaxedInv'
  BY <1>1, <1>4, <1>5 DEF SearchInv, DistancesInv, RelaxedInv, Neighbors
<1>7. QueueInv'
  BY <1>1, <1>4 DEF SearchInv, QueueInv, QueueItems, Item
<1>8. SettledInv'
  BY <1>1, <1>4, <1>5 DEF SearchInv, SettledInv, Estimate, Neighbors
<1>9. PreviousInv'
  BY <1>1, <1>4, <1>5 DEF SearchInv, PreviousInv, SettledInOrder
<1> QED
  BY <1>6, <1>7, <1>8, <1>9

-----------------------------------------------------------------------------
(* The invariant of the specification                                      *)

LEMMA InvInit ==
    ASSUME Init
    PROVE  Inv
<1>1. GraphInv
  BY GraphInvInit DEF Init
<1>2. ~ Started
  BY DEF Init, Started
<1>3. StageInv
  <2>1. Cardinality({}) = 0
    BY FS_EmptySet
  <2> QED
    BY <1>2, <2>1 DEF Init, Started, StageInv
<1> QED
  BY <1>1, <1>2, <1>3 DEF Inv, SearchInv

\* The graph is built before a search begins, and stands while it runs.
LEMMA InvKept ==
    ASSUME Inv, [Next]_vars
    PROVE  Inv'
<1> USE DEF Inv
<1>1. ASSUME UNCHANGED graphVars, SearchInv' PROVE Inv'
  BY <1>1, GraphInvStutters
<1>2. CASE GraphNext /\ UNCHANGED searchVars
  <2>1. phase # "built"
    BY <1>2 DEF GraphNext, StartTree, TurnsTo, PassOver, Descend, Retreat, FirstPassDone, TakeLastFinished, Take,
                Collect, Collecting, Built
  <2>2. search = "idle"
    BY <2>1 DEF SearchInv, StageInv
  <2>3. SearchInv'
    BY <1>2, <2>2, SearchStands
  <2> QED
    BY <1>2, <2>3, GraphInvKept
<1>3. CASE UNCHANGED vars
  <2>1. UNCHANGED graphVars /\ UNCHANGED searchVars
    BY <1>3 DEF vars
  <2>2. edges' = edges /\ phase' = phase
    BY <2>1 DEF graphVars
  <2> QED
    BY <1>1, <2>1, <2>2, SearchStands
<1>4. ASSUME NEW q \in Queries, StartSearch(q) PROVE Inv'
  <2>1. UNCHANGED graphVars
    BY <1>4 DEF StartSearch, graphVars
  <2> QED
    BY <1>1, <1>4, <2>1, StartSearchKeepsInv
<1>5. ASSUME NEW q \in Queries, UnknownNode(q) PROVE Inv'
  <2>1. UNCHANGED graphVars
    BY <1>5 DEF UnknownNode, graphVars
  <2> QED
    BY <1>1, <1>5, <2>1, UnknownNodeKeepsInv
<1>6. CASE SkipStale
  <2>1. UNCHANGED graphVars
    BY <1>6 DEF SkipStale, graphVars
  <2> QED
    BY <1>1, <1>6, <2>1, SkipStaleKeepsInv
<1>7. CASE Settle
  <2>1. UNCHANGED graphVars
    BY <1>7 DEF Settle, SettleTop, graphVars
  <2> QED
    BY <1>1, <1>7, <2>1, SettleKeepsInv
<1>8. ASSUME NEW n \in Nodes, Visit(n) PROVE Inv'
  <2>1. UNCHANGED graphVars
    BY <1>8 DEF Visit, graphVars
  <2> QED
    BY <1>1, <1>8, <2>1, ImprovementKeepsInv, NoImprovementKeepsInv
<1>9. CASE Exhausted
  <2>1. UNCHANGED graphVars
    BY <1>9 DEF Exhausted, graphVars
  <2> QED
    BY <1>1, <1>9, <2>1, ExhaustedKeepsInv
<1> QED
  BY <1>2, <1>3, <1>4, <1>5, <1>6, <1>7, <1>8, <1>9 DEF Next

\* Dijkstra's invariant, and that of the heap and of the routable nodes, hold
\* at every iteration of every loop.
THEOREM SearchInvariance == Spec => []Inv
<1>1. Init => Inv
  BY InvInit
<1>2. Inv /\ [Next]_vars => Inv'
  BY InvKept
<1> QED
  BY <1>1, <1>2, PTL DEF Spec

-----------------------------------------------------------------------------
(* What the invariant says                                                 *)

\* The maps have known nodes as keys, previous leads to settled nodes only, and
\* nodesExplored counts no node twice.
THEOREM SearchTypes == Spec => []SearchTypeOK
<1>1. Inv => SearchTypeOK
  <2> SUFFICES ASSUME Inv PROVE SearchTypeOK
    OBVIOUS
  <2>1. GraphTypeOK /\ StageInv
    BY DEF Inv, GraphInv, SearchInv
  <2>2. CASE Started
    <3>1. DistancesInv /\ SettledInv /\ PreviousInv
      BY <2>2 DEF Inv, SearchInv
    <3>2. rest \subseteq Nodes
      BY <3>1 DEF SettledInv, Neighbors
    <3> QED
      BY <2>1, <2>2, <3>1, <3>2 DEF SearchTypeOK, StageInv, DistancesInv, PreviousInv, Started
  <2>3. CASE ~ Started
    BY <2>1, <2>3 DEF SearchTypeOK, StageInv
  <2> QED
    BY <2>2, <2>3
<1> QED
  BY <1>1, SearchInvariance, PTL

\* Push and pop keep the order of the heap, for any number of entries.
THEOREM QueueStaysOrdered == Spec => []QueueIsOrdered
<1>1. Inv => QueueIsOrdered
  BY DEF Inv, SearchInv, StageInv, QueueInv, QueueIsOrdered, HeapOrdered
<1> QED
  BY <1>1, SearchInvariance, PTL

\* Kosaraju's two passes find a strongly connected component, and no larger one
\* exists: on every graph, whatever the order of its nodes and edges.
THEOREM LargestComponentIsRoutable == Spec => []RoutableIsLargestComponent
<1>1. Inv => RoutableIsLargestComponent
  BY GraphInvGivesLargest DEF Inv
<1> QED
  BY <1>1, SearchInvariance, PTL

-----------------------------------------------------------------------------
(* Paths and their lengths                                                 *)

IsSimplePath(p, n, m) ==
    /\ p \in Seq(Nodes) /\ Len(p) >= 1
    /\ p[1] = n /\ p[Len(p)] = m
    /\ \A i, j \in 1 .. Len(p) : i # j => p[i] # p[j]
    /\ \A k \in 2 .. Len(p) : <<p[k - 1], p[k]>> \in edges

LEMMA SimplePathsAreSimple ==
    ASSUME NEW n, NEW m, NEW p
    PROVE  p \in SimplePaths(n, m) <=> IsSimplePath(p, n, m)
<1>1. ASSUME p \in SimplePaths(n, m) PROVE IsSimplePath(p, n, m)
  <2>1. PICK S \in (SUBSET Nodes) \ {{}} : p \in SetToSeqs(S)
    BY <1>1 DEF SimplePaths, Itineraries
  <2> DEFINE c == Cardinality(S)
  <2>2. c \in Nat /\ c >= 1
    <3>1. IsFiniteSet(S) /\ S # {}
      BY FoundIsFinite
    <3>2. Cardinality(S) \in Nat /\ Cardinality(S) # 0
      BY <3>1, FS_CardinalityType, FS_EmptySet
    <3> QED
      BY <3>2
  <2>3. p \in [1 .. c -> S] /\ \A i, j \in 1 .. c : i # j => p[i] # p[j]
    BY <2>1 DEF SetToSeqs
  <2>4. p \in Seq(S) /\ p \in Seq(Nodes) /\ Len(p) = c
    <3>1. p \in [1 .. c -> Nodes]
      BY <2>3
    <3> QED
      BY <2>2, <2>3, <3>1, SeqDef, LenProperties
  <2>5. p[1] = n /\ p[Len(p)] = m /\ \A i \in 1 .. Len(p) - 1 : <<p[i], p[i + 1]>> \in edges
    BY <1>1 DEF SimplePaths, Last
  <2> HIDE DEF c
  <2>6. ASSUME NEW k \in 2 .. Len(p) PROVE <<p[k - 1], p[k]>> \in edges
    <3>1. k - 1 \in 1 .. Len(p) - 1 /\ (k - 1) + 1 = k
      BY <2>2, <2>4
    <3> QED
      BY <2>5, <3>1
  <2> QED
    BY <2>2, <2>3, <2>4, <2>5, <2>6 DEF IsSimplePath
<1>2. ASSUME IsSimplePath(p, n, m) PROVE p \in SimplePaths(n, m)
  <2> USE <1>2 DEF IsSimplePath
  <2> DEFINE S == Range(p)
             c == Len(p)
  <2>1. c \in Nat \ {0} /\ p \in [1 .. c -> Nodes]
    BY LenProperties
  <2>2. S = {p[i] : i \in 1 .. c} /\ S \in SUBSET Nodes
    BY <2>1 DEF Range
  <2>3. p[1] \in S
    BY <2>1, <2>2
  <2>4. p \in [1 .. c -> S]
    BY <2>1, <2>2
  <2> HIDE DEF S
  <2>5. p \in Bijection(1 .. c, S)
    BY <2>2, <2>4 DEF Bijection, Injection, Surjection, IsInjective
  <2>6. Cardinality(S) = c
    <3>1. ExistsBijection(1 .. c, S)
      BY <2>5 DEF ExistsBijection
    <3> HIDE DEF c
    <3> QED
      BY <2>1, <3>1, FS_CountingElements
  <2>7. p \in SetToSeqs(S)
    <3>1. \A i, j \in 1 .. c : i # j => p[i] # p[j]
      OBVIOUS
    <3> HIDE DEF c
    <3> QED
      BY <2>4, <2>6, <3>1 DEF SetToSeqs
  <2>8. p \in Itineraries
    BY <2>2, <2>3, <2>7 DEF Itineraries
  <2>9. ASSUME NEW i \in 1 .. Len(p) - 1 PROVE <<p[i], p[i + 1]>> \in edges
    <3>1. i + 1 \in 2 .. Len(p) /\ (i + 1) - 1 = i
      BY <2>1
    <3> QED
      BY <3>1
  <2> QED
    BY <2>8, <2>9 DEF SimplePaths, Last
<1> QED
  BY <1>1, <1>2

\* The lengths of the first parts of a path.
Sums(p, sum) ==
    /\ sum \in [1 .. Len(p) -> Nat]
    /\ sum[1] = 0
    /\ \A k \in 2 .. Len(p) : sum[k] = sum[k - 1] + EdgeLength(query, p[k - 1], p[k])
    /\ LengthOf(p) = sum[Len(p)]

LEMMA PathsHaveLengths ==
    ASSUME query \in Queries, NEW p \in Seq(Nodes), Len(p) >= 1
    PROVE  \E sum : Sums(p, sum)
<1> DEFINE n == Len(p)
           C == n - 1
           V == Nat
           edge(k) == EdgeLength(query, p[k], p[k + 1])
           step == [k \in 1 .. C |-> [x \in V |-> x + edge(k)]]
           g == CHOOSE g : g = [k \in 1 .. n |->
                   IF k = 1 THEN 0 ELSE g[k - 1] + EdgeLength(query, p[k - 1], p[k])]
<1>1. n \in Nat \ {0} /\ C \in Nat /\ \A k \in 1 .. n : p[k] \in Nodes
  BY LenProperties
<1>2. \A k \in 1 .. C : edge(k) \in Nat
  <2>1. \A k \in 1 .. C : k \in 1 .. n /\ k + 1 \in 1 .. n
    BY <1>1
  <2> QED
    BY <1>1, <2>1, QueryTypes
<1>3. LengthOf(p) = g[n]
  BY DEF LengthOf
<1> HIDE DEF edge, C, V
<1>4. step \in [1 .. C -> [V -> V]] /\ \A k \in 1 .. C : \A x \in V : step[k][x] = x + edge(k)
  BY <1>2 DEF V
<1> HIDE DEF step
<1>5. PICK f : Iterates(C, V, 0, step, f)
  <2>1. 0 \in V
    BY DEF V
  <2> QED
    BY <1>1, <1>4, <2>1, Iteration, Zenon
<1>6. /\ f \in [0 .. C -> V] /\ f[0] = 0
      /\ \A k \in 1 .. C : f[k] = step[k][f[k - 1]]
  BY <1>5 DEF Iterates
<1> DEFINE h == [k \in 1 .. n |-> f[k - 1]]
<1>7. ASSUME NEW k \in 1 .. n
      PROVE  h[k] = IF k = 1 THEN 0 ELSE h[k - 1] + EdgeLength(query, p[k - 1], p[k])
  <2>1. CASE k = 1
    BY <1>6, <2>1
  <2>2. CASE k # 1
    <3>1. k - 1 \in 1 .. C /\ k - 1 \in 1 .. n /\ (k - 1) + 1 = k /\ (k - 1) - 1 \in 0 .. C
      BY <1>1, <2>2 DEF C
    <3>2. f[(k - 1) - 1] \in V
      BY <1>6, <3>1
    <3>3. f[k - 1] = f[(k - 1) - 1] + edge(k - 1)
      BY <1>4, <1>6, <3>1, <3>2
    <3>4. edge(k - 1) = EdgeLength(query, p[k - 1], p[k])
      BY <3>1 DEF edge
    <3>5. h[k] = f[k - 1] /\ h[k - 1] = f[(k - 1) - 1]
      BY <3>1
    <3> HIDE DEF h
    <3> QED
      BY <2>2, <3>3, <3>4, <3>5
  <2> QED
    BY <2>1, <2>2
<1>8. h = [k \in 1 .. n |-> IF k = 1 THEN 0 ELSE h[k - 1] + EdgeLength(query, p[k - 1], p[k])]
  BY <1>7
<1> HIDE DEF h
<1>9. g = [k \in 1 .. n |-> IF k = 1 THEN 0 ELSE g[k - 1] + EdgeLength(query, p[k - 1], p[k])]
  BY <1>8
<1> HIDE DEF g
<1>10. /\ g[1] = 0
       /\ \A k \in 2 .. n : g[k] = g[k - 1] + EdgeLength(query, p[k - 1], p[k])
  BY <1>1, <1>9
<1>11. \A k \in 1 .. n : g[k] \in Nat
  <2> DEFINE S == {k \in 0 .. C : g[k + 1] \in Nat}
  <2>1. 0 \in S
    BY <1>1, <1>10
  <2>2. ASSUME NEW k \in 1 .. C, k - 1 \in S PROVE k \in S
    <3>1. g[k] \in Nat /\ k + 1 \in 2 .. n /\ (k + 1) - 1 = k /\ k \in 0 .. C
      <4>1. (k - 1) + 1 = k
        OBVIOUS
      <4> QED
        BY <1>1, <2>2, <4>1 DEF C
    <3>2. g[k + 1] = g[k] + edge(k)
      BY <1>10, <3>1 DEF edge
    <3>3. g[k + 1] \in Nat
      BY <1>2, <3>1, <3>2
    <3> QED
      BY <3>1, <3>3
  <2> HIDE DEF S
  <2>3. 0 .. C \subseteq S
    BY <1>1, <2>1, <2>2, Induction
  <2>4. ASSUME NEW k \in 1 .. n PROVE g[k] \in Nat
    <3>1. k - 1 \in 0 .. C /\ (k - 1) + 1 = k
      BY <1>1 DEF C
    <3>2. k - 1 \in S
      BY <2>3, <3>1
    <3> QED
      BY <3>1, <3>2 DEF S
  <2> QED
    BY <2>4
<1>12. Sums(p, g)
  BY <1>1, <1>3, <1>9, <1>10, <1>11 DEF Sums
<1> QED
  BY <1>12

-----------------------------------------------------------------------------
(* No path is shorter                                                      *)

\* What the invariant says when the goal has been settled.
LEMMA FoundFacts ==
    ASSUME Inv, Found
    PROVE  /\ Started /\ query \in Queries /\ query.start \in Nodes /\ query.goal \in Nodes
           /\ DistancesInv /\ QueueInv /\ SettledInv /\ RelaxedInv /\ PreviousInv
           /\ rest = {} /\ current.nodeId = query.goal /\ query.goal \in settled
           /\ query.start \in settled
           /\ current.distanceM = distances[query.goal]
           /\ Estimate(query.goal) = distances[query.goal]
           /\ \A n \in DOMAIN distances :
                 n \in Nodes /\ distances[n] \in Nat /\ query.air[n] \in Nat
<1>1. search = "found"
  BY DEF Found
<1>2. Started /\ query \in Queries
  BY <1>1 DEF Inv, SearchInv, StageInv, Started
<1>3. DistancesInv /\ QueueInv /\ SettledInv /\ RelaxedInv /\ PreviousInv
  BY <1>2 DEF Inv, SearchInv
<1>4. /\ current.nodeId = query.goal /\ query.goal \in settled /\ rest = {}
      /\ query.start \in settled /\ current.distanceM = distances[query.goal]
  BY <1>1, <1>3 DEF SettledInv, DistancesInv
<1>5. query.start \in Nodes /\ query.goal \in Nodes
  BY <1>2 DEF Started
<1>6. ASSUME NEW n \in DOMAIN distances
      PROVE  n \in Nodes /\ distances[n] \in Nat /\ query.air[n] \in Nat
  BY <1>2, <1>3, QueryTypes DEF DistancesInv
<1>7. Estimate(query.goal) = distances[query.goal]
  <2>1. query.air[query.goal] = 0
    BY <1>2, <1>5, QueryTypes
  <2>2. distances[query.goal] \in Nat
    BY <1>3, <1>4, <1>6 DEF DistancesInv
  <2> QED
    BY <2>1, <2>2 DEF Estimate
<1> QED
  BY <1>2, <1>3, <1>4, <1>5, <1>6, <1>7

\* Along a path the search has settled a node on a way that is no longer, or
\* the rest of the path leads to no goal within the length found.
LEMMA AlongPath ==
    ASSUME Inv, Found, NEW m, NEW p, IsSimplePath(p, query.start, m), NEW sum, Sums(p, sum),
           NEW k \in 1 .. Len(p)
    PROVE  \/ /\ p[k] \in settled /\ p[k] # query.goal
              /\ distances[p[k]] <= sum[k]
           \/ distances[query.goal] <= sum[k] + query.air[p[k]]
<1> DEFINE goal == query.goal
           D == distances[goal]
           Settled(i) == p[i] \in settled /\ p[i] # goal /\ distances[p[i]] <= sum[i]
           Beyond(i) == D <= sum[i] + query.air[p[i]]
           C == Len(p) - 1
           S == {i \in 0 .. C : Settled(i + 1) \/ Beyond(i + 1)}
<1>1. /\ query \in Queries
      /\ DistancesInv /\ QueueInv /\ SettledInv /\ RelaxedInv
      /\ rest = {} /\ current.nodeId = goal /\ goal \in settled /\ query.start \in settled
      /\ Estimate(goal) = D
      /\ \A n \in DOMAIN distances :
            n \in Nodes /\ distances[n] \in Nat /\ query.air[n] \in Nat
  BY FoundFacts
<1>2. /\ p \in Seq(Nodes) /\ Len(p) \in Nat \ {0} /\ C \in Nat
      /\ p[1] = query.start
      /\ \A i \in 1 .. Len(p) : p[i] \in Nodes /\ sum[i] \in Nat
      /\ sum[1] = 0
  BY LenProperties DEF IsSimplePath, Sums
<1>3. goal \in DOMAIN distances /\ query.start \in DOMAIN distances
  BY <1>1 DEF DistancesInv
<1>4. D \in Nat
  BY <1>1, <1>3
<1>5. 0 \in S
  <2>1. distances[query.start] = 0
    BY <1>1 DEF DistancesInv
  <2>2. CASE query.start = goal
    <3>1. D = 0 /\ query.air[query.start] \in Nat
      BY <1>1, <1>3, <2>1, <2>2
    <3>2. Beyond(1)
      BY <1>2, <3>1
    <3> QED
      BY <1>2, <3>2
  <2>3. CASE query.start # goal
    BY <1>1, <1>2, <2>1, <2>3
  <2> QED
    BY <2>2, <2>3
<1>6. ASSUME NEW i \in 1 .. C, i - 1 \in S PROVE i \in S
  <2> DEFINE u == p[i]
             v == p[i + 1]
             w == EdgeLength(query, u, v)
  <2>1. i \in 1 .. Len(p) /\ i + 1 \in 2 .. Len(p) /\ i + 1 \in 1 .. Len(p)
        /\ (i + 1) - 1 = i /\ (i - 1) + 1 = i /\ i # i + 1 /\ i \in 0 .. C
    BY <1>2
  <2>2. u \in Nodes /\ v \in Nodes /\ sum[i] \in Nat /\ sum[i + 1] \in Nat
    BY <1>2, <2>1
  <2>3. u # v /\ <<u, v>> \in edges
    BY <2>1 DEF IsSimplePath
  <2>4. w \in Nat /\ query.air[u] \in Nat /\ query.air[v] \in Nat
        /\ query.air[u] <= w + query.air[v]
    BY <1>1, <2>2, <2>3, QueryTypes
  <2>5. sum[i + 1] = sum[i] + w
    BY <2>1 DEF Sums
  <2>6. Settled(i) \/ Beyond(i)
    BY <1>6, <2>1
  <2> HIDE DEF w, C
  <2>7. CASE Beyond(i)
    <3>1. D <= sum[i + 1] + query.air[v]
      <4> DEFINE a == sum[i]
                 b == sum[i + 1]
                 x == query.air[u]
                 y == query.air[v]
      <4>1. D <= a + x /\ x <= w + y /\ b = a + w
        BY <2>4, <2>5, <2>7
      <4>2. D \in Nat /\ a \in Nat /\ x \in Nat /\ y \in Nat /\ w \in Nat
        BY <1>4, <2>2, <2>4
      <4> HIDE DEF D, a, b, x, y
      <4>3. D <= b + y
        BY <4>1, <4>2
      <4> QED
        BY <4>3 DEF b, y
    <3> QED
      BY <2>1, <3>1
  <2>8. CASE Settled(i)
    <3>1. u \in settled \ {goal} /\ v \in Neighbors(u) /\ distances[u] <= sum[i]
      BY <2>2, <2>3, <2>8 DEF Neighbors
    <3>2. v \in DOMAIN distances /\ distances[v] <= distances[u] + w
      BY <1>1, <3>1 DEF RelaxedInv, w
    <3>3. distances[u] \in Nat /\ distances[v] \in Nat
      BY <1>1, <3>1, <3>2 DEF DistancesInv
    <3>4. distances[v] <= sum[i + 1]
      BY <2>2, <2>4, <2>5, <3>1, <3>2, <3>3
    <3>5. CASE v = goal
      <4>1. D <= sum[i + 1] + query.air[v]
        BY <2>2, <2>4, <3>3, <3>4, <3>5
      <4> QED
        BY <2>1, <4>1
    <3>6. CASE v \in settled /\ v # goal
      BY <2>1, <3>4, <3>6
    <3>7. CASE v \notin settled
      <4>1. Item(query, v, distances[v]) \in Range(queue)
        BY <1>1, <3>2, <3>7 DEF QueueInv
      <4>2. D <= Item(query, v, distances[v]).priority
        BY <1>1, <4>1 DEF SettledInv
      <4>3. D <= distances[v] + query.air[v]
        BY <4>2, ItemFields
      <4>4. D <= sum[i + 1] + query.air[v]
        <5> DEFINE e == distances[v]
                   b == sum[i + 1]
                   y == query.air[v]
        <5>1. D <= e + y /\ e <= b /\ D \in Nat /\ e \in Nat /\ b \in Nat /\ y \in Nat
          BY <1>4, <2>2, <2>4, <3>3, <3>4, <4>3
        <5> HIDE DEF D, e, b, y
        <5>2. D <= b + y
          BY <5>1
        <5> QED
          BY <5>2 DEF b, y
      <4> QED
        BY <2>1, <4>4
    <3> QED
      BY <3>5, <3>6, <3>7
  <2> QED
    BY <2>6, <2>7, <2>8
<1>7. k - 1 \in 0 .. C /\ (k - 1) + 1 = k
  BY <1>2
<1> HIDE DEF S
<1>8. 0 .. C \subseteq S
  <2> HIDE DEF C
  <2> QED
    BY <1>2, <1>5, <1>6, Induction
<1>9. k - 1 \in S
  BY <1>7, <1>8
<1> QED
  BY <1>7, <1>9 DEF S

\* The distance of a settled node is the length of a shortest path.
LEMMA SettledAtShortest ==
    ASSUME Inv, Found, NEW n \in settled, NEW d \in Distances(query.start, n)
    PROVE  distances[n] <= d
<1>1. PICK p \in SimplePaths(query.start, n) : d = LengthOf(p)
  BY DEF Distances
<1>2. IsSimplePath(p, query.start, n)
  BY <1>1, SimplePathsAreSimple
<1>3. query \in Queries /\ DistancesInv /\ SettledInv
      /\ current.nodeId = query.goal /\ Estimate(query.goal) = distances[query.goal]
      /\ \A m \in DOMAIN distances :
            m \in Nodes /\ distances[m] \in Nat /\ query.air[m] \in Nat
      /\ query.goal \in settled
  BY FoundFacts
<1>4. PICK sum : Sums(p, sum)
  BY <1>2, <1>3, PathsHaveLengths DEF IsSimplePath
<1> DEFINE k == Len(p)
<1>5. k \in 1 .. Len(p) /\ p[k] = n /\ d = sum[k] /\ sum[k] \in Nat
  BY <1>1, <1>2, <1>4, LenProperties DEF IsSimplePath, Sums
<1> HIDE DEF k
<1>6. \/ distances[n] <= sum[k]
      \/ distances[query.goal] <= sum[k] + query.air[n]
  BY <1>2, <1>4, <1>5, AlongPath
<1>7. /\ distances[n] \in Nat /\ query.air[n] \in Nat /\ distances[query.goal] \in Nat
      /\ Estimate(n) <= distances[query.goal]
  BY <1>3 DEF DistancesInv, SettledInv
<1> QED
  BY <1>5, <1>6, <1>7 DEF Estimate

-----------------------------------------------------------------------------
(* A search without result                                                 *)

\* When the queue has run out, no edge leaves the settled nodes.
LEMMA NoneMeansNoWay ==
    ASSUME Inv, search = "none", query.start \in Nodes, query.goal \in Nodes
    PROVE  ~ Leads(edges, query.start, query.goal)
<1>1. Started
  BY DEF Started
<1>2. DistancesInv /\ QueueInv /\ SettledInv /\ RelaxedInv
  BY <1>1 DEF Inv, SearchInv
<1>3. queue = <<>> /\ rest = {} /\ query.goal \notin settled
  BY <1>2 DEF SettledInv
<1>4. Range(queue) = {}
  BY <1>3 DEF Range
<1>5. DOMAIN distances = settled
  BY <1>2, <1>4 DEF QueueInv, DistancesInv
<1>6. query.start \in settled /\ settled \in SUBSET Nodes
  BY <1>2, <1>5 DEF DistancesInv
<1>7. Closed(edges, settled)
  <2>1. ASSUME NEW n \in settled, NEW m \in Nodes, <<n, m>> \in edges PROVE m \in settled
    <3>1. n \in settled \ {query.goal} /\ m \in Neighbors(n) /\ m \notin rest
      BY <1>3, <2>1 DEF Neighbors
    <3> QED
      BY <1>2, <1>5, <3>1 DEF RelaxedInv
  <2> QED
    BY <2>1 DEF Closed
<1> QED
  BY <1>3, <1>6, <1>7 DEF Leads

LEMMA PathsLead ==
    ASSUME NEW n \in Nodes, NEW m \in Nodes, NEW p, IsSimplePath(p, n, m)
    PROVE  Leads(edges, n, m)
<1> USE DEF IsSimplePath
<1> DEFINE C == Len(p) - 1
           S == {i \in 0 .. C : Leads(edges, n, p[i + 1])}
<1>1. Len(p) \in Nat \ {0} /\ C \in Nat /\ \A i \in 1 .. Len(p) : p[i] \in Nodes
  BY LenProperties
<1>2. 0 \in S
  BY <1>1, LeadsToItself
<1>3. ASSUME NEW i \in 1 .. C, i - 1 \in S PROVE i \in S
  <2>1. i \in 1 .. Len(p) /\ i + 1 \in 2 .. Len(p) /\ i + 1 \in 1 .. Len(p)
        /\ (i + 1) - 1 = i /\ (i - 1) + 1 = i /\ i \in 0 .. C
    BY <1>1
  <2>2. Leads(edges, n, p[i])
    BY <1>3, <2>1
  <2>3. <<p[i], p[i + 1]>> \in edges /\ p[i] \in Nodes /\ p[i + 1] \in Nodes
    BY <1>1, <2>1
  <2>4. Leads(edges, n, p[i + 1])
    BY <2>2, <2>3, EdgeLeads, LeadsOn
  <2> QED
    BY <2>1, <2>4
<1>4. C \in S
  <2> HIDE DEF C, S
  <2>1. 0 .. C \subseteq S
    BY <1>1, <1>2, <1>3, Induction
  <2> QED
    BY <1>1, <2>1
<1> QED
  BY <1>1, <1>4

\* A search between two routable nodes never comes to nothing.
THEOREM RoutablePairs == Spec => []RoutablePairsHaveRoutes
<1>1. Inv => RoutablePairsHaveRoutes
  <2> SUFFICES ASSUME Inv, Ended, query.start \in largest, query.goal \in largest, ~ Found
               PROVE  FALSE
    BY DEF RoutablePairsHaveRoutes
  <2>1. search = "none" /\ phase = "built"
    BY DEF Ended, Found, Inv, SearchInv, StageInv
  <2>2. query.start \in Nodes /\ query.goal \in Nodes
    BY DEF Inv, GraphInv, GraphTypeOK
  <2>3. RoutableIsLargestComponent
    BY GraphInvGivesLargest DEF Inv
  <2>4. ComponentOf(query.start) = largest
    BY <2>1, <2>2, <2>3 DEF RoutableIsLargestComponent
  <2>5. ComponentOf(query.start) = Component(edges, query.start)
    BY <2>2, ComponentsAreComponents
  <2>6. query.goal \in Component(edges, query.start)
    BY <2>4, <2>5
  <2>7. Leads(edges, query.start, query.goal)
    BY <2>6 DEF Component, Mutual
  <2> QED
    BY <2>1, <2>2, <2>7, NoneMeansNoWay
<1> QED
  BY <1>1, SearchInvariance, PTL

\* What A* has settled when it ends has its final distance, and lies on a way
\* that the heuristic does not rule out.
THEOREM SettledArePromising == Spec => []OnlyPromising
<1>1. Inv => OnlyPromising
  <2> SUFFICES ASSUME Inv, Found, NEW n \in settled
               PROVE  /\ \A d \in Distances(query.start, n) : distances[n] <= d
                      /\ distances[n] + query.air[n] <= current.distanceM
    BY DEF OnlyPromising
  <2>1. \A d \in Distances(query.start, n) : distances[n] <= d
    BY SettledAtShortest
  <2>2. Estimate(n) <= current.distanceM
    BY FoundFacts DEF SettledInv
  <2> QED
    BY <2>1, <2>2 DEF Estimate
<1> QED
  BY <1>1, SearchInvariance, PTL

-----------------------------------------------------------------------------
(* The path returned                                                       *)

\* One step back.
Back(path) ==
    IF path = <<>> \/ path[1] = query.start THEN path
    ELSE IF path[1] \notin DOMAIN previous THEN <<>>
    ELSE <<previous[path[1]]>> \o path

\* The end of the path that leads to n over previous.
Traced(n, rank, path) ==
    /\ path \in Seq(Nodes) /\ Len(path) >= 1
    /\ path[Len(path)] = n
    /\ \A i \in 1 .. Len(path) : path[i] \in settled
    /\ \A i \in 2 .. Len(path) : path[i] # query.start /\ previous[path[i]] = path[i - 1]
    /\ \A i, j \in 1 .. Len(path) : i < j => rank[path[i]] < rank[path[j]]

\* A step back reaches a node settled earlier, so that no node comes twice.
LEMMA BackTraces ==
    ASSUME DistancesInv, PreviousInv, NEW n, NEW rank, SettledInOrder(rank),
           NEW path, Traced(n, rank, path)
    PROVE  /\ Traced(n, rank, Back(path))
           /\ Back(path) = path \/ Len(Back(path)) = Len(path) + 1
           /\ Back(path) = path => path[1] = query.start
<1> DEFINE L == Len(path)
<1>1. /\ path \in Seq(Nodes) /\ L \in Nat \ {0} /\ path # <<>> /\ path[1] \in settled
      /\ \A i \in 1 .. L : path[i] \in settled
  BY LenProperties, EmptySeq DEF Traced
<1>2. CASE path[1] = query.start
  BY <1>1, <1>2 DEF Back
<1>3. CASE path[1] # query.start
  <2> DEFINE a == previous[path[1]]
             longer == <<a>> \o path
  <2>1. path[1] \in DOMAIN previous /\ a \in settled /\ a \in Nodes
    BY <1>1, <1>3 DEF DistancesInv, PreviousInv
  <2>2. Back(path) = longer
    BY <1>1, <1>3, <2>1 DEF Back
  <2>3. rank[a] < rank[path[1]] /\ \A m \in settled : rank[m] \in Nat
    BY <1>1, <1>3 DEF SettledInOrder
  <2>4. <<a>> \in Seq(Nodes) /\ Len(<<a>>) = 1 /\ <<a>>[1] = a
    BY <2>1
  <2> HIDE DEF a
  <2>5. /\ longer \in Seq(Nodes) /\ Len(longer) = L + 1
        /\ longer[1] = a
        /\ \A i \in 2 .. L + 1 : longer[i] = path[i - 1]
    <3>1. longer \in Seq(Nodes) /\ Len(longer) = 1 + L
      BY <1>1, <2>4, ConcatProperties
    <3>2. \A i \in 1 .. 1 + L : longer[i] = IF i <= 1 THEN <<a>>[i] ELSE path[i - 1]
      BY <1>1, <2>4, ConcatProperties
    <3> HIDE DEF longer
    <3> QED
      BY <1>1, <2>4, <3>1, <3>2
  <2> HIDE DEF longer
  <2>6. \A i \in 2 .. L + 1 : i - 1 \in 1 .. L
    BY <1>1
  <2>7. longer[L + 1] = n
    <3>1. L + 1 \in 2 .. L + 1 /\ (L + 1) - 1 = L
      BY <1>1
    <3>2. longer[L + 1] = path[L]
      BY <2>5, <3>1
    <3> QED
      BY <3>2 DEF Traced
  <2>8. ASSUME NEW i \in 1 .. L + 1 PROVE longer[i] \in settled
    <3>1. CASE i = 1
      BY <2>1, <2>5, <3>1
    <3>2. CASE i # 1
      <4>1. i \in 2 .. L + 1
        BY <1>1, <3>2
      <4> QED
        BY <1>1, <2>5, <2>6, <4>1
    <3> QED
      BY <3>1, <3>2
  <2>9. ASSUME NEW i \in 2 .. L + 1
        PROVE  longer[i] # query.start /\ previous[longer[i]] = longer[i - 1]
    <3>1. CASE i = 2
      <4>1. longer[i] = path[1] /\ longer[i - 1] = a
        BY <1>1, <2>5, <3>1
      <4> QED
        BY <1>3, <4>1 DEF a
    <3>2. CASE i # 2
      <4>1. i - 1 \in 2 .. L /\ i - 1 \in 2 .. L + 1
        BY <1>1, <3>2
      <4>2. longer[i] = path[i - 1] /\ longer[i - 1] = path[(i - 1) - 1]
        BY <2>5, <4>1
      <4> QED
        BY <4>1, <4>2 DEF Traced
    <3> QED
      BY <3>1, <3>2
  <2>10. ASSUME NEW i \in 1 .. L + 1, NEW j \in 1 .. L + 1, i < j
         PROVE  rank[longer[i]] < rank[longer[j]]
    <3>1. j \in 2 .. L + 1 /\ longer[j] = path[j - 1] /\ j - 1 \in 1 .. L
      BY <1>1, <2>5, <2>10
    <3>2. CASE i # 1
      <4>1. i \in 2 .. L + 1 /\ longer[i] = path[i - 1] /\ i - 1 \in 1 .. L /\ i - 1 < j - 1
        BY <1>1, <2>5, <2>10, <3>2
      <4> QED
        BY <3>1, <4>1 DEF Traced
    <3>3. CASE i = 1 /\ j = 2
      <4>1. longer[i] = a /\ longer[j] = path[1]
        BY <2>5, <3>1, <3>3
      <4> QED
        BY <2>3, <4>1
    <3>4. CASE i = 1 /\ j # 2
      <4>1. 1 \in 1 .. L /\ 1 < j - 1 /\ longer[i] = a
        BY <1>1, <2>5, <3>1, <3>4
      <4>2. rank[path[1]] < rank[path[j - 1]]
        BY <3>1, <4>1 DEF Traced
      <4>3. rank[a] \in Nat /\ rank[path[1]] \in Nat /\ rank[path[j - 1]] \in Nat
        BY <1>1, <2>1, <2>3, <3>1
      <4>4. rank[a] < rank[path[j - 1]]
        BY <2>3, <4>2, <4>3
      <4> QED
        BY <3>1, <4>1, <4>4
    <3> QED
      BY <3>2, <3>3, <3>4
  <2>11. Traced(n, rank, longer)
    BY <1>1, <2>5, <2>7, <2>8, <2>9, <2>10 DEF Traced
  <2>12. longer # path
    BY <1>1, <2>5
  <2> QED
    BY <2>2, <2>5, <2>11, <2>12
<1> QED
  BY <1>2, <1>3

\* What is traced back C times is the path that PathTo gives.
LEMMA PathToGoesBack ==
    ASSUME DistancesInv, PreviousInv, NEW n \in settled, NEW rank, SettledInOrder(rank)
    PROVE  /\ Traced(n, rank, PathTo(n))
           /\ PathTo(n)[1] = query.start
<1> DEFINE C == Cardinality(Nodes)
           V == {path \in Seq(Nodes) : Traced(n, rank, path)}
           back == [path \in V |-> Back(path)]
           step == [k \in 1 .. C |-> back]
           g == CHOOSE g : g = [k \in 0 .. C |->
                    IF k = 0 THEN <<n>>
                    ELSE LET path == g[k - 1]
                         IN IF path = <<>> \/ path[1] = query.start THEN path
                            ELSE IF path[1] \notin DOMAIN previous THEN <<>>
                            ELSE <<previous[path[1]]>> \o path]
           first == <<n>>
<1>1. C \in Nat
  BY NodesAssumption, FS_CardinalityType
<1>2. PathTo(n) = g[C]
  BY DEF PathTo
<1>3. g = CHOOSE h : h = [k \in 0 .. C |-> IF k = 0 THEN first ELSE Back(h[k - 1])]
  BY DEF Back
<1> HIDE DEF g
<1>4. n \in Nodes
  BY DEF DistancesInv
<1>5. first \in V
  <2>1. first \in Seq(Nodes) /\ Len(first) = 1 /\ first[1] = n
    BY <1>4
  <2> HIDE DEF first
  <2>2. /\ \A i \in 1 .. Len(first) : first[i] = n
        /\ \A i \in 2 .. Len(first) : FALSE
        /\ \A i, j \in 1 .. Len(first) : ~ i < j
    BY <2>1
  <2>3. \A i \in 1 .. Len(first) : first[i] \in settled
    BY <2>2
  <2>4. Traced(n, rank, first)
    BY <2>1, <2>2, <2>3 DEF Traced
  <2> QED
    BY <2>1, <2>4
<1>6. \A path \in V : Back(path) \in V
  <2>1. ASSUME NEW path \in V PROVE Back(path) \in V
    <3>1. Traced(n, rank, Back(path))
      BY BackTraces
    <3> QED
      BY <3>1 DEF Traced
  <2> QED
    BY <2>1
<1>7. \A path \in V : Traced(n, rank, path)
  OBVIOUS
<1> HIDE DEF V, first, C
<1>8. back \in [V -> V] /\ \A path \in V : back[path] = Back(path)
  BY <1>6
<1> HIDE DEF back
<1>9. step \in [1 .. C -> [V -> V]] /\ \A k \in 1 .. C : step[k] = back
  BY <1>8
<1> HIDE DEF step
<1>10. PICK f : Iterates(C, V, first, step, f)
  BY <1>1, <1>5, <1>9, Iteration, Zenon
<1>11. /\ f \in [0 .. C -> V] /\ f[0] = first
       /\ \A k \in 1 .. C : f[k] = step[k][f[k - 1]]
  BY <1>10 DEF Iterates
<1>12. ASSUME NEW k \in 0 .. C PROVE f[k] = IF k = 0 THEN first ELSE Back(f[k - 1])
  <2>1. CASE k = 0
    BY <1>11, <2>1
  <2>2. CASE k # 0
    <3>1. k \in 1 .. C /\ k - 1 \in 0 .. C
      BY <1>1, <2>2
    <3>2. f[k - 1] \in V
      BY <1>11, <3>1
    <3>3. f[k] = back[f[k - 1]]
      BY <1>9, <1>11, <3>1
    <3> QED
      BY <1>8, <2>2, <3>2, <3>3
  <2> QED
    BY <2>1, <2>2
<1>13. f = [k \in 0 .. C |-> IF k = 0 THEN first ELSE Back(f[k - 1])]
  BY <1>11, <1>12
<1>14. g = [k \in 0 .. C |-> IF k = 0 THEN first ELSE Back(g[k - 1])]
  BY <1>3, <1>13
<1>15. g[0] = first /\ \A k \in 1 .. C : g[k] = Back(g[k - 1])
  BY <1>1, <1>14
<1> DEFINE S == {k \in 0 .. C : g[k] \in V /\ (g[k][1] = query.start \/ Len(g[k]) = k + 1)}
<1>16. 0 \in S
  <2>1. Len(first) = 1
    BY DEF first
  <2> QED
    BY <1>1, <1>5, <1>15, <2>1
<1>17. ASSUME NEW k \in 1 .. C, k - 1 \in S PROVE k \in S
  <2>1. g[k - 1] \in V /\ g[k] = Back(g[k - 1]) /\ k \in 0 .. C
    BY <1>15, <1>17
  <2>2. g[k] \in V /\ Traced(n, rank, g[k - 1])
    BY <1>6, <1>7, <2>1
  <2>3. /\ g[k] = g[k - 1] \/ Len(g[k]) = Len(g[k - 1]) + 1
        /\ g[k] = g[k - 1] => g[k - 1][1] = query.start
    BY <2>1, <2>2, BackTraces
  <2>4. g[k - 1][1] = query.start => g[k] = g[k - 1]
    BY <2>1 DEF Back
  <2>5. g[k - 1][1] = query.start \/ Len(g[k - 1]) = (k - 1) + 1
    BY <1>17
  <2>6. g[k][1] = query.start \/ Len(g[k]) = k + 1
    <3>1. (k - 1) + 1 = k
      OBVIOUS
    <3> QED
      BY <2>3, <2>4, <2>5, <3>1
  <2> QED
    BY <2>1, <2>2, <2>6
<1>18. C \in S
  <2> HIDE DEF S
  <2>1. 0 .. C \subseteq S
    BY <1>1, <1>16, <1>17, Induction
  <2> QED
    BY <1>1, <2>1
<1>19. Traced(n, rank, g[C])
  BY <1>7, <1>18
<1>20. Len(g[C]) # C + 1
  <2> SUFFICES ASSUME Len(g[C]) = C + 1 PROVE FALSE
    OBVIOUS
  <2> DEFINE p == g[C]
             D == 1 .. C + 1
  <2>1. p \in [D -> Nodes]
    BY <1>1, <1>19, LenProperties DEF Traced
  <2>2. ASSUME NEW i \in D, NEW j \in D, p[i] = p[j] PROVE i = j
    <3>1. \A m \in settled : rank[m] \in Nat
      BY DEF SettledInOrder
    <3>2. rank[p[i]] \in Nat /\ p[i] \in settled
      BY <1>19, <3>1 DEF Traced
    <3>3. ~ (i < j) /\ ~ (j < i)
      BY <1>19, <2>2, <3>2 DEF Traced
    <3> QED
      BY <1>1, <3>3
  <2> HIDE DEF p
  <2>3. p \in Injection(D, Nodes)
    BY <2>1, <2>2 DEF Injection, IsInjective
  <2> HIDE DEF D
  <2>4. Cardinality(D) <= Cardinality(Nodes)
    BY <2>3, NodesAssumption, FS_Injection
  <2>5. Cardinality(D) = C + 1
    <3>1. 1 \in Int /\ C + 1 \in Int
      BY <1>1
    <3>2. Cardinality(1 .. C + 1) = IF 1 > C + 1 THEN 0 ELSE (C + 1) - 1 + 1
      BY <3>1, FS_Interval
    <3> QED
      BY <1>1, <3>2 DEF D
  <2> QED
    BY <1>1, <2>4, <2>5 DEF C
<1>21. g[C][1] = query.start
  BY <1>18, <1>20
<1> QED
  BY <1>2, <1>19, <1>21

\* A path traced back to the start is simple and as long as the distance.
LEMMA TracedPath ==
    ASSUME query \in Queries, DistancesInv, PreviousInv, NEW n, NEW rank, SettledInOrder(rank),
           NEW path, Traced(n, rank, path), path[1] = query.start
    PROVE  /\ IsSimplePath(path, query.start, n)
           /\ LengthOf(path) = distances[n]
<1> DEFINE C == Len(path) - 1
<1>1. /\ path \in Seq(Nodes) /\ Len(path) \in Nat \ {0} /\ C \in Nat /\ path[Len(path)] = n
      /\ \A i \in 1 .. Len(path) : path[i] \in settled /\ rank[path[i]] \in Nat
  BY LenProperties DEF Traced, SettledInOrder
<1>2. ASSUME NEW k \in 2 .. Len(path)
      PROVE  /\ <<path[k - 1], path[k]>> \in edges
             /\ distances[path[k]] = distances[path[k - 1]]
                                     + EdgeLength(query, path[k - 1], path[k])
  <2>1. k \in 1 .. Len(path)
    BY <1>1
  <2>2. path[k] \in DOMAIN previous /\ previous[path[k]] = path[k - 1]
    BY <1>1, <2>1 DEF Traced, PreviousInv, DistancesInv
  <2> QED
    BY <2>2 DEF PreviousInv
<1>3. ASSUME NEW i \in 1 .. Len(path), NEW j \in 1 .. Len(path), i # j PROVE path[i] # path[j]
  <2>1. i < j \/ j < i
    BY <1>3
  <2> QED
    BY <1>1, <2>1 DEF Traced
<1>4. IsSimplePath(path, query.start, n)
  BY <1>1, <1>2, <1>3 DEF IsSimplePath
<1>5. PICK sum : Sums(path, sum)
  BY <1>1, PathsHaveLengths
<1> DEFINE S == {i \in 0 .. C : sum[i + 1] = distances[path[i + 1]]}
<1>6. 0 \in S
  BY <1>1, <1>5 DEF Sums, DistancesInv
<1>7. ASSUME NEW i \in 1 .. C, i - 1 \in S PROVE i \in S
  <2>1. i + 1 \in 2 .. Len(path) /\ (i + 1) - 1 = i /\ (i - 1) + 1 = i /\ i \in 0 .. C
    BY <1>1
  <2>2. sum[i] = distances[path[i]]
    BY <1>7, <2>1
  <2>3. sum[i + 1] = sum[i] + EdgeLength(query, path[i], path[i + 1])
    BY <1>5, <2>1 DEF Sums
  <2>4. distances[path[i + 1]] = distances[path[i]] + EdgeLength(query, path[i], path[i + 1])
    BY <1>2, <2>1
  <2> QED
    BY <2>1, <2>2, <2>3, <2>4
<1>8. C \in S
  <2> HIDE DEF C, S
  <2>1. 0 .. C \subseteq S
    BY <1>1, <1>6, <1>7, Induction
  <2> QED
    BY <1>1, <2>1
<1>9. LengthOf(path) = distances[n]
  BY <1>1, <1>5, <1>8 DEF Sums
<1> QED
  BY <1>4, <1>9

\* The path returned runs from the start to the goal, has the length returned
\* with it, and none is shorter; none is returned only if none exists.
THEOREM RoutesAreShortest == Spec => []Shortest
<1>1. Inv => Shortest
  <2> SUFFICES ASSUME Inv PROVE Shortest
    OBVIOUS
  <2>1. ASSUME Found
        PROVE  /\ PathTo(query.goal) \in SimplePaths(query.start, query.goal)
               /\ LengthOf(PathTo(query.goal)) = current.distanceM
               /\ \A d \in Distances(query.start, query.goal) : current.distanceM <= d
    <3>1. /\ query \in Queries /\ DistancesInv /\ PreviousInv
          /\ query.goal \in settled /\ current.distanceM = distances[query.goal]
      BY <2>1, FoundFacts
    <3>2. PICK rank : SettledInOrder(rank)
      BY <3>1 DEF PreviousInv
    <3> DEFINE path == PathTo(query.goal)
    <3>3. Traced(query.goal, rank, path) /\ path[1] = query.start
      BY <3>1, <3>2, PathToGoesBack
    <3>4. IsSimplePath(path, query.start, query.goal) /\ LengthOf(path) = distances[query.goal]
      BY <3>1, <3>2, <3>3, TracedPath
    <3>5. path \in SimplePaths(query.start, query.goal)
      BY <3>4, SimplePathsAreSimple
    <3>6. \A d \in Distances(query.start, query.goal) : distances[query.goal] <= d
      BY <2>1, <3>1, SettledAtShortest
    <3> QED
      BY <3>1, <3>4, <3>5, <3>6
  <2>2. ASSUME search = "none", query.start \in Nodes, query.goal \in Nodes
        PROVE  Distances(query.start, query.goal) = {}
    <3>1. ~ Leads(edges, query.start, query.goal)
      BY <2>2, NoneMeansNoWay
    <3>2. ASSUME NEW p \in SimplePaths(query.start, query.goal) PROVE FALSE
      <4>1. IsSimplePath(p, query.start, query.goal)
        BY SimplePathsAreSimple
      <4> QED
        BY <2>2, <3>1, <4>1, PathsLead
    <3> QED
      BY <3>2 DEF Distances
  <2> QED
    BY <2>1, <2>2 DEF Shortest
<1> QED
  BY <1>1, SearchInvariance, PTL
=============================================================================
