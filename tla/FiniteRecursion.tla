-------------------------- MODULE FiniteRecursion --------------------------
(***************************************************************************)
(* Induction and recursion over an initial part of the naturals, in the    *)
(* first-order form that the provers can use: a property is a set, a       *)
(* recursion a sequence of functions on the set of its values.             *)
(***************************************************************************)
EXTENDS Integers, FunctionTheorems, WellFoundedInduction, TLAPS

LEMMA LeastNatural ==
    ASSUME NEW S \in SUBSET Nat, S # {}
    PROVE  \E x \in S : \A y \in S : x <= y
<1> DEFINE R == OpToRel(<, Nat)
<1>1. IsWellFoundedOn(R, Nat)
  BY NatLessThanWellFounded
<1>2. \A x, y \in Nat : x < y => <<x, y>> \in R
  BY DEF OpToRel
<1> HIDE DEF R
<1>3. PICK x \in S : \A y \in S : ~ (<<y, x>> \in R)
  BY <1>1, WFMin
<1>4. ASSUME NEW y \in S PROVE x <= y
  <2>1. x \in Nat /\ y \in Nat
    OBVIOUS
  <2>2. ~ (y < x)
    BY <1>2, <1>3, <2>1, Zenon
  <2> QED
    BY <2>1, <2>2
<1> QED
  BY <1>4

LEMMA GreatestBelow ==
    ASSUME NEW n \in Nat, NEW S \in SUBSET (0 .. n), S # {}
    PROVE  \E x \in S : \A y \in S : y <= x
<1> DEFINE T == {n - s : s \in S}
<1>0. \A s \in S : n - s \in T /\ n - s \in Nat
  OBVIOUS
<1>1. T \in SUBSET Nat /\ T # {}
  BY <1>0
<1>2. PICK x \in T : \A y \in T : x <= y
  BY <1>1, LeastNatural
<1>3. PICK s \in S : x = n - s
  BY <1>2
<1>4. ASSUME NEW y \in S PROVE y <= s
  <2>1. n - y \in T
    OBVIOUS
  <2>2. n - s <= n - y
    BY <1>2, <1>3, <2>1
  <2> QED
    BY <2>2
<1> QED
  BY <1>4

\* What holds at 0 and goes on from k - 1 to k holds up to n.
LEMMA Induction ==
    ASSUME NEW n \in Nat, NEW S, 0 \in S,
           \A k \in 1 .. n : k - 1 \in S => k \in S
    PROVE  0 .. n \subseteq S
<1> SUFFICES ASSUME ~ (0 .. n \subseteq S) PROVE FALSE
  OBVIOUS
<1> DEFINE T == (0 .. n) \ S
<1>1. T \in SUBSET Nat /\ T # {}
  OBVIOUS
<1>2. PICK x \in T : \A y \in T : x <= y
  BY <1>1, LeastNatural
<1>3. x # 0 /\ x \in 1 .. n
  OBVIOUS
<1>4. x - 1 \notin T
  BY <1>2, <1>3
<1> QED
  BY <1>3, <1>4

\* Values in V computed one from the other: step[k] leads from the value at
\* k - 1 to the one at k.
Iterates(n, V, first, step, f) ==
    /\ f \in [0 .. n -> V]
    /\ f[0] = first
    /\ \A k \in 1 .. n : f[k] = step[k][f[k - 1]]

LEMMA Iteration ==
    ASSUME NEW n \in Nat, NEW V, NEW first \in V, NEW step \in [1 .. n -> [V -> V]]
    PROVE  \E f : Iterates(n, V, first, step, f)
<1> DEFINE Good(m, f) == Iterates(m, V, first, step, f)
           S == {m \in 0 .. n : \E f : Good(m, f)}
<1>1. 0 \in S
  <2>1. Good(0, [k \in 0 .. 0 |-> first])
    BY DEF Iterates
  <2> HIDE DEF Good
  <2> QED
    BY <2>1
<1>2. ASSUME NEW m \in 1 .. n, m - 1 \in S PROVE m \in S
  <2>1. PICK f : Good(m - 1, f)
    BY <1>2
  <2> USE DEF Iterates
  <2> DEFINE g == [k \in 0 .. m |-> IF k = m THEN step[m][f[m - 1]] ELSE f[k]]
  <2>2. m - 1 \in 0 .. m - 1 /\ step[m] \in [V -> V]
    OBVIOUS
  <2>3. f[m - 1] \in V
    BY <2>1, <2>2
  <2>4. step[m][f[m - 1]] \in V
    BY <2>2, <2>3
  <2>5. g \in [0 .. m -> V]
    <3>1. \A k \in 0 .. m : k # m => k \in 0 .. m - 1
      OBVIOUS
    <3> QED
      BY <2>1, <2>4, <3>1
  <2>6. g[0] = first
    BY <2>1
  <2>7. ASSUME NEW k \in 1 .. m PROVE g[k] = step[k][g[k - 1]]
    <3>1. k - 1 \in 0 .. m /\ k - 1 # m /\ g[k - 1] = f[k - 1]
      OBVIOUS
    <3>2. CASE k = m
      BY <3>1, <3>2
    <3>3. CASE k # m
      <4>1. k \in 1 .. m - 1
        BY <3>3
      <4> QED
        BY <2>1, <3>1, <3>3, <4>1
    <3> QED
      BY <3>2, <3>3
  <2>8. Good(m, g)
    BY <2>5, <2>6, <2>7
  <2> HIDE DEF g, Good, Iterates
  <2> QED
    BY <2>8
<1>3. n \in S
  <2> HIDE DEF S
  <2>1. 0 .. n \subseteq S
    BY <1>1, <1>2, Induction
  <2> QED
    BY <2>1
<1> QED
  BY <1>3

\* Values in V for the elements of D, each computed from those of a lower rank.
Solves(D, V, step, f) ==
    /\ f \in [D -> V]
    /\ \A k \in D : f[k] = step[k][f]

LEMMA RankedRecursion ==
    ASSUME NEW n \in Nat, NEW D, NEW V, NEW v \in V, NEW rank \in [D -> 1 .. n],
           NEW step, step \in [D -> [[D -> V] -> V]],
           \A k \in D : \A f, g \in [D -> V] :
              (\A j \in D : rank[j] < rank[k] => f[j] = g[j]) => step[k][f] = step[k][g]
    PROVE  \E f : Solves(D, V, step, f)
<1> DEFINE Good(d, f) == /\ f \in [D -> V]
                         /\ \A k \in D : rank[k] <= d => f[k] = step[k][f]
           S == {d \in 0 .. n : \E f : Good(d, f)}
<1>1. 0 \in S
  <2>1. Good(0, [k \in D |-> v])
    OBVIOUS
  <2> HIDE DEF Good
  <2> QED
    BY <2>1
<1>2. ASSUME NEW d \in 1 .. n, d - 1 \in S PROVE d \in S
  <2>1. PICK f : Good(d - 1, f)
    BY <1>2
  <2> DEFINE g == [k \in D |-> IF rank[k] = d THEN step[k][f] ELSE f[k]]
  <2>2. g \in [D -> V]
    <3>1. \A k \in D : step[k][f] \in V
      BY <2>1
    <3> QED
      BY <2>1, <3>1
  <2>3. ASSUME NEW k \in D, rank[k] <= d PROVE g[k] = step[k][g]
    <3>1. step[k][f] = step[k][g]
      <4>1. \A j \in D : rank[j] < rank[k] => f[j] = g[j]
        BY <2>3
      <4> QED
        BY <2>1, <2>2, <4>1
    <3>2. g[k] = step[k][f]
      <4>1. CASE rank[k] = d
        BY <4>1
      <4>2. CASE rank[k] # d
        <5>1. rank[k] \in 1 .. n /\ d \in 1 .. n
          OBVIOUS
        <5>2. rank[k] <= d - 1
          <6> DEFINE r == rank[k]
          <6>1. r \in Int /\ d \in Int /\ r <= d /\ r # d
            BY <2>3, <4>2, <5>1
          <6> HIDE DEF r
          <6>2. r <= d - 1
            BY <6>1
          <6> QED
            BY <6>2 DEF r
        <5>3. g[k] = f[k]
          BY <4>2
        <5> HIDE DEF g
        <5> QED
          BY <2>1, <5>2, <5>3
      <4> QED
        BY <4>1, <4>2
    <3> QED
      BY <3>1, <3>2
  <2>4. Good(d, g)
    BY <2>2, <2>3
  <2> HIDE DEF Good, g
  <2> QED
    BY <2>4
<1>3. n \in S
  <2> HIDE DEF S
  <2>1. 0 .. n \subseteq S
    BY <1>1, <1>2, Induction
  <2> QED
    BY <2>1
<1>4. \A f : Good(n, f) => Solves(D, V, step, f)
  BY DEF Solves
<1> HIDE DEF Good
<1> QED
  BY <1>3, <1>4
=============================================================================
