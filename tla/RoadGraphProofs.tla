--------------------------- MODULE RoadGraphProofs ---------------------------
(***************************************************************************)
(* Proofs about RoadGraph, for every finite set of nodes, all edges and    *)
(* any order in which they come.                                           *)
(*                                                                         *)
(* Kosaraju's argument on these loops: the node that was finished last     *)
(* among those not yet assigned reaches only nodes of its own component    *)
(* along reversed edges, because a neighbour finished later would have     *)
(* been its ancestor in the first pass.                                    *)
(***************************************************************************)
EXTENDS RoadGraph, FiniteRecursion, FiniteSetTheorems, SequenceTheorems

-----------------------------------------------------------------------------
(* Reachability                                                            *)

\* No edge of E leaves S.
Closed(E, S) == \A m \in S : \A k \in Nodes : <<m, k>> \in E => k \in S

\* There is a path from x to y: nothing closed separates them.
Leads(E, x, y) == \A S \in SUBSET Nodes : x \in S /\ Closed(E, S) => y \in S

LEMMA LeadsToItself == ASSUME NEW E, NEW x PROVE Leads(E, x, x)
  BY DEF Leads

LEMMA EdgeLeads ==
    ASSUME NEW E, NEW x \in Nodes, NEW y \in Nodes, <<x, y>> \in E
    PROVE  Leads(E, x, y)
  BY DEF Leads, Closed

LEMMA LeadsOn ==
    ASSUME NEW E, NEW x, NEW y, NEW z, Leads(E, x, y), Leads(E, y, z)
    PROVE  Leads(E, x, z)
  BY DEF Leads

\* A path out of T has an edge that leaves T.
LEMMA ExitEdge ==
    ASSUME NEW E, NEW T, NEW x \in Nodes, NEW y \in Nodes, x \in T, y \notin T, Leads(E, x, y)
    PROVE  \E a, b \in Nodes : /\ a \in T /\ b \notin T /\ <<a, b>> \in E
                               /\ Leads(E, x, a) /\ Leads(E, b, y)
<1> DEFINE S == {s \in Nodes : Leads(E, x, s) /\ (s \in T \/ ~ Leads(E, s, y))}
<1> SUFFICES ASSUME ~ (\E a, b \in Nodes : /\ a \in T /\ b \notin T /\ <<a, b>> \in E
                                           /\ Leads(E, x, a) /\ Leads(E, b, y))
             PROVE FALSE
  OBVIOUS
<1>1. x \in S
  BY LeadsToItself
<1>2. ASSUME NEW m \in S, NEW k \in Nodes, <<m, k>> \in E PROVE k \in S
  <2>1. Leads(E, x, k)
    BY <1>2, EdgeLeads, LeadsOn
  <2>2. Leads(E, k, y) => Leads(E, m, y)
    BY <1>2, EdgeLeads, LeadsOn
  <2> QED
    BY <1>2, <2>1, <2>2
<1>3. Closed(E, S) /\ S \in SUBSET Nodes
  BY <1>2 DEF Closed
<1>4. y \in S
  <2> HIDE DEF S
  <2> QED
    BY <1>1, <1>3 DEF Leads
<1> QED
  BY <1>4, LeadsToItself

\* The nodes that are reached in at most k steps.
LEMMA Layers ==
    ASSUME NEW n \in Nodes
    PROVE  \E w \in [0 .. Cardinality(Nodes) -> SUBSET Nodes] :
              /\ w[0] = {n}
              /\ \A k \in 1 .. Cardinality(Nodes) : w[k] = Wider(w[k - 1])
              /\ ReachableFrom(n) = w[Cardinality(Nodes) - 1]
<1> DEFINE C == Cardinality(Nodes)
           V == SUBSET Nodes
           first == {n}
           g == CHOOSE g : g = [k \in 0 .. C |-> IF k = 0 THEN first ELSE Wider(g[k - 1])]
           wider == [near \in V |-> Wider(near)]
           step == [k \in 1 .. C |-> wider]
<1>1. C \in Nat
  BY NodesAssumption, FS_CardinalityType
<1>2. \A near \in V : Wider(near) \in V
  BY DEF Neighbors, Wider
<1>3. first \in V
  OBVIOUS
<1>4. ReachableFrom(n) = g[C - 1]
  BY DEF ReachableFrom
<1> HIDE DEF V, C, first
<1>5. wider \in [V -> V] /\ \A near \in V : wider[near] = Wider(near)
  BY <1>2
<1> HIDE DEF wider
<1>6. step \in [1 .. C -> [V -> V]] /\ \A k \in 1 .. C : step[k] = wider
  BY <1>5
<1> HIDE DEF step
<1>7. PICK f : Iterates(C, V, first, step, f)
  BY <1>1, <1>3, <1>6, Iteration, Zenon
<1> USE <1>7 DEF Iterates
<1>8. ASSUME NEW k \in 0 .. C PROVE f[k] = IF k = 0 THEN first ELSE Wider(f[k - 1])
  <2>1. CASE k = 0
    BY <1>7, <2>1
  <2>2. CASE k # 0
    <3>1. k \in 1 .. C /\ k - 1 \in 0 .. C
      BY <1>1, <2>2
    <3>2. f[k - 1] \in V
      BY <1>7, <3>1
    <3>3. f[k] = step[k][f[k - 1]]
      BY <1>7, <3>1
    <3>4. step[k] = wider /\ wider[f[k - 1]] = Wider(f[k - 1])
      BY <1>5, <1>6, <3>1, <3>2
    <3> QED
      BY <2>2, <3>3, <3>4
  <2> QED
    BY <2>1, <2>2
<1>9. f = [k \in 0 .. C |-> IF k = 0 THEN first ELSE Wider(f[k - 1])]
  BY <1>7, <1>8
<1>10. g = [k \in 0 .. C |-> IF k = 0 THEN first ELSE Wider(g[k - 1])]
  BY <1>9
<1> HIDE DEF g
<1>11. g[0] = first /\ \A k \in 1 .. C : g[k] = Wider(g[k - 1])
  BY <1>1, <1>10
<1>12. \A k \in 0 .. C : g[k] \in V
  <2> DEFINE S == {k \in 0 .. C : g[k] \in V}
  <2>1. 0 \in S
    BY <1>1, <1>3, <1>11
  <2>2. ASSUME NEW k \in 1 .. C, k - 1 \in S PROVE k \in S
    <3>1. g[k - 1] \in V /\ k \in 0 .. C
      BY <1>1, <2>2
    <3> QED
      BY <1>2, <1>11, <3>1
  <2> HIDE DEF S
  <2>3. 0 .. C \subseteq S
    BY <1>1, <2>1, <2>2, Induction
  <2> QED
    BY <2>3 DEF S
<1>13. g \in [0 .. C -> V]
  BY <1>10, <1>12
<1> QED
  BY <1>4, <1>11, <1>13 DEF C, V, first

LEMMA ReachableIsLeads ==
    ASSUME NEW n \in Nodes
    PROVE  ReachableFrom(n) = {m \in Nodes : Leads(edges, n, m)}
<1> DEFINE C == Cardinality(Nodes)
<1>1. C \in Nat
  BY NodesAssumption, FS_CardinalityType
<1>2. PICK w \in [0 .. C -> SUBSET Nodes] :
              /\ w[0] = {n}
              /\ \A k \in 1 .. C : w[k] = Wider(w[k - 1])
              /\ ReachableFrom(n) = w[C - 1]
  BY Layers
<1>3. C >= 1
  BY NodesAssumption, FS_EmptySet, <1>1
<1> HIDE DEF C
<1>4. \A k \in 0 .. C : w[k] \subseteq Nodes /\ IsFiniteSet(w[k]) /\ Cardinality(w[k]) \in Nat
                        /\ Cardinality(w[k]) <= C
  BY <1>2, NodesAssumption, FS_Subset, FS_CardinalityType DEF C
<1>5. \A S \in SUBSET Nodes : Wider(S) = S => Closed(edges, S)
  BY DEF Wider, Closed, Neighbors
<1>6. Closed(edges, w[C - 1])
  <2> DEFINE S == {k \in 0 .. C : Wider(w[k]) = w[k] \/ Cardinality(w[k]) >= k + 1}
  <2>1. 0 \in S
    <3>1. Cardinality(w[0]) = 1
      BY <1>2, FS_Singleton
    <3> QED
      BY <1>1, <3>1
  <2>2. ASSUME NEW k \in 1 .. C, k - 1 \in S PROVE k \in S
    <3>1. w[k] = Wider(w[k - 1]) /\ k - 1 \in 0 .. C /\ k \in 0 .. C
      BY <1>1, <1>2
    <3>2. CASE Wider(w[k - 1]) = w[k - 1]
      BY <3>1, <3>2
    <3>3. CASE Wider(w[k - 1]) # w[k - 1]
      <4>1. w[k - 1] \subseteq w[k] /\ w[k - 1] # w[k]
        BY <3>1, <3>3 DEF Wider
      <4>2. Cardinality(w[k - 1]) < Cardinality(w[k])
        BY <1>4, <3>1, <4>1, FS_Subset
      <4>3. Cardinality(w[k - 1]) >= (k - 1) + 1
        BY <2>2, <3>3
      <4> QED
        BY <1>1, <1>4, <3>1, <4>2, <4>3
    <3> QED
      BY <3>2, <3>3
  <2> HIDE DEF S
  <2>3. 0 .. C \subseteq S
    BY <1>1, <2>1, <2>2, Induction
  <2>4. C - 1 \in 0 .. C
    BY <1>1, <1>3
  <2>5. CASE Wider(w[C - 1]) = w[C - 1]
    BY <1>4, <1>5, <2>4, <2>5
  <2>6. CASE Cardinality(w[C - 1]) >= (C - 1) + 1
    <3>1. Cardinality(w[C - 1]) = C
      BY <1>1, <1>4, <2>4, <2>6
    <3>2. w[C - 1] = Nodes
      BY <1>4, <2>4, <3>1, NodesAssumption, FS_Subset DEF C
    <3> QED
      BY <3>2 DEF Closed
  <2> QED
    BY <2>3, <2>4, <2>5, <2>6 DEF S
<1>7. ASSUME NEW T \in SUBSET Nodes, n \in T, Closed(edges, T) PROVE w[C - 1] \subseteq T
  <2> DEFINE S == {k \in 0 .. C : w[k] \subseteq T}
  <2>1. 0 \in S
    BY <1>1, <1>2, <1>7
  <2>2. ASSUME NEW k \in 1 .. C, k - 1 \in S PROVE k \in S
    <3>1. w[k] = Wider(w[k - 1]) /\ w[k - 1] \subseteq T
      BY <1>1, <1>2, <2>2
    <3>2. ASSUME NEW m \in w[k - 1] PROVE Neighbors(m) \subseteq T
      BY <1>7, <3>1 DEF Neighbors, Closed
    <3>3. w[k] \subseteq T
      BY <3>1, <3>2 DEF Wider
    <3> QED
      BY <1>1, <3>3
  <2> HIDE DEF S
  <2>3. 0 .. C \subseteq S
    BY <1>1, <2>1, <2>2, Induction
  <2>4. C - 1 \in 0 .. C
    BY <1>1, <1>3
  <2> QED
    BY <2>3, <2>4 DEF S
<1>8. w[C - 1] \in SUBSET Nodes
  BY <1>1, <1>3, <1>4
<1>9. n \in w[C - 1]
  <2> DEFINE S == {k \in 0 .. C : n \in w[k]}
  <2>1. 0 \in S
    BY <1>1, <1>2
  <2>2. ASSUME NEW k \in 1 .. C, k - 1 \in S PROVE k \in S
    BY <1>1, <1>2, <2>2 DEF Wider
  <2> HIDE DEF S
  <2>3. 0 .. C \subseteq S
    BY <1>1, <2>1, <2>2, Induction
  <2> QED
    BY <1>1, <1>3, <2>3 DEF S
<1> QED
  BY <1>2, <1>6, <1>7, <1>8, <1>9 DEF Leads, C

-----------------------------------------------------------------------------
(* The inductive invariant of the construction                             *)

Mutual(E, x, y) == Leads(E, x, y) /\ Leads(E, y, x)

\* What the first pass has pushed is on its stack or finished; a node of the
\* stack was found on the way from those below it.
FirstPassInv ==
    phase = "finish" =>
        /\ assigned = {} /\ component = {} /\ largest = {}
        /\ visited = Range(stack) \cup Range(finishOrder)
        /\ \A i, j \in DOMAIN stack : i <= j => Leads(edges, stack[i], stack[j])

\* A frame of the stack has passed over nodes that were visited only.
AheadInv ==
    phase = "finish" =>
        \A w \in Range(stack) : /\ ahead[w] \subseteq Neighbors(w)
                               /\ Neighbors(w) \ ahead[w] \subseteq visited

\* A neighbour w of the node that was finished as the i-th was finished
\* before it; or it was an ancestor of everything finished in between; or it
\* still is on the stack; or the second pass has taken it.
FinishOrderInv ==
    \A i \in DOMAIN finishOrder : \A w \in Neighbors(finishOrder[i]) :
        \/ \E j \in 1 .. i - 1 : finishOrder[j] = w
        \/ \E q \in i .. Len(finishOrder) :
              /\ finishOrder[q] = w
              /\ \A j \in i .. q : Leads(edges, w, finishOrder[j])
        \/ /\ phase = "finish"
           /\ w \in Range(stack)
           /\ \A j \in i .. Len(finishOrder) : Leads(edges, w, finishOrder[j])
        \/ w \in assigned

\* No node is pushed twice by the first pass.
OnceInv ==
    /\ IsInjective(finishOrder)
    /\ phase = "finish" => /\ IsInjective(stack)
                           /\ Range(stack) \cap Range(finishOrder) = {}

\* The component in progress, and the nodes of the finished ones.
InProgress == IF stack = <<>> THEN {} ELSE component \cup Range(stack)
Complete == assigned \ InProgress

SecondPassInv ==
    phase # "finish" =>
        /\ Nodes = assigned \cup Range(finishOrder)
        /\ InProgress \subseteq assigned
        /\ \A n \in Complete : ReverseNeighbors(n) \subseteq Complete
        /\ \A x, y \in InProgress : Leads(edges, x, y)
        /\ stack # <<>> => \A x \in component : ReverseNeighbors(x) \subseteq assigned
        /\ \A r \in InProgress : \A x \in Nodes \ Complete :
              Leads(edges, x, r) => Leads(edges, r, x)

\* The components, in terms of paths.
Component(E, n) == {m \in Nodes : Mutual(E, n, m)}

LargestInv ==
    phase # "finish" =>
        /\ largest \subseteq Complete
        /\ \A n \in Complete :
              IF n \in largest THEN Component(edges, n) = largest
              ELSE Cardinality(Component(edges, n)) <= Cardinality(largest)

GraphInv ==
    /\ GraphTypeOK
    /\ FirstPassInv
    /\ AheadInv
    /\ OnceInv
    /\ FinishOrderInv
    /\ SecondPassInv
    /\ LargestInv
    /\ phase = "built" => stack = <<>> /\ finishOrder = <<>>

-----------------------------------------------------------------------------
(* Sequences                                                               *)

LEMMA FrontAndLast ==
    ASSUME NEW S, NEW s \in Seq(S), s # <<>>
    PROVE  /\ Len(s) \in Nat \ {0} /\ DOMAIN s = 1 .. Len(s)
           /\ Last(s) \in S /\ Last(s) = s[Len(s)]
           /\ Front(s) \in Seq(S) /\ Len(Front(s)) = Len(s) - 1
           /\ DOMAIN Front(s) = 1 .. Len(s) - 1
           /\ \A i \in 1 .. Len(s) - 1 : Front(s)[i] = s[i]
           /\ Range(s) = Range(Front(s)) \cup {Last(s)}
<1> DEFINE n == Len(s)
<1>1. n \in Nat \ {0} /\ DOMAIN s = 1 .. n /\ \A i \in 1 .. n : s[i] \in S
  BY EmptySeq, LenProperties
<1>2. Last(s) \in S /\ Last(s) = s[n]
  BY <1>1 DEF Last
<1>3. /\ Front(s) \in Seq(S)
      /\ Len(Front(s)) = n - 1
      /\ \A i \in 1 .. n - 1 : Front(s)[i] = s[i]
  <2>1. 1 \in Int /\ n - 1 \in Int /\ \A i \in 1 .. n - 1 : s[i] \in S
    BY <1>1
  <2> HIDE DEF n
  <2>2. /\ SubSeq(s, 1, n - 1) \in Seq(S)
        /\ Len(SubSeq(s, 1, n - 1)) = IF 1 <= n - 1 THEN n - 1 - 1 + 1 ELSE 0
        /\ \A i \in 1 .. n - 1 - 1 + 1 : SubSeq(s, 1, n - 1)[i] = s[1 + i - 1]
    BY <2>1, SubSeqProperties
  <2>3. Front(s) = SubSeq(s, 1, n - 1)
    BY DEF Front, n
  <2> QED
    BY <1>1, <2>2, <2>3
<1>4. DOMAIN Front(s) = 1 .. n - 1
  BY <1>3, LenProperties
<1>5. Range(s) = Range(Front(s)) \cup {Last(s)}
  <2> HIDE DEF n
  <2>1. Range(s) = {s[i] : i \in 1 .. n} /\ Range(Front(s)) = {Front(s)[i] : i \in 1 .. n - 1}
    BY <1>1, <1>4 DEF Range
  <2>2. ASSUME NEW i \in 1 .. n PROVE s[i] \in Range(Front(s)) \cup {Last(s)}
    <3>1. i = n \/ i \in 1 .. n - 1
      BY <1>1
    <3> QED
      BY <1>2, <1>3, <2>1, <3>1
  <2>3. ASSUME NEW i \in 1 .. n - 1 PROVE Front(s)[i] \in Range(s)
    BY <1>1, <1>3, <2>1
  <2>4. Last(s) \in Range(s)
    BY <1>1, <1>2, <2>1
  <2> QED
    BY <2>1, <2>2, <2>3, <2>4
<1> QED
  BY <1>1, <1>2, <1>3, <1>4, <1>5

LEMMA Appended ==
    ASSUME NEW S, NEW s \in Seq(S), NEW x \in S
    PROVE  /\ Len(s) \in Nat /\ DOMAIN s = 1 .. Len(s)
           /\ Append(s, x) \in Seq(S) /\ Append(s, x) # <<>>
           /\ Len(Append(s, x)) = Len(s) + 1
           /\ DOMAIN Append(s, x) = 1 .. Len(s) + 1
           /\ \A i \in 1 .. Len(s) : Append(s, x)[i] = s[i]
           /\ Append(s, x)[Len(s) + 1] = x
           /\ Range(Append(s, x)) = Range(s) \cup {x}
<1> DEFINE n == Len(s)
           t == Append(s, x)
<1>1. n \in Nat /\ DOMAIN s = 1 .. n
  BY LenProperties
<1>2. /\ t \in Seq(S) /\ t # <<>> /\ Len(t) = n + 1
      /\ \A i \in 1 .. n : t[i] = s[i]
      /\ t[n + 1] = x
  BY AppendProperties
<1>3. DOMAIN t = 1 .. n + 1
  BY <1>2, LenProperties
<1>4. Range(t) = Range(s) \cup {x}
  <2> HIDE DEF n, t
  <2>1. Range(t) = {t[i] : i \in 1 .. n + 1} /\ Range(s) = {s[i] : i \in 1 .. n}
    BY <1>1, <1>3 DEF Range
  <2>2. ASSUME NEW i \in 1 .. n + 1 PROVE t[i] \in Range(s) \cup {x}
    <3>1. i = n + 1 \/ i \in 1 .. n
      BY <1>1
    <3> QED
      BY <1>2, <2>1, <3>1
  <2>3. \A i \in 1 .. n : s[i] \in Range(t)
    BY <1>1, <1>2, <2>1
  <2>4. x \in Range(t)
    BY <1>1, <1>2, <2>1
  <2> QED
    BY <2>1, <2>2, <2>3, <2>4
<1> QED
  BY <1>1, <1>2, <1>3, <1>4

\* An order of the elements of a finite set.
LEMMA OrderOfSet ==
    ASSUME NEW S, IsFiniteSet(S), NEW order \in SetToSeqs(S)
    PROVE  order \in Seq(S) /\ Range(order) = S /\ Len(order) = Cardinality(S)
<1> DEFINE n == Cardinality(S)
<1>1. n \in Nat
  BY FS_CardinalityType
<1>2. order \in [1 .. n -> S] /\ \A i, j \in 1 .. n : i # j => order[i] # order[j]
  BY DEF SetToSeqs
<1>3. order \in Seq(S)
  BY <1>1, <1>2, SeqDef
<1>4. order \in Injection(1 .. n, S)
  BY <1>2 DEF Injection, IsInjective
<1>5. IsFiniteSet(1 .. n) /\ Cardinality(1 .. n) = n
  BY <1>1, FS_Interval
<1>6. order \in Surjection(1 .. n, S)
  BY <1>4, <1>5, FS_Injection
<1>7. Range(order) = S
  BY <1>2, <1>6 DEF Surjection, Range
<1>8. Len(order) = n
  BY <1>1, <1>2, <1>3, LenProperties
<1> QED
  BY <1>3, <1>7, <1>8

-----------------------------------------------------------------------------
(* Types                                                                   *)

LEMMA FoundIsFinite == \A found \in SUBSET Nodes : IsFiniteSet(found)
  BY NodesAssumption, FS_Subset

LEMMA GraphTypesKept ==
    ASSUME GraphTypeOK, GraphNext
    PROVE  GraphTypeOK'
<1> USE DEF GraphTypeOK
<1> \A n \in Nodes : Neighbors(n) \in SUBSET Nodes
  BY DEF Neighbors
<1>1. ASSUME NEW n \in Nodes, StartTree(n) PROVE GraphTypeOK'
  BY <1>1 DEF StartTree
<1>2. ASSUME NEW m \in Nodes, Descend(m) PROVE GraphTypeOK'
  BY <1>2, AppendProperties DEF Descend
<1>8. ASSUME NEW m \in Nodes, PassOver(m) PROVE GraphTypeOK'
  <2>1. /\ UNCHANGED <<edges, phase, visited, stack, finishOrder, assigned, component, largest>>
        /\ ahead' = [ahead EXCEPT ![Last(stack)] = @ \ {m}]
    BY <1>8 DEF PassOver
  <2>2. ahead' \in [Nodes -> SUBSET Nodes]
    BY <2>1
  <2> QED
    BY <2>1, <2>2
<1>3. CASE Retreat
  <2>1. Last(stack) \in Nodes /\ Front(stack) \in Seq(Nodes)
    BY <1>3, FrontAndLast DEF Retreat
  <2> QED
    BY <1>3, <2>1, AppendProperties DEF Retreat
<1>4. CASE FirstPassDone
  BY <1>4 DEF FirstPassDone
<1>5. CASE TakeLastFinished
  <2>1. Last(finishOrder) \in Nodes /\ Front(finishOrder) \in Seq(Nodes)
    BY <1>5, FrontAndLast DEF TakeLastFinished
  <2> QED
    BY <1>5, <2>1, EmptySeq DEF TakeLastFinished, Take
<1>6. CASE Collect
  <2> DEFINE found == ReverseNeighbors(Last(stack)) \ assigned
  <2>1. /\ stack # <<>>
        /\ component' = component \cup {Last(stack)}
        /\ assigned' = assigned \cup found
        /\ largest' = component' \/ largest' = largest
        /\ UNCHANGED <<edges, phase, visited, ahead, finishOrder>>
    BY <1>6 DEF Collect, CollectAlong, Collecting
  <2>2. PICK order \in SetToSeqs(found) : stack' = Front(stack) \o order
    BY <1>6 DEF Collect, CollectAlong
  <2>3. found \subseteq Nodes
    BY DEF ReverseNeighbors
  <2> HIDE DEF found
  <2>4. order \in Seq(found)
    BY <2>3, FoundIsFinite, OrderOfSet
  <2>5. order \in Seq(Nodes)
    BY <2>3, <2>4, SeqMonotonic
  <2>6. Last(stack) \in Nodes /\ Front(stack) \in Seq(Nodes)
    BY <2>1, FrontAndLast
  <2>7. stack' \in Seq(Nodes)
    BY <2>2, <2>5, <2>6, ConcatProperties
  <2> QED
    BY <2>1, <2>3, <2>6, <2>7
<1>7. CASE Built
  BY <1>7 DEF Built
<1> QED
  BY <1>1, <1>2, <1>3, <1>4, <1>5, <1>6, <1>7, <1>8 DEF GraphNext

-----------------------------------------------------------------------------
(* The first pass                                                          *)

LEMMA StartTreeKeepsInv ==
    ASSUME GraphInv, NEW n \in Nodes, StartTree(n)
    PROVE  FirstPassInv' /\ AheadInv' /\ FinishOrderInv'
<1>1. /\ phase = "finish" /\ stack = <<>>
      /\ ahead' = [ahead EXCEPT ![n] = Neighbors(n)]
      /\ visited' = visited \cup {n} /\ stack' = <<n>>
      /\ UNCHANGED <<edges, phase, finishOrder, assigned, component, largest>>
  BY DEF StartTree
<1>2. Len(<<n>>) = 1 /\ DOMAIN <<n>> = 1 .. 1 /\ <<n>>[1] = n /\ Range(<<n>>) = {n}
  BY DEF Range
<1>3. Range(stack) = {}
  BY <1>1 DEF Range
<1>4. FirstPassInv'
  <2>1. \A i, j \in DOMAIN stack' : Leads(edges, stack'[i], stack'[j])
    BY <1>1, <1>2, LeadsToItself
  <2> QED
    BY <1>1, <1>2, <1>3, <2>1 DEF GraphInv, FirstPassInv
<1>5. FinishOrderInv'
  <2>1. \A w : w \notin Range(stack)
    BY <1>3
  <2> QED
    BY <1>1, <2>1 DEF GraphInv, FinishOrderInv, Neighbors
<1>6. AheadInv'
  <2>1. ahead'[n] = Neighbors(n)
    BY <1>1 DEF GraphInv, GraphTypeOK
  <2>2. Neighbors(n)' = Neighbors(n)
    BY <1>1 DEF Neighbors
  <2> QED
    BY <1>1, <1>2, <2>1, <2>2 DEF AheadInv
<1> QED
  BY <1>4, <1>5, <1>6

\* The frame on top has passed over one more neighbour, and that was visited.
LEMMA AheadPassed ==
    ASSUME GraphInv, NEW m \in Nodes, TurnsTo(m), m \in visited', visited \subseteq visited',
           edges' = edges, phase' = phase,
           NEW w \in Range(stack), NEW a, ahead'[w] = a,
           a = IF w = Last(stack) THEN ahead[w] \ {m} ELSE ahead[w]
    PROVE  /\ ahead'[w] \subseteq Neighbors(w)'
           /\ Neighbors(w)' \ ahead'[w] \subseteq visited'
<1>1. ahead[w] \subseteq Neighbors(w) /\ Neighbors(w) \ ahead[w] \subseteq visited
  BY DEF GraphInv, AheadInv, TurnsTo
<1>2. Neighbors(w)' = Neighbors(w)
  BY DEF Neighbors
<1> QED
  BY <1>1, <1>2

LEMMA PassOverKeepsInv ==
    ASSUME GraphInv, NEW m \in Nodes, PassOver(m)
    PROVE  FirstPassInv' /\ AheadInv' /\ FinishOrderInv' /\ OnceInv'
<1>1. /\ phase = "finish" /\ stack # <<>> /\ TurnsTo(m) /\ m \in visited
      /\ ahead' = [ahead EXCEPT ![Last(stack)] = @ \ {m}]
      /\ UNCHANGED <<edges, phase, visited, stack, finishOrder, assigned, component, largest>>
  BY DEF PassOver, TurnsTo
<1>2. FirstPassInv' /\ OnceInv'
  BY <1>1 DEF GraphInv, FirstPassInv, OnceInv
<1>3. FinishOrderInv'
  BY <1>1 DEF GraphInv, FinishOrderInv, Neighbors
<1>4. ASSUME NEW w \in Range(stack)
      PROVE  /\ ahead'[w] \subseteq Neighbors(w)'
             /\ Neighbors(w)' \ ahead'[w] \subseteq visited'
  <2>1. stack \in Seq(Nodes) /\ ahead \in [Nodes -> SUBSET Nodes]
    BY DEF GraphInv, GraphTypeOK
  <2>2. Last(stack) \in Nodes /\ w \in Nodes
    BY <1>1, <2>1, FrontAndLast, ElementOfSeq DEF Range
  <2>3. ahead'[w] = IF w = Last(stack) THEN ahead[w] \ {m} ELSE ahead[w]
    BY <1>1, <2>1, <2>2
  <2> QED
    BY <1>1, <2>3, AheadPassed
<1>5. AheadInv'
  BY <1>1, <1>4 DEF AheadInv
<1> QED
  BY <1>2, <1>3, <1>5

LEMMA DescendKeepsInv ==
    ASSUME GraphInv, NEW m \in Nodes, Descend(m)
    PROVE  FirstPassInv' /\ AheadInv' /\ FinishOrderInv'
<1>1. /\ phase = "finish" /\ stack # <<>> /\ TurnsTo(m) /\ m \notin visited
      /\ ahead' = [ahead EXCEPT ![Last(stack)] = @ \ {m}, ![m] = Neighbors(m)]
      /\ visited' = visited \cup {m} /\ stack' = Append(stack, m)
      /\ UNCHANGED <<edges, phase, finishOrder, assigned, component, largest>>
  BY DEF Descend, TurnsTo
<1>2. stack \in Seq(Nodes) /\ ahead \in [Nodes -> SUBSET Nodes]
  BY DEF GraphInv, GraphTypeOK
<1> DEFINE n == Len(stack)
<1>3. /\ n \in Nat \ {0} /\ DOMAIN stack = 1 .. n
      /\ Last(stack) = stack[n] /\ Last(stack) \in Nodes /\ Last(stack) \in Range(stack)
  BY <1>1, <1>2, FrontAndLast
<1>7. <<Last(stack), m>> \in edges
  BY <1>1, <1>3 DEF GraphInv, AheadInv, TurnsTo, Neighbors
<1>4. /\ DOMAIN stack' = 1 .. n + 1
      /\ \A i \in 1 .. n : stack'[i] = stack[i] /\ stack'[n + 1] = m
      /\ Range(stack') = Range(stack) \cup {m}
  BY <1>1, <1>2, Appended
<1>5. FirstPassInv'
  <2>1. ASSUME NEW i \in 1 .. n + 1, NEW j \in 1 .. n + 1, i <= j
        PROVE  Leads(edges, stack'[i], stack'[j])
    <3>1. CASE i = n + 1
      <4>1. j = n + 1
        BY <1>3, <2>1, <3>1
      <4> QED
        BY <3>1, <4>1, LeadsToItself
    <3>2. CASE i \in 1 .. n /\ j \in 1 .. n
      BY <1>1, <1>3, <1>4, <2>1, <3>2 DEF GraphInv, FirstPassInv
    <3>3. CASE i \in 1 .. n /\ j = n + 1
      <4>1. Leads(edges, stack[i], Last(stack))
        BY <1>1, <1>3, <3>3 DEF GraphInv, FirstPassInv
      <4>2. Leads(edges, Last(stack), m)
        BY <1>3, <1>7, EdgeLeads
      <4>3. stack'[i] = stack[i] /\ stack'[j] = m
        BY <1>4, <3>3
      <4> QED
        BY <4>1, <4>2, <4>3, LeadsOn
    <3>4. i = n + 1 \/ (i \in 1 .. n /\ j \in 1 .. n) \/ (i \in 1 .. n /\ j = n + 1)
      BY <1>3
    <3> QED
      BY <3>1, <3>2, <3>3, <3>4
  <2> QED
    BY <1>1, <1>4, <2>1 DEF GraphInv, FirstPassInv
<1>6. FinishOrderInv'
  <2>1. Range(stack) \subseteq Range(stack')
    BY <1>4
  <2> QED
    BY <1>1, <2>1 DEF GraphInv, FinishOrderInv, Neighbors
<1>8. ASSUME NEW w \in Range(stack')
      PROVE  /\ ahead'[w] \subseteq Neighbors(w)'
             /\ Neighbors(w)' \ ahead'[w] \subseteq visited'
  <2>1. CASE w = m
    <3>1. ahead'[m] = Neighbors(m) /\ Neighbors(m)' = Neighbors(m)
      BY <1>1, <1>2 DEF Neighbors
    <3> QED
      BY <2>1, <3>1
  <2>2. CASE w # m
    <3>1. w \in Range(stack) /\ w \in Nodes
      BY <1>2, <1>4, <2>2, ElementOfSeq DEF Range
    <3>2. ahead'[w] = IF w = Last(stack) THEN ahead[w] \ {m} ELSE ahead[w]
      BY <1>1, <1>2, <1>3, <2>2, <3>1
    <3> QED
      BY <1>1, <3>1, <3>2, AheadPassed
  <2> QED
    BY <2>1, <2>2
<1>9. AheadInv'
  BY <1>8 DEF AheadInv
<1> QED
  BY <1>5, <1>6, <1>9

LEMMA RetreatKeepsInv ==
    ASSUME GraphInv, Retreat
    PROVE  FirstPassInv' /\ AheadInv' /\ FinishOrderInv'
<1> DEFINE n == Last(stack)
           l == Len(finishOrder)
           k == Len(stack)
<1>1. /\ phase = "finish" /\ stack # <<>> /\ ahead[n] = {}
      /\ finishOrder' = Append(finishOrder, n) /\ stack' = Front(stack)
      /\ UNCHANGED <<edges, phase, visited, ahead, assigned, component, largest>>
  BY DEF Retreat
<1>2. stack \in Seq(Nodes) /\ finishOrder \in Seq(Nodes) /\ phase' = "finish" /\ edges' = edges
  BY <1>1 DEF GraphInv, GraphTypeOK
<1>3. /\ k \in Nat \ {0} /\ DOMAIN stack = 1 .. k /\ n = stack[k] /\ n \in Nodes
      /\ DOMAIN stack' = 1 .. k - 1 /\ \A i \in 1 .. k - 1 : stack'[i] = stack[i]
      /\ Range(stack) = Range(stack') \cup {n}
  BY <1>1, <1>2, FrontAndLast
<1>4. /\ l \in Nat /\ DOMAIN finishOrder = 1 .. l
      /\ Len(finishOrder') = l + 1 /\ DOMAIN finishOrder' = 1 .. l + 1
      /\ finishOrder'[l + 1] = n /\ \A i \in 1 .. l : finishOrder'[i] = finishOrder[i]
      /\ Range(finishOrder') = Range(finishOrder) \cup {n}
  BY <1>1, <1>2, <1>3, Appended
<1> HIDE DEF n, l, k
<1>5. \A w \in Range(stack) : Leads(edges, w, n)
  <2>1. ASSUME NEW i \in 1 .. k PROVE Leads(edges, stack[i], n)
    <3>1. i <= k /\ k \in DOMAIN stack /\ i \in DOMAIN stack
      BY <1>3
    <3> QED
      BY <1>1, <1>3, <3>1 DEF GraphInv, FirstPassInv
  <2> QED
    BY <1>3, <2>1 DEF Range
<1>6. FirstPassInv'
  <2>1. \A i, j \in 1 .. k - 1 : i <= j => Leads(edges, stack'[i], stack'[j])
    BY <1>1, <1>3 DEF GraphInv, FirstPassInv
  <2>2. Range(stack) \cup Range(finishOrder) = Range(stack') \cup Range(finishOrder')
    BY <1>3, <1>4
  <2> QED
    BY <1>1, <1>3, <2>1, <2>2 DEF GraphInv, FirstPassInv
<1>7. FinishOrderInv'
  <2> DEFINE Ok(i, w) ==
        \/ \E j \in 1 .. i - 1 : finishOrder'[j] = w
        \/ \E q \in i .. l + 1 :
              /\ finishOrder'[q] = w
              /\ \A j \in i .. q : Leads(edges, w, finishOrder'[j])
        \/ /\ w \in Range(stack')
           /\ \A j \in i .. l + 1 : Leads(edges, w, finishOrder'[j])
        \/ w \in assigned
  <2>1. ASSUME NEW w \in Neighbors(n) PROVE Ok(l + 1, w)
    <3>1. w \in visited
      BY <1>1, <1>3, <2>1 DEF GraphInv, AheadInv
    <3>2. CASE w \in Range(finishOrder)
      <4>1. PICK j \in 1 .. l : finishOrder[j] = w
        BY <1>4, <3>2 DEF Range
      <4>2. j \in 1 .. (l + 1) - 1 /\ finishOrder'[j] = w
        BY <1>4, <4>1
      <4> QED
        BY <4>2
    <3>3. CASE w \in Range(stack)
      <4>1. \A j \in l + 1 .. l + 1 : Leads(edges, w, finishOrder'[j])
        BY <1>4, <1>5, <3>3
      <4>2. CASE w = n
        BY <1>4, <4>1, <4>2
      <4>3. CASE w # n
        BY <1>3, <3>3, <4>1, <4>3
      <4> QED
        BY <4>2, <4>3
    <3> QED
      BY <1>1, <3>1, <3>2, <3>3 DEF GraphInv, FirstPassInv
  <2>2. ASSUME NEW i \in 1 .. l, NEW w \in Neighbors(finishOrder[i]) PROVE Ok(i, w)
    <3>1. \/ \E j \in 1 .. i - 1 : finishOrder[j] = w
          \/ \E q \in i .. l :
                /\ finishOrder[q] = w
                /\ \A j \in i .. q : Leads(edges, w, finishOrder[j])
          \/ /\ w \in Range(stack)
             /\ \A j \in i .. l : Leads(edges, w, finishOrder[j])
          \/ w \in assigned
      BY <1>4 DEF GraphInv, FinishOrderInv, l
    <3>2. CASE \E j \in 1 .. i - 1 : finishOrder[j] = w
      BY <1>4, <3>2
    <3>3. ASSUME NEW q \in i .. l, finishOrder[q] = w,
                 \A j \in i .. q : Leads(edges, w, finishOrder[j])
          PROVE  Ok(i, w)
      <4>1. q \in i .. l + 1 /\ finishOrder'[q] = w
        BY <1>4, <3>3
      <4>2. \A j \in i .. q : Leads(edges, w, finishOrder'[j])
        BY <1>4, <3>3
      <4> QED
        BY <4>1, <4>2
    <3>4. CASE w \in Range(stack) /\ \A j \in i .. l : Leads(edges, w, finishOrder[j])
      <4>1. \A j \in i .. l + 1 : Leads(edges, w, finishOrder'[j])
        <5>1. ASSUME NEW j \in i .. l + 1 PROVE Leads(edges, w, finishOrder'[j])
          <6>1. CASE j = l + 1
            BY <1>4, <1>5, <3>4, <6>1
          <6>2. CASE j # l + 1
            <7>1. j \in i .. l /\ j \in 1 .. l
              BY <1>4, <6>2
            <7> QED
              BY <1>4, <3>4, <7>1
          <6> QED
            BY <6>1, <6>2
        <5> QED
          BY <5>1
      <4>2. CASE w = n
        <5>1. l + 1 \in i .. l + 1 /\ finishOrder'[l + 1] = w
          BY <1>4, <4>2
        <5> QED
          BY <4>1, <5>1
      <4>3. CASE w # n
        BY <1>3, <3>4, <4>1, <4>3
      <4> QED
        BY <4>2, <4>3
    <3>5. CASE w \in assigned
      BY <3>5
    <3> QED
      BY <3>1, <3>2, <3>3, <3>4, <3>5
  <2>3. ASSUME NEW i \in DOMAIN finishOrder', NEW w \in Neighbors(finishOrder'[i])
        PROVE  Ok(i, w)
    <3>1. i = l + 1 \/ i \in 1 .. l
      BY <1>4
    <3>2. CASE i = l + 1
      BY <1>4, <2>1, <3>2
    <3>3. CASE i \in 1 .. l
      BY <1>4, <2>2, <3>3
    <3> QED
      BY <3>1, <3>2, <3>3
  <2>4. \A x : Neighbors(x)' = Neighbors(x)
    BY <1>1 DEF Neighbors
  <2>5. Len(finishOrder') = l + 1 /\ phase' = "finish" /\ assigned' = assigned /\ edges' = edges
    BY <1>1, <1>2, <1>4
  <2> QED
    BY <2>3, <2>4, <2>5 DEF FinishOrderInv
<1>8. AheadInv'
  BY <1>1, <1>3 DEF GraphInv, AheadInv, Neighbors
<1> QED
  BY <1>6, <1>7, <1>8

LEMMA FirstPassKeepsOnceInv ==
    ASSUME GraphInv,
           (\E n \in Nodes : StartTree(n) \/ Descend(n)) \/ Retreat
    PROVE  OnceInv'
<1>1. stack \in Seq(Nodes) /\ finishOrder \in Seq(Nodes)
  BY DEF GraphInv, GraphTypeOK
<1>2. ASSUME NEW n \in Nodes, StartTree(n) PROVE OnceInv'
  <2>1. /\ phase = "finish" /\ n \notin visited
        /\ stack' = <<n>> /\ finishOrder' = finishOrder /\ phase' = "finish"
    BY <1>2 DEF StartTree
  <2>2. Range(<<n>>) = {n} /\ IsInjective(<<n>>)
    <3>1. DOMAIN <<n>> = 1 .. 1 /\ <<n>>[1] = n
      OBVIOUS
    <3> QED
      BY <3>1 DEF Range, IsInjective
  <2>3. n \notin Range(finishOrder)
    BY <2>1 DEF GraphInv, FirstPassInv
  <2> QED
    BY <2>1, <2>2, <2>3 DEF GraphInv, OnceInv
<1>3. ASSUME NEW n \in Nodes, Descend(n) PROVE OnceInv'
  <2>1. /\ phase = "finish" /\ n \notin visited
        /\ stack' = Append(stack, n) /\ finishOrder' = finishOrder /\ phase' = "finish"
    BY <1>3 DEF Descend, TurnsTo
  <2>2. n \notin Range(stack) /\ n \notin Range(finishOrder)
    BY <2>1 DEF GraphInv, FirstPassInv
  <2>3. IsInjective(stack) /\ Range(stack) \cap Range(finishOrder) = {}
    BY <2>1 DEF GraphInv, OnceInv
  <2>4. IsInjective(stack')
    <3>1. ASSUME NEW i \in 1 .. Len(stack) PROVE stack[i] # n
      BY <1>1, <2>2, LenProperties DEF Range
    <3>2. \A i, j \in 1 .. Len(stack) : stack[i] = stack[j] => i = j
      BY <1>1, <2>3, LenProperties DEF IsInjective
    <3> QED
      BY <1>1, <2>1, <3>1, <3>2, Appended DEF IsInjective
  <2>5. Range(stack') = Range(stack) \cup {n}
    BY <1>1, <2>1, Appended
  <2> QED
    BY <2>1, <2>2, <2>3, <2>4, <2>5 DEF GraphInv, OnceInv
<1>4. CASE Retreat
  <2> DEFINE n == Last(stack)
             k == Len(stack)
             l == Len(finishOrder)
  <2>1. /\ phase = "finish" /\ stack # <<>>
        /\ stack' = Front(stack) /\ finishOrder' = Append(finishOrder, n) /\ phase' = "finish"
    BY <1>4 DEF Retreat
  <2>2. /\ IsInjective(stack) /\ Range(stack) \cap Range(finishOrder) = {}
        /\ IsInjective(finishOrder)
    BY <2>1 DEF GraphInv, OnceInv
  <2>3. /\ k \in Nat \ {0} /\ DOMAIN stack = 1 .. k /\ n = stack[k] /\ n \in Nodes
        /\ DOMAIN stack' = 1 .. k - 1 /\ \A i \in 1 .. k - 1 : stack'[i] = stack[i]
        /\ Range(stack) = Range(stack') \cup {n}
    BY <1>1, <2>1, FrontAndLast
  <2>4. /\ l \in Nat /\ DOMAIN finishOrder = 1 .. l
        /\ DOMAIN finishOrder' = 1 .. l + 1
        /\ finishOrder'[l + 1] = n /\ \A i \in 1 .. l : finishOrder'[i] = finishOrder[i]
        /\ Range(finishOrder') = Range(finishOrder) \cup {n}
    BY <1>1, <2>1, <2>3, Appended
  <2> HIDE DEF n, k, l
  <2>5. n \notin Range(finishOrder)
    BY <2>2, <2>3
  <2>6. n \notin Range(stack')
    <3>1. \A i \in 1 .. k - 1 : stack[i] # stack[k]
      <4>1. \A i \in 1 .. k - 1 : i \in 1 .. k /\ k \in 1 .. k /\ i # k
        BY <2>3
      <4> QED
        BY <2>2, <2>3, <4>1 DEF IsInjective
    <3> QED
      BY <2>3, <3>1 DEF Range
  <2>7. IsInjective(stack')
    BY <2>2, <2>3 DEF IsInjective
  <2>8. IsInjective(finishOrder')
    <3>1. \A i \in 1 .. l : finishOrder[i] # n
      BY <2>4, <2>5 DEF Range
    <3>2. \A i, j \in 1 .. l : finishOrder[i] = finishOrder[j] => i = j
      BY <2>2, <2>4 DEF IsInjective
    <3> QED
      BY <2>4, <3>1, <3>2 DEF IsInjective
  <2> QED
    BY <2>1, <2>2, <2>3, <2>4, <2>6, <2>7, <2>8 DEF OnceInv
<1> QED
  BY <1>2, <1>3, <1>4

-----------------------------------------------------------------------------
(* The second pass                                                         *)

\* What has no edge into it cannot be reached from outside.
LEMMA NoWayIn ==
    ASSUME NEW E, NEW B \in SUBSET Nodes,
           \A y \in Nodes, z \in B : <<y, z>> \in E => y \in B,
           NEW y \in Nodes, NEW z \in B, Leads(E, y, z)
    PROVE  y \in B
<1> DEFINE S == Nodes \ B
<1>1. Closed(E, S)
  BY DEF Closed
<1>2. S \in SUBSET Nodes /\ z \notin S
  OBVIOUS
<1> HIDE DEF S
<1>3. y \notin S
  BY <1>1, <1>2 DEF Leads
<1> QED
  BY <1>3 DEF S

\* The node that was finished last, of those that are left, is in a component
\* that no other one of those leads into.
LEMMA LastFinished ==
    ASSUME GraphInv, finishOrder # <<>>, stack = <<>>, phase = "collect",
           Last(finishOrder) \notin assigned,
           NEW x \in Nodes \ assigned, Leads(edges, x, Last(finishOrder))
    PROVE  Leads(edges, Last(finishOrder), x)
<1> DEFINE n == Last(finishOrder)
           l == Len(finishOrder)
           Bad == {i \in 1 .. l : /\ finishOrder[i] \notin assigned
                                  /\ Leads(edges, finishOrder[i], n)
                                  /\ ~ Leads(edges, n, finishOrder[i])}
<1>1. finishOrder \in Seq(Nodes)
  BY DEF GraphInv, GraphTypeOK
<1>2. /\ l \in Nat \ {0} /\ DOMAIN finishOrder = 1 .. l /\ n = finishOrder[l] /\ n \in Nodes
      /\ \A i \in 1 .. l : finishOrder[i] \in Nodes
  BY <1>1, FrontAndLast, LenProperties
<1>3. assigned \in SUBSET Nodes /\ Nodes = assigned \cup Range(finishOrder)
      /\ \A y \in Nodes, z \in assigned : <<y, z>> \in edges => y \in assigned
  BY DEF GraphInv, GraphTypeOK, SecondPassInv, Complete, InProgress, ReverseNeighbors
<1>4. SUFFICES ASSUME ~ Leads(edges, n, x) PROVE FALSE
  OBVIOUS
<1>5. Bad # {}
  <2>1. PICK i \in 1 .. l : finishOrder[i] = x
    BY <1>2, <1>3 DEF Range
  <2>2. i \in Bad
    BY <1>4, <2>1
  <2> QED
    BY <2>2
<1>6. Bad \in SUBSET (0 .. l)
  BY <1>2
<1>7. PICK i \in Bad : \A j \in Bad : j <= i
  <2> HIDE DEF Bad, l
  <2> QED
    BY <1>2, <1>5, <1>6, GreatestBelow
<1> DEFINE T == {finishOrder[k] : k \in 1 .. i}
           p == finishOrder[i]
<1>8. i \in 1 .. l /\ p \in Nodes /\ p \in T /\ Leads(edges, p, n) /\ ~ Leads(edges, n, p)
      /\ p \notin assigned
  BY <1>2, <1>7
<1> HIDE DEF n, l, Bad
<1>9. i < l
  <2>1. i # l
    BY <1>2, <1>8, LeadsToItself
  <2> QED
    BY <1>2, <1>8, <2>1
<1>10. n \notin T
  <2>1. ASSUME NEW k \in 1 .. i PROVE finishOrder[k] # n
    <3>1. k \in 1 .. l /\ l \in 1 .. l /\ k # l
      BY <1>2, <1>8, <1>9
    <3> QED
      BY <1>2, <3>1 DEF GraphInv, OnceInv, IsInjective
  <2> QED
    BY <2>1
<1>11. PICK a, b \in Nodes : /\ a \in T /\ b \notin T /\ <<a, b>> \in edges
                             /\ Leads(edges, p, a) /\ Leads(edges, b, n)
  <2> HIDE DEF T, p
  <2> QED
    BY <1>2, <1>8, <1>10, ExitEdge
<1>12. PICK k \in 1 .. i : a = finishOrder[k]
  BY <1>11
<1>13. k \in 1 .. l /\ b \in Neighbors(finishOrder[k])
  BY <1>2, <1>8, <1>11, <1>12 DEF Neighbors
<1>14. b \notin assigned
  <2>1. Leads(edges, a, b)
    BY <1>11, EdgeLeads
  <2>2. Leads(edges, p, b)
    BY <1>11, <2>1, LeadsOn
  <2> QED
    BY <1>3, <1>8, <2>2, NoWayIn
<1>15. ~ \E j \in 1 .. k - 1 : finishOrder[j] = b
  <2>1. ASSUME NEW j \in 1 .. k - 1 PROVE finishOrder[j] \in T
    <3>1. j \in 1 .. i
      BY <1>8, <1>12
    <3> QED
      BY <3>1
  <2> QED
    BY <1>11, <2>1
<1>16. PICK q \in k .. l : /\ finishOrder[q] = b
                           /\ \A j \in k .. q : Leads(edges, b, finishOrder[j])
  BY <1>2, <1>13, <1>14, <1>15 DEF GraphInv, FinishOrderInv, l
<1>17. q \in 1 .. l /\ i < q
  <2>1. q \in 1 .. l
    BY <1>2, <1>13, <1>16
  <2>2. ~ (q \in 1 .. i)
    BY <1>11, <1>16
  <2> QED
    BY <1>2, <1>8, <2>1, <2>2
<1>18. q \notin Bad
  BY <1>2, <1>7, <1>8, <1>17
<1> USE DEF Bad
<1>19. Leads(edges, n, b)
  BY <1>11, <1>14, <1>16, <1>17, <1>18
<1>20. Leads(edges, b, p)
  <2>1. i \in k .. q
    BY <1>2, <1>8, <1>12, <1>17
  <2> QED
    BY <1>16, <2>1
<1> QED
  BY <1>8, <1>19, <1>20, LeadsOn

LEMMA FirstPassDoneKeepsInv ==
    ASSUME GraphInv, FirstPassDone
    PROVE  GraphInv'
<1>1. /\ phase = "finish" /\ stack = <<>> /\ visited = Nodes /\ phase' = "collect"
      /\ UNCHANGED <<edges, visited, stack, ahead, finishOrder, assigned, component, largest>>
  BY DEF FirstPassDone
<1>2. /\ assigned = {} /\ largest = {} /\ Range(stack) = {}
      /\ Nodes = Range(stack) \cup Range(finishOrder)
  BY <1>1 DEF GraphInv, FirstPassInv, Range
<1>3. InProgress' = {} /\ Complete' = {}
  BY <1>1, <1>2 DEF InProgress, Complete
<1>4. GraphTypeOK'
  BY <1>1 DEF GraphInv, GraphTypeOK
<1>5. FirstPassInv' /\ AheadInv' /\ OnceInv'
  BY <1>1 DEF GraphInv, FirstPassInv, AheadInv, OnceInv
<1>6. FinishOrderInv'
  BY <1>1, <1>2 DEF GraphInv, FinishOrderInv, Neighbors
<1>7. SecondPassInv'
  BY <1>1, <1>2, <1>3 DEF SecondPassInv
<1>8. LargestInv'
  BY <1>1, <1>2, <1>3 DEF LargestInv
<1> QED
  BY <1>1, <1>4, <1>5, <1>6, <1>7, <1>8 DEF GraphInv

LEMMA TakeKeepsInv ==
    ASSUME GraphInv, TakeLastFinished
    PROVE  GraphInv'
<1> DEFINE n == Last(finishOrder)
           l == Len(finishOrder)
<1>1. /\ phase = "collect" /\ stack = <<>> /\ finishOrder # <<>>
      /\ finishOrder' = Front(finishOrder)
      /\ component' = {} /\ assigned' = assigned \cup {n}
      /\ stack' = IF n \in assigned THEN <<>> ELSE <<n>>
      /\ UNCHANGED <<edges, phase, visited, largest>>
  BY DEF TakeLastFinished, Take
<1>2. finishOrder \in Seq(Nodes) /\ assigned \in SUBSET Nodes
  BY DEF GraphInv, GraphTypeOK
<1>3. /\ l \in Nat \ {0} /\ DOMAIN finishOrder = 1 .. l
      /\ n \in Nodes /\ n = finishOrder[l]
      /\ Len(finishOrder') = l - 1 /\ DOMAIN finishOrder' = 1 .. l - 1
      /\ \A i \in 1 .. l - 1 : finishOrder'[i] = finishOrder[i]
      /\ Range(finishOrder) = Range(finishOrder') \cup {n}
  BY <1>1, <1>2, FrontAndLast
<1>4. InProgress = {} /\ Complete = assigned
  BY <1>1 DEF InProgress, Complete
<1>5. /\ InProgress' = (IF n \in assigned THEN {} ELSE {n})
      /\ Complete' = assigned
  <2>1. Range(<<n>>) = {n} /\ <<n>> # <<>>
    BY DEF Range
  <2> QED
    BY <1>1, <2>1 DEF InProgress, Complete
<1>6. GraphTypeOK'
  BY GraphTypesKept DEF GraphNext, GraphInv
<1>7. FirstPassInv' /\ AheadInv'
  BY <1>1 DEF FirstPassInv, AheadInv
<1>8. OnceInv'
  BY <1>1, <1>3 DEF GraphInv, OnceInv, IsInjective
<1> HIDE DEF n, l
<1>9. FinishOrderInv'
  <2>1. ASSUME NEW i \in 1 .. l - 1, NEW w \in Neighbors(finishOrder[i])
        PROVE  \/ \E j \in 1 .. i - 1 : finishOrder'[j] = w
               \/ \E q \in i .. l - 1 :
                     /\ finishOrder'[q] = w
                     /\ \A j \in i .. q : Leads(edges, w, finishOrder'[j])
               \/ w \in assigned'
    <3>1. i \in DOMAIN finishOrder
      BY <1>3
    <3>2. \/ \E j \in 1 .. i - 1 : finishOrder[j] = w
          \/ \E q \in i .. l :
                /\ finishOrder[q] = w
                /\ \A j \in i .. q : Leads(edges, w, finishOrder[j])
          \/ w \in assigned
      BY <1>1, <3>1 DEF GraphInv, FinishOrderInv, l
    <3>3. CASE \E j \in 1 .. i - 1 : finishOrder[j] = w
      BY <1>3, <3>3
    <3>4. ASSUME NEW q \in i .. l, finishOrder[q] = w,
                 \A j \in i .. q : Leads(edges, w, finishOrder[j])
          PROVE  \/ w \in assigned'
                 \/ \E r \in i .. l - 1 :
                       /\ finishOrder'[r] = w
                       /\ \A j \in i .. r : Leads(edges, w, finishOrder'[j])
      <4>1. CASE q = l
        BY <1>1, <1>3, <3>4, <4>1
      <4>2. CASE q # l
        <5>1. q \in i .. l - 1 /\ finishOrder'[q] = w
          BY <1>3, <3>4, <4>2
        <5>2. \A j \in i .. q : Leads(edges, w, finishOrder'[j])
          BY <1>3, <3>4, <5>1
        <5> QED
          BY <5>1, <5>2
      <4> QED
        BY <4>1, <4>2
    <3> QED
      BY <1>1, <3>2, <3>3, <3>4
  <2>2. \A x : Neighbors(x)' = Neighbors(x)
    BY <1>1 DEF Neighbors
  <2>3. edges' = edges
    BY <1>1
  <2> QED
    BY <1>3, <2>1, <2>2, <2>3 DEF FinishOrderInv
<1>10. SecondPassInv'
  <2>1. Nodes = assigned' \cup Range(finishOrder')
    BY <1>1, <1>3 DEF GraphInv, SecondPassInv
  <2>2. InProgress' \subseteq assigned'
    BY <1>1, <1>5
  <2>3. \A z \in assigned : ReverseNeighbors(z)' \subseteq assigned
    BY <1>1, <1>4 DEF GraphInv, SecondPassInv, ReverseNeighbors
  <2>4. \A x, y \in InProgress' : Leads(edges', x, y)
    BY <1>5, LeadsToItself
  <2>5. \A x \in component' : ReverseNeighbors(x)' \subseteq assigned'
    BY <1>1
  <2>6. \A r \in InProgress' : \A x \in Nodes \ Complete' :
              Leads(edges', x, r) => Leads(edges', r, x)
    <3>1. ASSUME n \notin assigned, NEW x \in Nodes \ assigned, Leads(edges, x, n)
          PROVE  Leads(edges, n, x)
      BY <1>1, <3>1, LastFinished DEF n
    <3>2. edges' = edges
      BY <1>1
    <3> QED
      BY <1>5, <3>1, <3>2
  <2> QED
    BY <1>5, <2>1, <2>2, <2>3, <2>4, <2>5, <2>6 DEF SecondPassInv
<1>11. LargestInv'
  BY <1>1, <1>4, <1>5 DEF GraphInv, LargestInv, Component, Mutual
<1> QED
  BY <1>1, <1>6, <1>7, <1>8, <1>9, <1>10, <1>11 DEF GraphInv

LEMMA BuiltKeepsInv ==
    ASSUME GraphInv, Built
    PROVE  GraphInv'
<1>1. /\ phase = "collect" /\ stack = <<>> /\ finishOrder = <<>> /\ phase' = "built"
      /\ UNCHANGED <<edges, visited, stack, ahead, finishOrder, assigned, component, largest>>
  BY DEF Built
<1>2. InProgress' = InProgress /\ Complete' = Complete /\ \A n : ReverseNeighbors(n)' = ReverseNeighbors(n)
  BY <1>1 DEF InProgress, Complete, ReverseNeighbors
<1>3. GraphTypeOK' /\ FirstPassInv' /\ AheadInv' /\ OnceInv'
  BY <1>1 DEF GraphInv, GraphTypeOK, FirstPassInv, AheadInv, OnceInv
<1>4. FinishOrderInv'
  BY <1>1 DEF FinishOrderInv
<1>5. SecondPassInv'
  BY <1>1, <1>2 DEF GraphInv, SecondPassInv
<1>6. LargestInv'
  BY <1>1, <1>2 DEF GraphInv, LargestInv, Component, Mutual
<1> QED
  BY <1>1, <1>3, <1>4, <1>5, <1>6 DEF GraphInv

\* What both cases of a step of the collection have in common.
LEMMA CollectStep ==
    ASSUME GraphInv, Collect
    PROVE  LET s == Last(stack)
               found == ReverseNeighbors(s) \ assigned
           IN /\ phase = "collect" /\ phase' = "collect" /\ stack # <<>>
              /\ s \in Nodes /\ s \in InProgress /\ s \notin Complete
              /\ InProgress = component \cup {s} \cup Range(Front(stack))
              /\ component' = component \cup {s}
              /\ assigned' = assigned \cup found /\ found \subseteq Nodes
              /\ stack' = <<>> <=> found = {} /\ Front(stack) = <<>>
              /\ stack' # <<>> => InProgress' = InProgress \cup found
              /\ largest' = IF stack' = <<>> /\ Cardinality(component') > Cardinality(largest)
                            THEN component' ELSE largest
              /\ UNCHANGED <<edges, visited, finishOrder>>
<1> DEFINE s == Last(stack)
           found == ReverseNeighbors(s) \ assigned
<1>1. /\ phase = "collect" /\ stack # <<>>
      /\ component' = component \cup {s}
      /\ assigned' = assigned \cup found
      /\ largest' = IF stack' = <<>> /\ Cardinality(component') > Cardinality(largest)
                    THEN component' ELSE largest
      /\ UNCHANGED <<edges, phase, visited, finishOrder>>
  BY DEF Collect, CollectAlong, Collecting
<1>2. PICK order \in SetToSeqs(found) : stack' = Front(stack) \o order
  BY DEF Collect, CollectAlong
<1>3. stack \in Seq(Nodes)
  BY DEF GraphInv, GraphTypeOK
<1>4. /\ Len(stack) \in Nat \ {0} /\ s \in Nodes /\ Front(stack) \in Seq(Nodes)
      /\ Range(stack) = Range(Front(stack)) \cup {s}
  BY <1>1, <1>3, FrontAndLast
<1>5. found \subseteq Nodes
  BY DEF ReverseNeighbors
<1> HIDE DEF found, s
<1>6. IsFiniteSet(found)
  BY <1>5, FoundIsFinite
<1>7. order \in Seq(found) /\ Range(order) = found
  BY <1>6, OrderOfSet
<1>8. order \in Seq(Nodes)
  BY <1>5, <1>7, SeqMonotonic
<1>9. stack' = <<>> <=> Front(stack) = <<>> /\ order = <<>>
  BY <1>2, <1>4, <1>8, ConcatEqualIffEmpty
<1>10. order = <<>> <=> found = {}
  <2>1. order = <<>> => Range(order) = {}
    BY DEF Range
  <2>2. order # <<>> => found # {}
    BY <1>7, EmptySeq, ElementOfSeq
  <2> QED
    BY <1>7, <2>1, <2>2
<1>11. Range(stack') = Range(Front(stack)) \cup found
  BY <1>2, <1>4, <1>7, <1>8, RangeConcatenation
<1>12. InProgress = component \cup {s} \cup Range(Front(stack))
  BY <1>1, <1>4 DEF InProgress
<1>13. s \in InProgress /\ s \notin Complete
  BY <1>12 DEF Complete
<1>14. stack' # <<>> => InProgress' = InProgress \cup found
  BY <1>1, <1>11, <1>12 DEF InProgress
<1>15. phase' = "collect"
  BY <1>1
<1> QED
  BY <1>1, <1>4, <1>5, <1>9, <1>10, <1>12, <1>13, <1>14, <1>15 DEF found, s

\* The component goes on: it is joined by nodes that it reaches.
LEMMA CollectGoesOn ==
    ASSUME GraphInv, Collect, stack' # <<>>
    PROVE  SecondPassInv' /\ LargestInv'
<1> DEFINE s == Last(stack)
           found == ReverseNeighbors(s) \ assigned
<1>1. /\ phase = "collect" /\ phase' = "collect" /\ stack # <<>>
      /\ s \in Nodes /\ s \in InProgress
      /\ InProgress = component \cup {s} \cup Range(Front(stack))
      /\ component' = component \cup {s}
      /\ assigned' = assigned \cup found /\ found \subseteq Nodes
      /\ InProgress' = InProgress \cup found
      /\ largest' = largest
      /\ edges' = edges /\ finishOrder' = finishOrder
  BY CollectStep
<1>2. \A r \in found : <<r, s>> \in edges /\ r \in Nodes /\ r \notin assigned
  BY DEF ReverseNeighbors
<1>3. ReverseNeighbors(s) \subseteq assigned'
  BY <1>1
<1> HIDE DEF found, s
<1>4. /\ Nodes = assigned \cup Range(finishOrder)
      /\ InProgress \subseteq assigned
      /\ \A n \in Complete : ReverseNeighbors(n) \subseteq Complete
      /\ \A x, y \in InProgress : Leads(edges, x, y)
      /\ \A x \in component : ReverseNeighbors(x) \subseteq assigned
      /\ \A r \in InProgress : \A x \in Nodes \ Complete :
            Leads(edges, x, r) => Leads(edges, r, x)
  BY <1>1 DEF GraphInv, SecondPassInv
<1>5. Complete' = Complete
  BY <1>1, <1>2, <1>4 DEF Complete
<1>6. \A n : ReverseNeighbors(n)' = ReverseNeighbors(n)
  BY <1>1 DEF ReverseNeighbors
<1>7. ASSUME NEW r \in InProgress' PROVE Leads(edges, r, s) /\ Leads(edges, s, r)
  <2>1. CASE r \in InProgress
    BY <1>1, <1>4, <2>1
  <2>2. CASE r \in found
    <3>1. Leads(edges, r, s)
      BY <1>1, <1>2, <2>2, EdgeLeads
    <3>2. r \in Nodes \ Complete
      BY <1>2, <2>2 DEF Complete
    <3> QED
      BY <1>1, <1>4, <3>1, <3>2
  <2> QED
    BY <1>1, <1>7, <2>1, <2>2
<1>8. \A x, y \in InProgress' : Leads(edges', x, y)
  <2>1. ASSUME NEW x \in InProgress', NEW y \in InProgress' PROVE Leads(edges, x, y)
    BY <1>7, LeadsOn
  <2> QED
    BY <1>1, <2>1
<1>9. \A r \in InProgress' : \A x \in Nodes \ Complete' :
            Leads(edges', x, r) => Leads(edges', r, x)
  <2>1. ASSUME NEW r \in InProgress', NEW x \in Nodes \ Complete, Leads(edges, x, r)
        PROVE  Leads(edges, r, x)
    <3>1. Leads(edges, x, s)
      BY <1>7, <2>1, LeadsOn
    <3>2. Leads(edges, s, x)
      BY <1>1, <1>4, <3>1
    <3> QED
      BY <1>7, <3>2, LeadsOn
  <2> QED
    BY <1>1, <1>5, <2>1
<1>10. SecondPassInv'
  <2>1. Nodes = assigned' \cup Range(finishOrder')
    BY <1>1, <1>4
  <2>2. InProgress' \subseteq assigned'
    BY <1>1, <1>4
  <2>3. \A n \in Complete' : ReverseNeighbors(n)' \subseteq Complete'
    BY <1>4, <1>5, <1>6
  <2>4. \A x \in component' : ReverseNeighbors(x)' \subseteq assigned'
    BY <1>1, <1>3, <1>4, <1>6
  <2> QED
    BY <1>8, <1>9, <2>1, <2>2, <2>3, <2>4 DEF SecondPassInv
<1>11. LargestInv'
  BY <1>1, <1>5 DEF GraphInv, LargestInv, Component, Mutual
<1> QED
  BY <1>10, <1>11

\* The component is complete: nothing outside leads into it any more.
LEMMA CollectEnds ==
    ASSUME GraphInv, Collect, stack' = <<>>
    PROVE  SecondPassInv' /\ LargestInv'
<1> DEFINE s == Last(stack)
           found == ReverseNeighbors(s) \ assigned
<1>1. /\ phase = "collect" /\ phase' = "collect" /\ stack # <<>>
      /\ s \in Nodes /\ s \in InProgress
      /\ InProgress = component \cup {s} \cup Range(Front(stack))
      /\ component' = component \cup {s}
      /\ assigned' = assigned \cup found
      /\ found = {} /\ Front(stack) = <<>>
      /\ largest' = IF Cardinality(component') > Cardinality(largest) THEN component' ELSE largest
      /\ edges' = edges /\ finishOrder' = finishOrder
  BY CollectStep
<1>2. ReverseNeighbors(s) \subseteq assigned
  BY <1>1
<1> HIDE DEF found, s
<1>3. InProgress = component' /\ assigned' = assigned
  BY <1>1 DEF Range
<1>4. /\ Nodes = assigned \cup Range(finishOrder)
      /\ InProgress \subseteq assigned
      /\ \A n \in Complete : ReverseNeighbors(n) \subseteq Complete
      /\ \A x, y \in InProgress : Leads(edges, x, y)
      /\ \A x \in component : ReverseNeighbors(x) \subseteq assigned
  BY <1>1 DEF GraphInv, SecondPassInv
<1>5. InProgress' = {} /\ Complete' = assigned /\ assigned = Complete \cup InProgress
  BY <1>3, <1>4 DEF InProgress, Complete
<1>6. assigned \in SUBSET Nodes /\ InProgress \in SUBSET Nodes /\ Complete \in SUBSET Nodes
      /\ Complete \cap InProgress = {}
  BY <1>4 DEF GraphInv, GraphTypeOK, Complete
<1>7. ASSUME NEW z \in assigned PROVE ReverseNeighbors(z) \subseteq assigned
  <2>1. CASE z \in Complete
    BY <1>4, <1>5, <2>1
  <2>2. z \in Complete \/ z \in component \/ z = s
    BY <1>1, <1>3, <1>5
  <2> QED
    BY <1>2, <1>4, <2>1, <2>2
<1>8. SecondPassInv'
  <2>1. \A n \in Complete' : ReverseNeighbors(n)' \subseteq Complete'
    BY <1>1, <1>5, <1>7 DEF ReverseNeighbors
  <2>2. Nodes = assigned' \cup Range(finishOrder')
    BY <1>1, <1>3, <1>4
  <2> QED
    BY <1>3, <1>5, <2>1, <2>2 DEF SecondPassInv
<1>9. ASSUME NEW c \in InProgress PROVE Component(edges, c) = InProgress
  <2>1. InProgress \subseteq Component(edges, c)
    BY <1>4, <1>6 DEF Component, Mutual
  <2>2. ASSUME NEW x \in Nodes, Mutual(edges, c, x) PROVE x \in InProgress
    <3>1. x \in assigned
      <4>1. \A y \in Nodes, z \in assigned : <<y, z>> \in edges => y \in assigned
        BY <1>7 DEF ReverseNeighbors
      <4>2. c \in assigned
        BY <1>5
      <4> QED
        BY <1>6, <2>2, <4>1, <4>2, NoWayIn DEF Mutual
    <3>2. x \notin Complete
      <4>1. \A y \in Nodes, z \in Complete : <<y, z>> \in edges => y \in Complete
        BY <1>4 DEF ReverseNeighbors
      <4>2. c \in Nodes /\ c \notin Complete
        BY <1>6
      <4> QED
        BY <1>6, <2>2, <4>1, <4>2, NoWayIn DEF Mutual
    <3> QED
      BY <1>5, <3>1, <3>2
  <2> QED
    BY <2>1, <2>2 DEF Component
<1>10. /\ largest \subseteq Complete
       /\ \A n \in Complete :
              IF n \in largest THEN Component(edges, n) = largest
              ELSE Cardinality(Component(edges, n)) <= Cardinality(largest)
  BY <1>1 DEF GraphInv, LargestInv
<1>11. /\ Cardinality(largest) \in Nat /\ Cardinality(InProgress) \in Nat
       /\ \A n : Cardinality(Component(edges, n)) \in Nat
  <2>1. largest \in SUBSET Nodes /\ \A n : Component(edges, n) \in SUBSET Nodes
    BY DEF GraphInv, GraphTypeOK, Component
  <2> QED
    BY <1>6, <2>1, FoundIsFinite, FS_CardinalityType
<1>12. LargestInv'
  <2>1. CASE Cardinality(InProgress) > Cardinality(largest)
    <3>1. largest' = InProgress
      BY <1>1, <1>3, <2>1
    <3>2. \A n \in Complete : /\ n \notin InProgress
                              /\ Cardinality(Component(edges, n)) <= Cardinality(InProgress)
      BY <1>6, <1>10, <1>11, <2>1
    <3> QED
      BY <1>1, <1>5, <1>9, <3>1, <3>2 DEF LargestInv
  <2>2. CASE ~ (Cardinality(InProgress) > Cardinality(largest))
    <3>1. largest' = largest
      BY <1>1, <1>3, <2>2
    <3>2. \A n \in InProgress : /\ n \notin largest
                                /\ Cardinality(Component(edges, n)) <= Cardinality(largest)
      BY <1>6, <1>9, <1>10, <1>11, <2>2
    <3> QED
      BY <1>1, <1>5, <1>10, <3>1, <3>2 DEF LargestInv
  <2> QED
    BY <2>1, <2>2
<1> QED
  BY <1>8, <1>12

LEMMA CollectKeepsInv ==
    ASSUME GraphInv, Collect
    PROVE  GraphInv'
<1>1. GraphTypeOK'
  BY GraphTypesKept DEF GraphNext, GraphInv
<1>2. /\ phase = "collect" /\ phase' = "collect" /\ assigned \subseteq assigned'
      /\ edges' = edges /\ finishOrder' = finishOrder
  BY CollectStep
<1>3. FirstPassInv' /\ AheadInv' /\ OnceInv'
  BY <1>2 DEF GraphInv, FirstPassInv, AheadInv, OnceInv
<1>4. FinishOrderInv'
  BY <1>2 DEF GraphInv, FinishOrderInv, Neighbors
<1> QED
  BY <1>1, <1>2, <1>3, <1>4, CollectGoesOn, CollectEnds DEF GraphInv

-----------------------------------------------------------------------------
(* The invariant of the construction, and what it says at the end          *)

LEMMA GraphInvInit ==
    ASSUME GraphInit
    PROVE  GraphInv
<1> USE DEF GraphInit
<1>1. GraphTypeOK
  BY EmptySeq DEF GraphTypeOK
<1>2. FirstPassInv /\ AheadInv /\ OnceInv /\ FinishOrderInv
  BY DEF FirstPassInv, AheadInv, OnceInv, FinishOrderInv, Range, IsInjective
<1>3. SecondPassInv /\ LargestInv
  BY DEF SecondPassInv, LargestInv
<1> QED
  BY <1>1, <1>2, <1>3 DEF GraphInv

LEMMA GraphInvKept ==
    ASSUME GraphInv, GraphNext
    PROVE  GraphInv'
<1>1. GraphTypeOK'
  BY GraphTypesKept DEF GraphInv
<1>2. CASE (\E n \in Nodes : StartTree(n) \/ Descend(n)) \/ Retreat
  <2>1. FirstPassInv' /\ AheadInv' /\ FinishOrderInv'
    BY <1>2, StartTreeKeepsInv, DescendKeepsInv, RetreatKeepsInv
  <2>2. OnceInv'
    BY <1>2, FirstPassKeepsOnceInv
  <2>3. phase' = "finish"
    BY <1>2 DEF StartTree, Descend, TurnsTo, Retreat
  <2> QED
    BY <1>1, <2>1, <2>2, <2>3 DEF GraphInv, SecondPassInv, LargestInv
<1>3. ASSUME NEW m \in Nodes, PassOver(m) PROVE GraphInv'
  <2>1. FirstPassInv' /\ AheadInv' /\ FinishOrderInv' /\ OnceInv'
    BY <1>3, PassOverKeepsInv
  <2>2. phase' = "finish"
    BY <1>3 DEF PassOver, TurnsTo
  <2> QED
    BY <1>1, <2>1, <2>2 DEF GraphInv, SecondPassInv, LargestInv
<1> QED
  BY <1>2, <1>3, FirstPassDoneKeepsInv, TakeKeepsInv, CollectKeepsInv, BuiltKeepsInv DEF GraphNext

LEMMA GraphInvStutters ==
    ASSUME GraphInv, UNCHANGED graphVars
    PROVE  GraphInv'
<1>1. UNCHANGED <<edges, phase, visited, stack, ahead, finishOrder, assigned, component, largest>>
  BY DEF graphVars
<1>2. /\ InProgress' = InProgress /\ Complete' = Complete
      /\ \A n : Neighbors(n)' = Neighbors(n) /\ ReverseNeighbors(n)' = ReverseNeighbors(n)
  BY <1>1 DEF InProgress, Complete, Neighbors, ReverseNeighbors
<1>3. GraphTypeOK' /\ FirstPassInv' /\ OnceInv'
  BY <1>1 DEF GraphInv, GraphTypeOK, FirstPassInv, OnceInv
<1>4. FinishOrderInv' /\ AheadInv'
  BY <1>1, <1>2 DEF GraphInv, FinishOrderInv, AheadInv
<1>5. SecondPassInv'
  BY <1>1, <1>2 DEF GraphInv, SecondPassInv
<1>6. LargestInv'
  BY <1>1, <1>2 DEF GraphInv, LargestInv, Component, Mutual
<1> QED
  BY <1>1, <1>3, <1>4, <1>5, <1>6 DEF GraphInv

LEMMA ComponentsAreComponents ==
    ASSUME NEW n \in Nodes
    PROVE  ComponentOf(n) = Component(edges, n)
  BY ReachableIsLeads DEF ComponentOf, Component, Mutual

LEMMA GraphInvGivesLargest ==
    ASSUME GraphInv
    PROVE  RoutableIsLargestComponent
<1>1. SUFFICES ASSUME phase = "built", NEW n \in Nodes
               PROVE  IF n \in largest THEN ComponentOf(n) = largest
                      ELSE Cardinality(ComponentOf(n)) <= Cardinality(largest)
  BY DEF RoutableIsLargestComponent
<1>2. stack = <<>> /\ finishOrder = <<>>
  BY <1>1 DEF GraphInv
<1>3. n \in Complete
  BY <1>1, <1>2 DEF GraphInv, SecondPassInv, Complete, InProgress, Range
<1> QED
  BY <1>1, <1>3, ComponentsAreComponents DEF GraphInv, LargestInv
=============================================================================
