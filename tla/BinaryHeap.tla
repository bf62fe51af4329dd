----------------------------- MODULE BinaryHeap -----------------------------
(***************************************************************************)
(* The priority queue of the shortest path search                          *)
(* (backend/src/algorithms/binary-heap.ts): a binary heap in a sequence of *)
(* records with the fields value and priority.  Positions count from 1,    *)
(* so that the children of i are 2 * i and 2 * i + 1.                      *)
(*                                                                         *)
(* The two loops move one item along a branch of the tree and shift the    *)
(* others by one: hence a function from the position the item has reached  *)
(* to the sequence that the rest of the loop makes of it.                  *)
(***************************************************************************)
EXTENDS Naturals, Sequences

Parent(i) == i \div 2

\* bubbleUp(index) for the item x that was put at position i of s.
BubbleUp(s, i, x) ==
    LET up[k \in 1 .. i] ==
            IF k = 1 \/ s[Parent(k)].priority <= x.priority
            THEN [s EXCEPT ![k] = x]
            ELSE [up[Parent(k)] EXCEPT ![k] = s[Parent(k)]]
    IN up[i]

Push(s, x) == BubbleUp(Append(s, x), Len(s) + 1, x)

SmallerChildLeftOnly(s, i, x) ==
    IF 2 * i <= Len(s) /\ s[2 * i].priority < x.priority THEN 2 * i ELSE i

\* smallestIndex of sinkDown, when x stands at position i of s.
SmallerChild(s, i, x) ==
    LET left == IF 2 * i <= Len(s) /\ s[2 * i].priority < x.priority THEN 2 * i ELSE i
        best == IF left = i THEN x.priority ELSE s[left].priority
    IN IF 2 * i + 1 <= Len(s) /\ s[2 * i + 1].priority < best THEN 2 * i + 1 ELSE left

\* sinkDown(0) for the item x that has replaced the first of s.
SinkDown(s, x) ==
    LET sink[k \in 1 .. Len(s)] ==
            LET c == SmallerChild(s, k, x)
            IN IF c = k THEN [s EXCEPT ![k] = x]
                        ELSE [sink[c] EXCEPT ![k] = s[c]]
    IN sink[1]

Top(s) == s[1].value

\* pop() of a heap that is not empty: what remains of it.
Pop(s) ==
    LET last == s[Len(s)]
        rest == SubSeq(s, 1, Len(s) - 1)
    IN IF rest = <<>> THEN <<>> ELSE SinkDown(rest, last)

\* No item has a smaller priority than its parent.
HeapOrdered(s) ==
    \A i \in 2 .. Len(s) : s[Parent(i)].priority <= s[i].priority
=============================================================================
