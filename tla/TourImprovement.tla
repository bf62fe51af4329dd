-------------------------- MODULE TourImprovement --------------------------
(***************************************************************************)
(* What optimizeMultiStopRoute promises of its visiting order, without the *)
(* way it is found: once there is a tour it visits every stop exactly      *)
(* once, it is only ever replaced by a shorter one, and it is final when   *)
(* the call returns.  A call may end without a tour, but never with less   *)
(* than a tour.                                                            *)
(***************************************************************************)
EXTENDS Integers

VARIABLES
    status,     \* "none", "open" (being improved) or "closed"
    stopCount,  \* number of stops of the call
    tour,       \* the best order so far
    length      \* and its length

tourVars == <<status, stopCount, tour, length>>

\* The orders that visit each of n stops once.
Tours(n) == {t \in [1 .. n -> 1 .. n] : \A i, j \in 1 .. n : t[i] = t[j] => i = j}

Init == status = "none"

\* A call begins or ends without a tour.
NoTour == status' = "none"

Propose ==
    /\ status = "none"
    /\ status' = "open"
    /\ UNCHANGED stopCount
    /\ tour' \in Tours(stopCount)

Improve ==
    /\ status = "open"
    /\ tour' \in Tours(stopCount)
    /\ length' < length
    /\ UNCHANGED <<status, stopCount>>

Close ==
    /\ status = "open"
    /\ status' = "closed"
    /\ UNCHANGED <<stopCount, tour, length>>

Next == NoTour \/ Propose \/ Improve \/ Close

Spec == Init /\ [][Next]_tourVars
=============================================================================
