------------------------ MODULE GeocoderQueueProofs ------------------------
(***************************************************************************)
(* Proofs about GeocoderQueue: its types, that a key is never asked for    *)
(* twice at a time, and that it implements ThrottledServer.                *)
(*                                                                         *)
(* The chain of promises is what serializes the requests, and the argument *)
(* is about line: it holds the unsettled requests, each once, and only the *)
(* first of them has begun.                                                *)
(***************************************************************************)
EXTENDS GeocoderQueue, TLAPS

Distinct(s) == \A i, j \in 1 .. Len(s) : s[i] = s[j] => i = j
Listed(s, x) == \E i \in 1 .. Len(s) : s[i] = x

\* What is first in a line without duplicates is not in the rest of it.
LEMMA TailOfLine ==
    ASSUME NEW S, NEW s \in Seq(S), s # <<>>, Distinct(s)
    PROVE  /\ Tail(s) \in Seq(S)
           /\ Distinct(Tail(s))
           /\ \A x \in S : Listed(Tail(s), x) <=> Listed(s, x) /\ x # s[1]
<1>1. Len(s) \in Nat \ {0}
  OBVIOUS
<1>2. /\ Tail(s) \in Seq(S)
      /\ Len(Tail(s)) = Len(s) - 1
      /\ \A i \in 1 .. Len(Tail(s)) : Tail(s)[i] = s[i + 1]
  OBVIOUS
<1>3. Distinct(Tail(s))
  BY <1>1, <1>2 DEF Distinct
<1>4. ASSUME NEW x \in S
      PROVE  Listed(Tail(s), x) <=> Listed(s, x) /\ x # s[1]
  <2>1. ASSUME Listed(Tail(s), x) PROVE Listed(s, x) /\ x # s[1]
    <3>1. PICK i \in 1 .. Len(Tail(s)) : Tail(s)[i] = x
      BY <2>1 DEF Listed
    <3>2. i + 1 \in 1 .. Len(s) /\ s[i + 1] = x /\ 1 \in 1 .. Len(s) /\ i + 1 # 1
      BY <1>1, <1>2, <3>1
    <3> QED
      BY <3>2 DEF Listed, Distinct
  <2>2. ASSUME Listed(s, x), x # s[1] PROVE Listed(Tail(s), x)
    <3>1. PICK i \in 1 .. Len(s) : s[i] = x
      BY <2>2 DEF Listed
    <3>2. i - 1 \in 1 .. Len(Tail(s)) /\ Tail(s)[i - 1] = x
      BY <1>1, <1>2, <2>2, <3>1
    <3> QED
      BY <3>2 DEF Listed
  <2> QED
    BY <2>1, <2>2
<1> QED
  BY <1>2, <1>3, <1>4

\* A newcomer joins a line at its end.
LEMMA AppendToLine ==
    ASSUME NEW S, NEW s \in Seq(S), NEW y \in S, Distinct(s), ~ Listed(s, y)
    PROVE  /\ Append(s, y) \in Seq(S)
           /\ Append(s, y) # <<>>
           /\ Append(s, y)[1] = IF s = <<>> THEN y ELSE s[1]
           /\ Distinct(Append(s, y))
           /\ \A x \in S : Listed(Append(s, y), x) <=> Listed(s, x) \/ x = y
<1>1. /\ Append(s, y) \in Seq(S)
      /\ Len(s) \in Nat
      /\ Len(Append(s, y)) = Len(s) + 1
      /\ \A i \in 1 .. Len(s) : Append(s, y)[i] = s[i]
      /\ Append(s, y)[Len(s) + 1] = y
      /\ s = <<>> <=> Len(s) = 0
  OBVIOUS
<1>2. Append(s, y) # <<>>
  BY <1>1
<1>3. Append(s, y)[1] = IF s = <<>> THEN y ELSE s[1]
  BY <1>1
<1>4. Distinct(Append(s, y))
  BY <1>1 DEF Distinct, Listed
<1>5. ASSUME NEW x \in S PROVE Listed(Append(s, y), x) <=> Listed(s, x) \/ x = y
  BY <1>1 DEF Listed
<1> QED
  BY <1>1, <1>2, <1>3, <1>4, <1>5

-----------------------------------------------------------------------------
(* The inductive invariant                                                 *)

Begun(r) == request[r] \in {"delayed", "fetching", "storing"}

\* line holds exactly the unsettled requests, each of them once.
LineIsExact ==
    /\ Distinct(line)
    /\ \A r \in Lookups : Unsettled(r) <=> Listed(line, r)

OnlyHeadHasBegun ==
    \A r \in Lookups : Begun(r) => line # <<>> /\ r = line[1]

\* While the timer of a request runs, what is left of it and the time since
\* the last start add up to the interval.
DelayCompletesInterval ==
    \A r \in Lookups : request[r] = "delayed" => delay + quiet = Interval

\* A lookup has no request before it has called enqueue(), and stays with an
\* unsettled one.
OwnersAwait ==
    \A r \in Lookups :
        /\ pc[r] \in {"idle", "reading", "hit", "missed"} => request[r] = "none"
        /\ Unsettled(r) => pc[r] = "awaiting" /\ waitsFor[r] = r

\* An entry of the map belongs to the lookup that made the request.
EntriesHaveOwners ==
    \A r \in Lookups, k \in Keys :
        inFlight[k] = r <=> key[r] = k /\ pc[r] = "awaiting" /\ waitsFor[r] = r

GeocoderInv ==
    /\ TypeOK
    /\ LineIsExact
    /\ OnlyHeadHasBegun
    /\ DelayCompletesInterval
    /\ OwnersAwait
    /\ EntriesHaveOwners

LEMMA GeocoderInvInit == Init => GeocoderInv
<1> SUFFICES ASSUME Init PROVE GeocoderInv
  OBVIOUS
<1> USE GeocoderAssumption DEF Init
<1>1. TypeOK
  BY DEF TypeOK, LookupSteps, RequestSteps
<1>2. LineIsExact
  BY DEF LineIsExact, Distinct, Listed, Unsettled
<1>3. OnlyHeadHasBegun /\ DelayCompletesInterval
  BY DEF OnlyHeadHasBegun, DelayCompletesInterval, Begun
<1>4. OwnersAwait /\ EntriesHaveOwners
  BY DEF OwnersAwait, EntriesHaveOwners, Unsettled
<1> QED
  BY <1>1, <1>2, <1>3, <1>4 DEF GeocoderInv

-----------------------------------------------------------------------------
(* Steps that leave the chain alone                                        *)

LookupMoves ==
    \/ \E l \in Lookups, k \in Keys : Look(l, k)
    \/ \E l \in Lookups : ReadCache(l) \/ AnswerFromCache(l) \/ Join(l) \/ Return(l)
    \/ \E k \in Keys : Expire(k)

LEMMA ChainLeftAlone ==
    ASSUME GeocoderInv, LookupMoves
    PROVE  LineIsExact' /\ OnlyHeadHasBegun' /\ DelayCompletesInterval'
<1>1. UNCHANGED <<request, line, delay, quiet>>
  BY DEF LookupMoves, Look, ReadCache, AnswerFromCache, Join, Return, Expire, Await
<1> QED
  BY <1>1 DEF GeocoderInv, LineIsExact, OnlyHeadHasBegun, DelayCompletesInterval, Begun, Unsettled

LEMMA LookupMovesKeepInv == ASSUME GeocoderInv, LookupMoves PROVE GeocoderInv'
<1> USE GeocoderAssumption
<1>0. TypeOK /\ OwnersAwait /\ EntriesHaveOwners
  BY DEF GeocoderInv
<1>1. ASSUME NEW l \in Lookups, NEW k \in Keys, Look(l, k)
      PROVE  TypeOK' /\ OwnersAwait' /\ EntriesHaveOwners'
  <2> USE <1>0, <1>1 DEF Look
  <2>1. TypeOK'
    BY DEF TypeOK, LookupSteps
  <2>2. OwnersAwait'
    BY DEF TypeOK, OwnersAwait, Unsettled
  <2>3. EntriesHaveOwners'
    BY DEF TypeOK, EntriesHaveOwners
  <2> QED
    BY <2>1, <2>2, <2>3
<1>2. ASSUME NEW l \in Lookups, ReadCache(l)
      PROVE  TypeOK' /\ OwnersAwait' /\ EntriesHaveOwners'
  <2> USE <1>0, <1>2 DEF ReadCache
  <2>1. TypeOK'
    BY DEF TypeOK, LookupSteps
  <2>2. OwnersAwait'
    BY DEF TypeOK, OwnersAwait, Unsettled
  <2>3. EntriesHaveOwners'
    BY DEF TypeOK, EntriesHaveOwners
  <2> QED
    BY <2>1, <2>2, <2>3
<1>3. ASSUME NEW l \in Lookups, AnswerFromCache(l)
      PROVE  TypeOK' /\ OwnersAwait' /\ EntriesHaveOwners'
  <2> USE <1>0, <1>3 DEF AnswerFromCache
  <2>1. TypeOK'
    BY DEF TypeOK, LookupSteps
  <2>2. OwnersAwait'
    BY DEF TypeOK, OwnersAwait, Unsettled
  <2>3. EntriesHaveOwners'
    BY DEF TypeOK, EntriesHaveOwners
  <2> QED
    BY <2>1, <2>2, <2>3
<1>4. ASSUME NEW l \in Lookups, Join(l)
      PROVE  TypeOK' /\ OwnersAwait' /\ EntriesHaveOwners'
  <2> USE <1>0, <1>4 DEF Join, Await
  <2>1. key[l] \in Keys /\ inFlight[key[l]] \in Lookups /\ inFlight[key[l]] # l
    BY DEF TypeOK, EntriesHaveOwners
  <2>2. TypeOK'
    BY <2>1 DEF TypeOK, LookupSteps
  <2>3. OwnersAwait'
    BY DEF TypeOK, OwnersAwait, Unsettled
  <2>4. EntriesHaveOwners'
    BY <2>1 DEF TypeOK, EntriesHaveOwners
  <2> QED
    BY <2>2, <2>3, <2>4
<1>5. ASSUME NEW l \in Lookups, Return(l)
      PROVE  TypeOK' /\ OwnersAwait' /\ EntriesHaveOwners'
  <2> USE <1>0, <1>5 DEF Return
  <2>1. key[l] \in Keys /\ pc'[l] \in {"answered", "failed"}
    BY DEF TypeOK
  <2>2. TypeOK'
    BY <2>1 DEF TypeOK, LookupSteps
  <2>3. OwnersAwait'
    BY <2>1 DEF TypeOK, OwnersAwait, Unsettled
  <2>4. EntriesHaveOwners'
    BY <2>1 DEF TypeOK, EntriesHaveOwners
  <2> QED
    BY <2>2, <2>3, <2>4
<1>6. ASSUME NEW k \in Keys, Expire(k)
      PROVE  TypeOK' /\ OwnersAwait' /\ EntriesHaveOwners'
  BY <1>0, <1>6 DEF Expire, TypeOK, OwnersAwait, EntriesHaveOwners, Unsettled
<1> QED
  BY <1>1, <1>2, <1>3, <1>4, <1>5, <1>6, ChainLeftAlone DEF LookupMoves, GeocoderInv

-----------------------------------------------------------------------------
(* Steps of the chain                                                      *)

LEMMA EnqueueKeepsInv ==
    ASSUME GeocoderInv, NEW l \in Lookups, Enqueue(l)
    PROVE  GeocoderInv'
<1> USE GeocoderAssumption
<1>0. TypeOK /\ LineIsExact /\ OnlyHeadHasBegun /\ OwnersAwait /\ EntriesHaveOwners
  BY DEF GeocoderInv
<1>1. /\ key[l] \in Keys
      /\ line \in Seq(Lookups) /\ Distinct(line)
      /\ request \in [Lookups -> RequestSteps]
      /\ request[l] = "none"
  BY <1>0 DEF TypeOK, OwnersAwait, LineIsExact, Enqueue
<1>2. ~ Listed(line, l)
  BY <1>0, <1>1 DEF LineIsExact, Unsettled
<1>3. /\ line' \in Seq(Lookups)
      /\ line' # <<>>
      /\ line'[1] = IF line = <<>> THEN l ELSE line[1]
      /\ Distinct(line')
      /\ \A x \in Lookups : Listed(line', x) <=> Listed(line, x) \/ x = l
  BY <1>1, <1>2, AppendToLine DEF Enqueue
<1>4. request' = [request EXCEPT ![l] = "queued"] /\ UNCHANGED <<key, delay, quiet, cached>>
  BY DEF Enqueue
<1>5. TypeOK'
  BY <1>0, <1>1, <1>3, <1>4 DEF Enqueue, Await, TypeOK, LookupSteps, RequestSteps
<1>6. LineIsExact'
  BY <1>0, <1>1, <1>3, <1>4 DEF LineIsExact, Unsettled
<1>7. OnlyHeadHasBegun'
  BY <1>0, <1>1, <1>3, <1>4 DEF OnlyHeadHasBegun, Begun
<1>8. DelayCompletesInterval'
  BY <1>1, <1>4 DEF GeocoderInv, DelayCompletesInterval
<1>9. OwnersAwait'
  BY <1>0, <1>1, <1>4 DEF Enqueue, Await, TypeOK, OwnersAwait, Unsettled
<1>10. EntriesHaveOwners'
  BY <1>0, <1>1, <1>4 DEF Enqueue, Await, TypeOK, EntriesHaveOwners
<1> QED
  BY <1>5, <1>6, <1>7, <1>8, <1>9, <1>10 DEF GeocoderInv

\* A step of the request r that is not its last: r stays first in line.
LEMMA RequestMoves ==
    ASSUME GeocoderInv, NEW r \in Lookups, Unsettled(r), line # <<>>, r = line[1],
           NEW step \in {"delayed", "fetching", "storing"},
           request' = [request EXCEPT ![r] = step],
           UNCHANGED <<key, pc, waitsFor, inFlight, line, cached>>,
           delay' \in 0 .. Interval, quiet' \in 0 .. Interval,
           step = "delayed" => delay' + quiet' = Interval
    PROVE  GeocoderInv'
<1>1. TypeOK'
  BY DEF GeocoderInv, TypeOK, RequestSteps
<1>2. request \in [Lookups -> RequestSteps]
  BY DEF GeocoderInv, TypeOK
<1>3. \A q \in Lookups : Unsettled(q)' <=> Unsettled(q)
  BY <1>2 DEF Unsettled
<1>4. LineIsExact'
  BY <1>3 DEF GeocoderInv, LineIsExact
<1>5. \A q \in Lookups : Begun(q)' => q = r
  BY <1>2 DEF GeocoderInv, OnlyHeadHasBegun, Begun
<1>6. OnlyHeadHasBegun'
  BY <1>5 DEF OnlyHeadHasBegun
<1>7. DelayCompletesInterval'
  BY <1>2, <1>5 DEF DelayCompletesInterval, Begun
<1>8. OwnersAwait'
  BY <1>2, <1>3 DEF GeocoderInv, OwnersAwait, Unsettled
<1>9. EntriesHaveOwners'
  BY DEF GeocoderInv, EntriesHaveOwners
<1> QED
  BY <1>1, <1>4, <1>6, <1>7, <1>8, <1>9 DEF GeocoderInv

\* The last step of the request r: the line moves up.
LEMMA RequestSettles ==
    ASSUME GeocoderInv, NEW r \in Lookups, Unsettled(r), line # <<>>, r = line[1],
           NEW step \in {"fulfilled", "rejected"},
           request' = [request EXCEPT ![r] = step],
           line' = Tail(line), cached' \in SUBSET Keys,
           UNCHANGED <<key, pc, waitsFor, inFlight, delay, quiet>>
    PROVE  GeocoderInv' /\ \A q \in Lookups : ~ Begun(q)'
<1>0. /\ line \in Seq(Lookups) /\ Distinct(line)
      /\ request \in [Lookups -> RequestSteps]
  BY DEF GeocoderInv, LineIsExact, TypeOK
<1>1. /\ line' \in Seq(Lookups)
      /\ Distinct(line')
      /\ \A x \in Lookups : Listed(line', x) <=> Listed(line, x) /\ x # r
  BY <1>0, TailOfLine
<1>2. TypeOK'
  BY <1>1 DEF GeocoderInv, TypeOK, RequestSteps
<1>3. \A q \in Lookups : Unsettled(q)' <=> Unsettled(q) /\ q # r
  BY <1>0 DEF Unsettled
<1>4. LineIsExact'
  BY <1>1, <1>3 DEF GeocoderInv, LineIsExact
<1>5. \A q \in Lookups : ~ Begun(q)'
  BY <1>0 DEF GeocoderInv, OnlyHeadHasBegun, Begun
<1>6. OnlyHeadHasBegun' /\ DelayCompletesInterval'
  BY <1>5 DEF OnlyHeadHasBegun, DelayCompletesInterval, Begun
<1>7. OwnersAwait'
  BY <1>0, <1>3 DEF GeocoderInv, OwnersAwait, Unsettled
<1>8. EntriesHaveOwners'
  BY DEF GeocoderInv, EntriesHaveOwners
<1> QED
  BY <1>2, <1>4, <1>5, <1>6, <1>7, <1>8 DEF GeocoderInv

\* A request that has begun is unsettled and first in line.
LEMMA BegunIsHead ==
    ASSUME GeocoderInv, NEW r \in Lookups, Begun(r)
    PROVE  Unsettled(r) /\ line # <<>> /\ r = line[1]
  BY DEF GeocoderInv, OnlyHeadHasBegun, Begun, Unsettled

LEMMA RequestStepsKeepInv ==
    ASSUME GeocoderInv, NEW r \in Lookups, RequestStep(r)
    PROVE  GeocoderInv'
<1> USE GeocoderAssumption
<1>0. delay \in 0 .. Interval /\ quiet \in 0 .. Interval /\ line \in Seq(Lookups)
  BY DEF GeocoderInv, TypeOK
<1>1. CASE Begin(r)
  <2>1. Unsettled(r) /\ line # <<>> /\ r = line[1]
    <3>1. request[r] = "queued" /\ line # <<>> /\ r = Head(line)
      BY <1>1 DEF Begin
    <3>2. Head(line) = line[1]
      BY <1>0, <3>1
    <3> QED
      BY <3>1, <3>2 DEF Unsettled
  <2>2. CASE quiet = Interval /\ Goto(r, "fetching") /\ quiet' = 0 /\ UNCHANGED delay
    <3>1. delay' \in 0 .. Interval /\ quiet' \in 0 .. Interval
      BY <1>0, <2>2
    <3>2. /\ request' = [request EXCEPT ![r] = "fetching"]
          /\ UNCHANGED <<key, pc, waitsFor, inFlight, line, cached>>
      BY <1>1, <2>2 DEF Begin, Goto
    <3> QED
      BY <2>1, <3>1, <3>2, RequestMoves
  <2>3. CASE quiet < Interval /\ Goto(r, "delayed") /\ delay' = Interval - quiet
             /\ UNCHANGED quiet
    <3>1. delay' \in 0 .. Interval /\ quiet' \in 0 .. Interval /\ delay' + quiet' = Interval
      BY <1>0, <2>3
    <3>2. /\ request' = [request EXCEPT ![r] = "delayed"]
          /\ UNCHANGED <<key, pc, waitsFor, inFlight, line, cached>>
      BY <1>1, <2>3 DEF Begin, Goto
    <3> QED
      BY <2>1, <3>1, <3>2, RequestMoves
  <2> QED
    BY <1>1, <2>2, <2>3 DEF Begin
<1>2. CASE DelayOver(r)
  <2>1. Unsettled(r) /\ line # <<>> /\ r = line[1]
    BY <1>2, BegunIsHead DEF DelayOver, Begun
  <2>2. delay' \in 0 .. Interval /\ quiet' \in 0 .. Interval
    BY <1>0, <1>2 DEF DelayOver
  <2>3. /\ request' = [request EXCEPT ![r] = "fetching"]
        /\ UNCHANGED <<key, pc, waitsFor, inFlight, line, cached>>
    BY <1>2 DEF DelayOver, Goto
  <2> QED
    BY <2>1, <2>2, <2>3, RequestMoves
<1>3. ASSUME NEW outcome \in FetchOutcomes, Fetched(r, outcome)
      PROVE  GeocoderInv'
  <2>1. Unsettled(r) /\ line # <<>> /\ r = line[1]
    BY <1>3, BegunIsHead DEF Fetched, Begun
  <2>2. CASE outcome = "unavailable"
    BY <1>3, <2>1, <2>2, RequestSettles DEF Fetched, Goto, GeocoderInv, TypeOK
  <2>3. CASE outcome # "unavailable"
    <3>1. delay' \in 0 .. Interval /\ quiet' \in 0 .. Interval
      BY <1>0, <1>3 DEF Fetched
    <3>2. /\ request' = [request EXCEPT ![r] = "storing"]
          /\ UNCHANGED <<key, pc, waitsFor, inFlight, line, cached>>
      BY <1>3, <2>3 DEF Fetched, Goto
    <3> QED
      BY <2>1, <3>1, <3>2, RequestMoves
  <2> QED
    BY <2>2, <2>3
<1>4. CASE Stored(r)
  <2>1. Unsettled(r) /\ line # <<>> /\ r = line[1]
    BY <1>4, BegunIsHead DEF Stored, Begun
  <2>2. key[r] \in Keys
    BY <2>1 DEF GeocoderInv, TypeOK, OwnersAwait
  <2>3. cached' \in SUBSET Keys
    BY <1>4, <2>2 DEF Stored, GeocoderInv, TypeOK
  <2> QED
    BY <1>4, <2>1, <2>3, RequestSettles DEF Stored, Goto
<1> QED
  BY <1>1, <1>2, <1>3, <1>4 DEF RequestStep

LEMMA TickKeepsInv == ASSUME GeocoderInv, Tick PROVE GeocoderInv'
<1> USE GeocoderAssumption DEF Tick
<1>0. delay \in 0 .. Interval /\ quiet \in 0 .. Interval
  BY DEF GeocoderInv, TypeOK
<1>1. delay' \in 0 .. Interval /\ quiet' \in 0 .. Interval
  BY <1>0
<1>2. delay + quiet = Interval => delay' + quiet' = Interval
  BY <1>0
<1>3. TypeOK'
  BY <1>1 DEF GeocoderInv, TypeOK
<1>4. LineIsExact' /\ OnlyHeadHasBegun' /\ OwnersAwait' /\ EntriesHaveOwners'
  BY DEF GeocoderInv, LineIsExact, OnlyHeadHasBegun, OwnersAwait, EntriesHaveOwners,
         Unsettled, Begun
<1>5. DelayCompletesInterval'
  BY <1>2 DEF GeocoderInv, DelayCompletesInterval
<1> QED
  BY <1>3, <1>4, <1>5 DEF GeocoderInv

LEMMA GeocoderInvStep == GeocoderInv /\ [Next]_vars => GeocoderInv'
<1> SUFFICES ASSUME GeocoderInv, [Next]_vars PROVE GeocoderInv'
  OBVIOUS
<1>1. CASE LookupMoves
  BY <1>1, LookupMovesKeepInv
<1>2. ASSUME NEW l \in Lookups, Enqueue(l) PROVE GeocoderInv'
  BY <1>2, EnqueueKeepsInv
<1>3. ASSUME NEW r \in Lookups, RequestStep(r) PROVE GeocoderInv'
  BY <1>3, RequestStepsKeepInv
<1>4. CASE Tick
  BY <1>4, TickKeepsInv
<1>5. CASE UNCHANGED vars
  BY <1>5 DEF vars, GeocoderInv, TypeOK, LineIsExact, OnlyHeadHasBegun, Begun, Unsettled,
              DelayCompletesInterval, OwnersAwait, EntriesHaveOwners
<1> QED
  BY <1>1, <1>2, <1>3, <1>4, <1>5 DEF Next, LookupStep, LookupMoves

LEMMA GeocoderInvariance == Spec => []GeocoderInv
  BY GeocoderInvInit, GeocoderInvStep, PTL DEF Spec

\* Types of the geocoder's state: also that the delay that is computed from the
\* time of the previous start is never longer than the interval.
THEOREM GeocoderTypes == Spec => []TypeOK
<1>1. GeocoderInv => TypeOK
  BY DEF GeocoderInv
<1> QED
  BY <1>1, GeocoderInvariance, PTL

\* Lookups of the same key share one request, however their reads of the cache
\* interleave: an unsettled request is awaited by the lookup that made it, and
\* the map has one entry per key.
THEOREM OneRequestAtATime == Spec => []OneRequestPerKey
<1>1. GeocoderInv => OneRequestPerKey
  <2> SUFFICES ASSUME GeocoderInv PROVE OneRequestPerKey
    OBVIOUS
  <2>1. ASSUME NEW q \in Lookups, NEW r \in Lookups, Unsettled(q), Unsettled(r), key[q] = key[r]
        PROVE  q = r
    <3>1. key[q] \in Keys
      BY <2>1 DEF GeocoderInv, TypeOK, OwnersAwait
    <3>2. inFlight[key[q]] = q /\ inFlight[key[q]] = r
      BY <2>1, <3>1 DEF GeocoderInv, OwnersAwait, EntriesHaveOwners
    <3> QED
      BY <3>2
  <2> QED
    BY <2>1 DEF OneRequestPerKey, GeocoderInv, EntriesHaveOwners
<1> QED
  BY <1>1, GeocoderInvariance, PTL

-----------------------------------------------------------------------------
(* The throttled server                                                    *)

LEMMA ServingOne ==
    ASSUME GeocoderInv
    PROVE  /\ \A r \in Lookups : Running(r) => Serving = r
           /\ (\A r \in Lookups : ~ Running(r)) => Serving = NoLookup
<1>1. \A q, r \in Lookups : Running(q) /\ Running(r) => q = r
  BY BegunIsHead DEF Running, Begun
<1> QED
  BY <1>1 DEF Serving

\* A step in which the running request changes changes what the server serves.
LEMMA ServingInNextState ==
    ASSUME GeocoderInv'
    PROVE  /\ \A r \in Lookups : Running(r)' => Serving' = r
           /\ (\A r \in Lookups : ~ Running(r)') => Serving' = NoLookup
<1>1. \A q, r \in Lookups : Running(q)' /\ Running(r)' => q = r
  BY DEF Running, Begun, GeocoderInv, OnlyHeadHasBegun
<1> QED
  BY <1>1 DEF Serving

LEMMA StartIsServerStart ==
    ASSUME GeocoderInv, GeocoderInv', NEW r \in Lookups,
           \A q \in Lookups : ~ Running(q),
           request' = [request EXCEPT ![r] = "fetching"],
           quiet = Interval, quiet' = 0
    PROVE  Server!Start(r)
<1>1. Serving = NoLookup
  BY ServingOne
<1>2. Running(r)'
  BY DEF Running, GeocoderInv, TypeOK
<1>3. Serving' = r
  BY <1>2, ServingInNextState
<1> QED
  BY <1>1, <1>3 DEF Server!Start

\* The requests do not change which of them is running.
LEMMA StillServing ==
    ASSUME \A r \in Lookups : Running(r)' <=> Running(r),
           GeocoderInv, GeocoderInv'
    PROVE  Serving' = Serving
<1>1. CASE \E r \in Lookups : Running(r)
  BY <1>1, ServingOne, ServingInNextState
<1>2. CASE \A r \in Lookups : ~ Running(r)
  BY <1>2, ServingOne, ServingInNextState
<1> QED
  BY <1>1, <1>2

LEMMA ServerStep ==
    ASSUME GeocoderInv, GeocoderInv', [Next]_vars
    PROVE  [Server!Next]_<<Serving, quiet>>
<1> USE GeocoderAssumption
<1>0. /\ delay \in 0 .. Interval /\ quiet \in 0 .. Interval
      /\ request \in [Lookups -> RequestSteps]
  BY DEF GeocoderInv, TypeOK
<1>1. ASSUME UNCHANGED <<request, quiet>> PROVE UNCHANGED <<Serving, quiet>>
  <2>1. \A r \in Lookups : Running(r)' <=> Running(r)
    BY <1>1 DEF Running
  <2> QED
    BY <1>1, <2>1, StillServing
<1>2. ASSUME NEW l \in Lookups, Enqueue(l) PROVE UNCHANGED <<Serving, quiet>>
  <2>1. request[l] = "none"
    BY <1>2 DEF Enqueue, GeocoderInv, OwnersAwait
  <2>2. \A r \in Lookups : Running(r)' <=> Running(r)
    BY <1>0, <1>2, <2>1 DEF Running, Enqueue
  <2> QED
    BY <1>2, <2>2, StillServing DEF Enqueue
<1>3. ASSUME NEW r \in Lookups, Begin(r) PROVE [Server!Next]_<<Serving, quiet>>
  <2>1. \A q \in Lookups : ~ Running(q)
    BY <1>3, BegunIsHead DEF Begin, Begun, Running, GeocoderInv, OnlyHeadHasBegun
  <2>2. CASE quiet = Interval /\ Goto(r, "fetching") /\ quiet' = 0
    BY <1>3, <2>1, <2>2, StartIsServerStart DEF Goto, Server!Next
  <2>3. CASE Goto(r, "delayed") /\ UNCHANGED quiet
    <3>1. \A q \in Lookups : Running(q)' <=> Running(q)
      BY <1>0, <1>3, <2>1, <2>3 DEF Goto, Running
    <3> QED
      BY <2>3, <3>1, StillServing
  <2> QED
    BY <1>3, <2>2, <2>3 DEF Begin
<1>4. ASSUME NEW r \in Lookups, DelayOver(r) PROVE Server!Next
  <2>1. \A q \in Lookups : ~ Running(q)
    BY <1>4, BegunIsHead DEF DelayOver, Begun, Running
  <2>2. delay + quiet = Interval
    BY <1>4 DEF DelayOver, GeocoderInv, DelayCompletesInterval
  <2>3. quiet = Interval
    BY <1>0, <1>4, <2>2 DEF DelayOver
  <2> QED
    BY <1>4, <2>1, <2>3, StartIsServerStart DEF DelayOver, Goto, Server!Next
<1>5. ASSUME NEW r \in Lookups, Running(r), \A q \in Lookups : ~ Running(q)', UNCHANGED quiet
      PROVE  Server!Next
  <2>1. Serving = r /\ Serving' = NoLookup
    BY <1>5, ServingOne, ServingInNextState
  <2> QED
    BY <1>5, <2>1 DEF Server!Next, Server!Finish
<1>6. ASSUME NEW r \in Lookups, NEW outcome \in FetchOutcomes, Fetched(r, outcome)
      PROVE  [Server!Next]_<<Serving, quiet>>
  <2>1. Running(r) /\ UNCHANGED quiet
    BY <1>6 DEF Fetched, Running
  <2>2. \A q \in Lookups \ {r} : ~ Running(q)
    BY <1>6, BegunIsHead DEF Fetched, Running, Begun
  <2>3. CASE outcome = "unavailable"
    <3>1. \A q \in Lookups : ~ Running(q)'
      BY <1>0, <1>6, <2>2, <2>3 DEF Fetched, Goto, Running
    <3> QED
      BY <1>5, <2>1, <3>1
  <2>4. CASE outcome # "unavailable"
    <3>1. \A q \in Lookups : Running(q)' <=> Running(q)
      BY <1>0, <1>6, <2>1, <2>4 DEF Fetched, Goto, Running
    <3> QED
      BY <2>1, <3>1, StillServing
  <2> QED
    BY <2>3, <2>4
<1>7. ASSUME NEW r \in Lookups, Stored(r) PROVE Server!Next
  <2>1. Running(r) /\ UNCHANGED quiet
    BY <1>7 DEF Stored, Running
  <2>2. \A q \in Lookups \ {r} : ~ Running(q)
    BY <1>7, BegunIsHead DEF Stored, Running, Begun
  <2>3. \A q \in Lookups : ~ Running(q)'
    BY <1>0, <1>7, <2>2 DEF Stored, Goto, Running
  <2> QED
    BY <1>5, <2>1, <2>3
<1>8. CASE Tick
  <2>1. Serving' = Serving
    BY <1>8, StillServing DEF Tick, Running
  <2>2. CASE quiet < Interval
    BY <1>8, <2>1, <2>2 DEF Tick, Server!Next, Server!Tick
  <2>3. CASE ~ quiet < Interval
    BY <1>8, <2>1, <2>3 DEF Tick
  <2> QED
    BY <2>2, <2>3
<1>9. ASSUME LookupMoves \/ UNCHANGED vars PROVE UNCHANGED <<request, quiet>>
  BY <1>9 DEF LookupMoves, Look, ReadCache, AnswerFromCache, Join, Return, Expire, Await, vars
<1> QED
  BY <1>1, <1>2, <1>3, <1>4, <1>6, <1>7, <1>8, <1>9
     DEF Next, LookupStep, RequestStep, LookupMoves

\* To the services the geocoder is a client that has one request in progress
\* and leaves the interval between two starts, for any number of lookups.
THEOREM ThrottlesServices == Spec => ThrottleSpec
<1>1. Init => Server!Init
  <2> SUFFICES ASSUME Init PROVE Server!Init
    OBVIOUS
  <2>1. \A r \in Lookups : ~ Running(r)
    BY DEF Init, Running
  <2>2. Serving = NoLookup
    BY <2>1, GeocoderInvInit, ServingOne
  <2> QED
    BY <2>2 DEF Init, Server!Init
<1>2. GeocoderInv /\ GeocoderInv' /\ [Next]_vars => [Server!Next]_<<Serving, quiet>>
  BY ServerStep
<1> QED
  BY <1>1, <1>2, GeocoderInvariance, PTL DEF Spec, ThrottleSpec, Server!Spec
=============================================================================
