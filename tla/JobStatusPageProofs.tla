------------------------ MODULE JobStatusPageProofs ------------------------
(***************************************************************************)
(* Proofs about the pages of the frontend, for any number of stops,        *)
(* inputs, jobs and answers under way.                                     *)
(***************************************************************************)
EXTENDS JobStatusPage, SequenceTheorems, TLAPS

(***************************************************************************)
(* The request that is being answered is the one on the page, unless an    *)
(* edit has taken that back; only an open page asks for anything.  Without *)
(* the second fact a saved route could come between a request and its      *)
(* answer.                                                                 *)
(***************************************************************************)
Asked == submission.stage \in {"queueing", "sent"}

PageInv ==
    /\ RouteAnswersRequest
    /\ Asked => submitted \in {NoRequest, submission.request}
    /\ page # "builder" => submission.stage = "idle"
    /\ opening # NoJob => page = "jobs"

\* Edits take the request back and with it what was found for it.
LEMMA EditsInvalidate ==
    ASSUME PageInv, InvalidateRoute, submission' = submission,
           page' = page, opening' = opening
    PROVE  PageInv'
  BY DEF PageInv, RouteAnswersRequest, Drawn, Asked, InvalidateRoute

\* Steps that leave the request and its result alone.
LEMMA SameRoute ==
    ASSUME PageInv, submitted' = submitted, result' = result, submission' = submission,
           page' = page, opening' = opening
    PROVE  PageInv'
  BY DEF PageInv, RouteAnswersRequest, Drawn, Asked

\* Steps that end what was asked for, on whatever page.
LEMMA NothingAsked ==
    ASSUME PageInv, submitted' = submitted, result' = result, submission'.stage = "idle",
           opening' # NoJob => page' = "jobs"
    PROVE  PageInv'
  BY DEF PageInv, RouteAnswersRequest, Drawn, Asked

\* A request is sent, or waits for the places of its stops.
LEMMA Sends ==
    ASSUME PageInv, NEW taken, NEW found, SendWhenComplete(taken, found),
           page = "builder", page' = page, opening' = opening
    PROVE  PageInv'
<1>1. CASE submitted' = submission'.request /\ result' = NoRequest
  BY <1>1 DEF PageInv, RouteAnswersRequest, Drawn, Asked
<1>2. CASE submitted' = submitted /\ result' = result /\ submission'.stage = "resolving"
  BY <1>2 DEF PageInv, RouteAnswersRequest, Drawn, Asked
<1> QED
  BY <1>1, <1>2 DEF SendWhenComplete, BeginRequest, Idle

LEMMA PageInvInit == Init => PageInv
  BY DEF Init, BuilderInit, PageInv, RouteAnswersRequest, Drawn, Asked, Idle

\* The user's inputs on the builder page.
LEMMA InputsKeepPageInv ==
    ASSUME PageInv, BuilderInput, UNCHANGED <<jobs, jobPage>>
    PROVE  PageInv'
<1> USE DEF Input, jobPage
<1>1. CASE AddStop
  <2>1. submission' = submission /\ page' = page /\ opening' = opening
    BY <1>1 DEF AddStop, pageState
  <2>2. InvalidateRoute \/ (submitted' = submitted /\ result' = result)
    BY <1>1 DEF AddStop, AppendStop
  <2> QED
    BY <2>1, <2>2, EditsInvalidate, SameRoute
<1>2. ASSUME NEW id \in Ids, RemoveStop(id) PROVE PageInv'
  BY <1>2, EditsInvalidate DEF RemoveStop, pageState
<1>3. ASSUME NEW id \in Ids, NEW mode \in {"coordinates", "address"}, SetInputMode(id, mode)
      PROVE  PageInv'
  BY <1>3, EditsInvalidate DEF SetInputMode, Edit, pageState
<1>4. ASSUME NEW id \in Ids, NEW place \in Places \cup {NoPlace}, UpdateCoordinate(id, place)
      PROVE  PageInv'
  BY <1>4, EditsInvalidate DEF UpdateCoordinate, Edit, pageState
<1>5. ASSUME NEW id \in Ids, NEW address \in Addresses \cup {NoAddress},
             UpdateAddress(id, address)
      PROVE  PageInv'
  BY <1>5, EditsInvalidate DEF UpdateAddress, Edit, pageState
<1>6. ASSUME NEW id \in Ids, NEW place \in Places, NEW name \in Addresses,
             SelectSuggestion(id, place, name)
      PROVE  PageInv'
  BY <1>6, EditsInvalidate DEF SelectSuggestion, SetResolved, Edit, pageState
<1>7. ASSUME NEW choice \in BOOLEAN, SetBackgroundProcessing(choice) PROVE PageInv'
  BY <1>7, SameRoute DEF SetBackgroundProcessing, routeState
<1>8. ASSUME NEW id \in Ids, Find(id) PROVE PageInv'
  BY <1>8, SameRoute DEF Find, SearchAddress, routeState, pageState
<1>9. ASSUME NEW place \in Places, MapClick(place) PROVE PageInv'
  BY <1>9, SameRoute DEF MapClick, routeState
<1>10. CASE Submit
  <2>1. page = "builder" /\ page' = page /\ opening' = opening
    BY <1>10 DEF Submit
  <2>2. CASE SendWhenComplete(drafts, <<>>)
    BY <2>1, <2>2, Sends
  <2>3. CASE submitted' = submitted /\ result' = result /\ submission' = submission
    BY <2>1, <2>3, SameRoute
  <2> QED
    BY <1>10, <2>2, <2>3 DEF Submit
<1> QED
  BY <1>1, <1>2, <1>3, <1>4, <1>5, <1>6, <1>7, <1>8, <1>9, <1>10 DEF BuilderInput

\* What comes to the builder page from outside.
LEMMA EventsKeepPageInv ==
    ASSUME PageInv, SearchEvent \/ SubmissionEvent \/ MapEvent \/ LeaveBuilder,
           UNCHANGED <<jobs, jobPage>>
    PROVE  PageInv'
<1> USE DEF Input, jobPage
<1>1. ASSUME NEW id \in Ids, TimerFires(id) PROVE PageInv'
  BY <1>1, SameRoute DEF TimerFires, SearchAddress, routeState, pageState
<1>2. ASSUME NEW k \in DOMAIN searches, NEW some \in BOOLEAN, SearchAnswered(k, some)
      PROVE  PageInv'
  BY <1>2, SameRoute DEF SearchAnswered, routeState, pageState
<1>3. ASSUME NEW k \in DOMAIN searches, SearchFailed(k) PROVE PageInv'
  BY <1>3, SameRoute DEF SearchFailed, routeState, pageState
<1>4. ASSUME NEW name, MapPointResolved(name) PROVE PageInv'
  <2>1. submission' = submission /\ page' = page /\ opening' = opening
    BY <1>4 DEF MapPointResolved
  <2>2. InvalidateRoute \/ (submitted' = submitted /\ result' = result)
    BY <1>4 DEF MapPointResolved, AppendStop
  <2> QED
    BY <2>1, <2>2, EditsInvalidate, SameRoute
<1>5. ASSUME NEW k \in DOMAIN submission.drafts, NEW place \in Places, NEW name \in Addresses,
             Geocoded(k, place, name)
      PROVE  PageInv'
  <2>1. page = "builder"
    BY <1>5 DEF Geocoded, PageInv
  <2> QED
    BY <1>5, <2>1, Sends DEF Geocoded
<1>6. CASE SubmissionFailed
  <2>1. submission'.stage = "idle" /\ submitted' = submitted /\ result' = result
    BY <1>6 DEF SubmissionFailed, Asked, Idle
  <2> QED
    BY <1>6, <2>1, NothingAsked DEF SubmissionFailed, PageInv
<1>7. CASE RouteAnswered
  <2>1. /\ submitted' \in {NoRequest, submission.request}
        /\ result'.request = submission.request
        /\ submission'.stage = "idle"
    BY <1>7 DEF RouteAnswered, PageInv, Asked, Idle
  <2> QED
    BY <1>7, <2>1 DEF RouteAnswered, PageInv, RouteAnswersRequest, Drawn, Asked
<1>8. CASE LeaveBuilder
  BY <1>8, NothingAsked DEF LeaveBuilder, routeState, NewPage, Asked, Idle
<1> QED
  BY <1>1, <1>2, <1>3, <1>4, <1>5, <1>6, <1>7, <1>8 DEF SearchEvent, SubmissionEvent, MapEvent

LEMMA PageInvStep == PageInv /\ [Next]_vars => PageInv'
<1> SUFFICES ASSUME PageInv, [Next]_vars PROVE PageInv'
  OBVIOUS
<1>1. CASE (BuilderInput \/ SearchEvent \/ SubmissionEvent \/ MapEvent \/ LeaveBuilder)
           /\ UNCHANGED <<jobs, jobPage>>
  BY <1>1, InputsKeepPageInv, EventsKeepPageInv
<1>2. ASSUME NEW j \in JobIds, JobQueued(j) PROVE PageInv'
  <2>1. result'.kind = "job" /\ submission'.stage = "idle" /\ page' = "jobs"
    BY <1>2 DEF JobQueued, JobAnswered, NewPage, Asked, Idle
  <2> QED
    BY <2>1 DEF PageInv, RouteAnswersRequest, Drawn, Asked
<1>3. ASSUME NEW j \in JobIds, JobMoves(j) PROVE PageInv'
  BY <1>3, SameRoute DEF JobMoves, builderVars, routeState, pageState, jobPage
<1>11. ASSUME NEW j \in JobIds, JobRepeats(j) PROVE PageInv'
  BY <1>11, SameRoute DEF JobRepeats, builderVars, routeState, pageState, jobPage
<1>4. ASSUME NEW j \in JobIds, LookUp(j) PROVE PageInv'
  BY <1>4, SameRoute DEF LookUp, routeState, pageState
<1>5. ASSUME NEW j \in JobIds, OpenRoute(j) PROVE PageInv'
  <2>1. page' = "jobs" /\ page = "jobs"
    BY <1>5 DEF OpenRoute
  <2>2. submission'.stage = "idle" /\ submitted' = submitted /\ result' = result
    BY <1>5, <2>1 DEF OpenRoute, PageInv, Asked, routeState, pageState
  <2> QED
    BY <2>1, <2>2, NothingAsked
<1>6. ASSUME NEW k \in DOMAIN polls, PollEvent(k) PROVE PageInv'
  <2>1. UNCHANGED builderVars /\ opening' = opening
    BY <1>6 DEF PollEvent, PollRead, PollAnswered, PollFailed, PollAgain
  <2> QED
    BY <2>1, SameRoute DEF builderVars, routeState, pageState
<1>7. CASE RouteOpened
  <2>1. page = "jobs" /\ submission'.stage = "idle" /\ opening' = NoJob
    BY <1>7 DEF RouteOpened, PageInv, Asked, pageState, ClosePage
  <2>2. result'.request = submitted'
    BY <1>7 DEF RouteOpened, LoadSavedRoute
  <2> QED
    BY <2>1, <2>2 DEF PageInv, RouteAnswersRequest, Drawn, Asked
<1>8. CASE OpeningFailed
  BY <1>8, NothingAsked, SameRoute DEF OpeningFailed, builderVars, routeState, pageState, PageInv, Asked
<1>9. CASE LeaveJobs
  <2>1. submission'.stage = "idle" /\ opening' = NoJob /\ submitted' = submitted /\ result' = result
    BY <1>9 DEF LeaveJobs, PageInv, Asked, pageState, routeState, ClosePage
  <2> QED
    BY <2>1, NothingAsked
<1>10. CASE UNCHANGED vars
  BY <1>10, SameRoute DEF vars, builderVars, routeState, pageState, jobPage
<1> QED
  BY <1>1, <1>2, <1>3, <1>4, <1>5, <1>6, <1>7, <1>8, <1>9, <1>10, <1>11 DEF Next

\* The map never draws a route that answers another request than the one
\* whose stops label it.
THEOREM DrawnRoutesAnswer == Spec => []RouteAnswersRequest
<1>1. PageInv => RouteAnswersRequest
  BY DEF PageInv
<1> QED
  BY <1>1, PageInvInit, PageInvStep, PTL DEF Spec

-----------------------------------------------------------------------------
(***************************************************************************)
(* The drafts are a list within the limit, numbered once.  Whatever may    *)
(* become a request, a submission that waits, one that was sent, a job and *)
(* its saved route, was such a list when it was taken.                     *)
(***************************************************************************)
Bounded(s) == s = [k \in 1 .. Len(s) |-> s[k]] /\ Len(s) \in 1 .. MaxStops + 1

IdsOf(list) == {list[k].id : k \in DOMAIN list}

Numbered(list, next) ==
    /\ Bounded(list)
    /\ \A k \in DOMAIN list : "id" \in DOMAIN list[k] /\ list[k].id \in 0 .. next - 1
    /\ list[1].id = 0
    /\ \A j, k \in DOMAIN list : list[j].id = list[k].id => j = k

DraftsInv == nextStopId \in Nat /\ Numbered(drafts, nextStopId)

FormInv ==
    /\ timers \subseteq Ids /\ DOMAIN suggestions \subseteq Ids
    /\ page # "builder" => /\ searches = <<>> /\ submission = Idle /\ click = NoPlace
                           /\ timers = {} /\ DOMAIN suggestions = {}

SubmissionInv ==
    /\ submission # Idle => loading
    /\ submission.stage = "resolving" => Bounded(submission.drafts)
    /\ submission.stage \in {"queueing", "sent"} => Bounded(submission.request)

JobsInv ==
    /\ DOMAIN jobs = JobIds
    /\ \A j \in JobIds : /\ {"status", "request", "saved", "repeats"} \subseteq DOMAIN jobs[j]
                         /\ jobs[j].status # "absent" \/ jobs[j].saved => Bounded(jobs[j].request)
    /\ page # "jobs" => polls = <<>> /\ ~ watching /\ opening = NoJob
    /\ opening \in JobIds \cup {NoJob}

PagesInv == DraftsInv /\ FormInv /\ SubmissionInv /\ JobsInv

LEMMA ListIsBounded ==
    ASSUME NEW n \in 1 .. MaxStops + 1, NEW s, s = [k \in 1 .. n |-> s[k]]
    PROVE  Bounded(s) /\ Len(s) = n
<1> DEFINE T == {s[k] : k \in 1 .. n}
<1>1. s \in [1 .. n -> T] /\ n \in Nat
  BY BuilderAssumption
<1>2. s \in Seq(T)
  BY <1>1, SeqDef
<1>3. Len(s) \in Nat /\ 1 .. Len(s) = 1 .. n
  BY <1>1, <1>2, LenProperties
<1>4. Len(s) = n
  <2>1. n \in 1 .. Len(s)
    BY <1>3
  <2>2. Len(s) >= 1
    BY <2>1, <1>3
  <2>3. Len(s) \in 1 .. n
    BY <1>3, <2>2
  <2> QED
    BY <2>1, <2>3, <1>3
<1> QED
  BY <1>4 DEF Bounded

LEMMA ListIsSequence ==
    ASSUME NEW s, Bounded(s)
    PROVE  /\ Len(s) \in Nat /\ Len(s) \in 1 .. MaxStops + 1 /\ DOMAIN s = 1 .. Len(s)
           /\ s \in Seq({s[k] : k \in 1 .. Len(s)})
<1> DEFINE T == {s[k] : k \in 1 .. Len(s)}
<1>1. s = [k \in 1 .. Len(s) |-> s[k]] /\ Len(s) \in 1 .. MaxStops + 1
  BY DEF Bounded
<1>2. Len(s) \in Nat /\ DOMAIN s = 1 .. Len(s)
  BY <1>1, BuilderAssumption
<1>3. s \in [1 .. Len(s) -> T]
  BY <1>1
<1> QED
  BY <1>1, <1>2, <1>3, SeqDef

\* What changes the fields of drafts leaves them numbered.
LEMMA SameNumbers ==
    ASSUME NEW next, NEW list, Numbered(list, next), NEW s, s = [k \in DOMAIN list |-> s[k]],
           \A k \in DOMAIN list : "id" \in DOMAIN s[k] /\ s[k].id = list[k].id
    PROVE  Numbered(s, next) /\ IdsOf(s) = IdsOf(list)
<1>1. Len(list) \in 1 .. MaxStops + 1 /\ DOMAIN list = 1 .. Len(list)
  BY ListIsSequence DEF Numbered
<1>2. Bounded(s) /\ DOMAIN s = DOMAIN list
  BY <1>1, ListIsBounded
<1>3. 1 \in DOMAIN list
  BY <1>1
<1> QED
  BY <1>2, <1>3 DEF Numbered, IdsOf

LEMMA NextNumber ==
    ASSUME NEW next \in Nat, NEW list, Numbered(list, next), Len(list) <= MaxStops,
           NEW e, "id" \in DOMAIN e, e.id = next
    PROVE  Numbered(Append(list, e), next + 1) /\ IdsOf(list) \subseteq IdsOf(Append(list, e))
<1> DEFINE S == {list[k] : k \in 1 .. Len(list)} \cup {e}
           n == Len(list)
           s == Append(list, e)
<1>1. /\ n \in Nat /\ n \in 1 .. MaxStops + 1 /\ DOMAIN list = 1 .. n
      /\ list = [k \in 1 .. n |-> list[k]]
  BY ListIsSequence DEF Numbered, Bounded
<1>2. list \in Seq(S)
  <2>1. list \in [1 .. n -> S]
    BY <1>1
  <2> QED
    BY <1>1, <2>1, SeqDef
<1>3. /\ s \in Seq(S) /\ Len(s) = n + 1
      /\ \A i \in 1 .. n : s[i] = list[i]
      /\ s[n + 1] = e
  BY <1>2, AppendProperties
<1>4. s = [k \in 1 .. n + 1 |-> s[k]] /\ DOMAIN s = 1 .. n + 1
  BY <1>3, LenProperties
<1>5. Bounded(s)
  BY <1>1, <1>3, <1>4, BuilderAssumption DEF Bounded
<1> HIDE DEF s, S
<1>6. \A k \in DOMAIN s : k \in 1 .. n \/ k = n + 1
  BY <1>1, <1>4
<1>7. \A k \in 1 .. n : s[k].id = list[k].id /\ "id" \in DOMAIN s[k] /\ list[k].id \in 0 .. next - 1
  BY <1>1, <1>3 DEF Numbered
<1>8. \A k \in DOMAIN s : "id" \in DOMAIN s[k] /\ s[k].id \in 0 .. (next + 1) - 1
  BY <1>3, <1>6, <1>7
<1>9. s[1].id = 0
  BY <1>1, <1>7 DEF Numbered
<1>10. ASSUME NEW j \in DOMAIN s, NEW k \in DOMAIN s, s[j].id = s[k].id PROVE j = k
  <2>1. CASE j \in 1 .. n /\ k \in 1 .. n
    BY <2>1, <1>1, <1>7, <1>10 DEF Numbered
  <2>2. CASE j = n + 1 /\ k = n + 1
    BY <2>2
  <2>3. CASE j \in 1 .. n /\ k = n + 1
    BY <2>3, <1>3, <1>7, <1>10
  <2>4. CASE j = n + 1 /\ k \in 1 .. n
    BY <2>4, <1>3, <1>7, <1>10
  <2> QED
    BY <1>6, <2>1, <2>2, <2>3, <2>4
<1>11. IdsOf(list) \subseteq IdsOf(s)
  BY <1>1, <1>4, <1>7 DEF IdsOf
<1> QED
  BY <1>5, <1>8, <1>9, <1>10, <1>11 DEF Numbered, s

LEMMA FewerNumbers ==
    ASSUME NEW next, NEW list, Numbered(list, next), NEW k \in DOMAIN list, list[k].id # 0
    PROVE  /\ Numbered(RemoveAt(list, k), next)
           /\ IdsOf(list) \ {list[k].id} \subseteq IdsOf(RemoveAt(list, k))
<1> DEFINE n == Len(list)
           S == {list[j] : j \in 1 .. n}
           a == SubSeq(list, 1, k - 1)
           b == SubSeq(list, k + 1, n)
           s == RemoveAt(list, k)
           of(i) == IF i < k THEN i ELSE i + 1
<1>1. n \in Nat /\ n \in 1 .. MaxStops + 1 /\ DOMAIN list = 1 .. n
  BY ListIsSequence DEF Numbered
<1>2. k \in 1 .. n /\ k # 1
  BY <1>1 DEF Numbered
<1>3. /\ a \in Seq(S) /\ Len(a) = k - 1
      /\ \A i \in 1 .. k - 1 : a[i] = list[i]
  <2>1. \A i \in 1 .. k - 1 : list[i] \in S
    BY <1>1, <1>2
  <2>2. 1 \in Int /\ k - 1 \in Int
    BY <1>1, <1>2
  <2> HIDE DEF S
  <2>3. /\ a \in Seq(S) /\ Len(a) = IF 1 <= k - 1 THEN k - 1 - 1 + 1 ELSE 0
        /\ \A i \in 1 .. k - 1 - 1 + 1 : a[i] = list[1 + i - 1]
    BY <2>1, <2>2, SubSeqProperties
  <2> HIDE DEF a, n
  <2> QED
    BY <1>1, <1>2, <2>3
<1>4. /\ b \in Seq(S) /\ Len(b) = n - k
      /\ \A i \in 1 .. n - k : b[i] = list[k + i]
  <2>1. \A i \in k + 1 .. n : list[i] \in S
    BY <1>1, <1>2
  <2>2. k + 1 \in Int /\ n \in Int
    BY <1>1, <1>2
  <2> HIDE DEF S
  <2>3. /\ b \in Seq(S) /\ Len(b) = IF k + 1 <= n THEN n - (k + 1) + 1 ELSE 0
        /\ \A i \in 1 .. n - (k + 1) + 1 : b[i] = list[(k + 1) + i - 1]
    BY <2>1, <2>2, SubSeqProperties
  <2> HIDE DEF b, n
  <2>4. n - (k + 1) + 1 = n - k /\ Len(b) = n - k
    BY <1>1, <1>2, <2>3
  <2>5. \A i \in 1 .. n - k : (k + 1) + i - 1 = k + i
    BY <1>1, <1>2
  <2> QED
    BY <2>3, <2>4, <2>5
<1>5. s = a \o b
  BY DEF RemoveAt
<1>6. /\ s \in Seq(S) /\ Len(s) = n - 1
      /\ \A i \in 1 .. n - 1 : s[i] = list[of(i)]
  <2> HIDE DEF a, b, S, s
  <2>1. /\ s \in Seq(S) /\ Len(s) = Len(a) + Len(b)
        /\ \A i \in 1 .. Len(a) + Len(b) : s[i] = IF i <= Len(a) THEN a[i] ELSE b[i - Len(a)]
    BY <1>3, <1>4, <1>5, ConcatProperties
  <2> HIDE DEF n
  <2>2. Len(s) = n - 1
    BY <1>1, <1>2, <1>3, <1>4, <2>1
  <2>3. ASSUME NEW i \in 1 .. n - 1 PROVE s[i] = list[of(i)]
    <3>1. s[i] = IF i <= k - 1 THEN a[i] ELSE b[i - (k - 1)]
      <4>1. i \in 1 .. Len(a) + Len(b)
        BY <1>1, <1>2, <1>3, <1>4
      <4> QED
        BY <1>3, <2>1, <4>1
    <3>2. CASE i <= k - 1
      BY <1>1, <1>2, <1>3, <3>1, <3>2
    <3>3. CASE ~ (i <= k - 1)
      <4>1. i - (k - 1) \in 1 .. n - k /\ k + (i - (k - 1)) = i + 1
        BY <1>1, <1>2, <3>3
      <4>2. b[i - (k - 1)] = list[i + 1]
        BY <1>4, <4>1
      <4> QED
        BY <1>1, <1>2, <3>1, <3>3, <4>2
    <3> QED
      BY <3>2, <3>3
  <2> QED
    BY <2>1, <2>2, <2>3
<1>7. s = [i \in 1 .. n - 1 |-> s[i]] /\ DOMAIN s = 1 .. n - 1
  BY <1>6, LenProperties
<1>8. Bounded(s)
  BY <1>1, <1>2, <1>6, <1>7, BuilderAssumption DEF Bounded
<1> HIDE DEF s, a, b, S
<1>9. \A i \in 1 .. n - 1 : of(i) \in 1 .. n
  BY <1>1, <1>2
<1>10. 1 \in DOMAIN s /\ of(1) = 1
  BY <1>1, <1>2, <1>7
<1>11. \A i, j \in 1 .. n - 1 : of(i) = of(j) => i = j
  BY <1>1, <1>2
<1>12. \A j \in 1 .. n : j # k => \E i \in 1 .. n - 1 : of(i) = j
  <2> SUFFICES ASSUME NEW j \in 1 .. n, j # k PROVE \E i \in 1 .. n - 1 : of(i) = j
    OBVIOUS
  <2>1. CASE j < k
    BY <1>1, <1>2, <2>1
  <2>2. CASE j > k
    <3>1. j - 1 \in 1 .. n - 1 /\ of(j - 1) = j
      BY <1>1, <1>2, <2>2
    <3> QED
      BY <3>1
  <2> QED
    BY <1>1, <1>2, <2>1, <2>2
<1> HIDE DEF of, n
<1>13. \A i \in DOMAIN s : s[i] = list[of(i)] /\ of(i) \in DOMAIN list
  BY <1>1, <1>6, <1>7, <1>9
<1>14. s[1].id = 0
  BY <1>10, <1>13 DEF Numbered
<1>15. \A i \in DOMAIN s : "id" \in DOMAIN s[i] /\ s[i].id \in 0 .. next - 1
  BY <1>13 DEF Numbered
<1>16. \A i, j \in DOMAIN s : s[i].id = s[j].id => i = j
  BY <1>7, <1>11, <1>13 DEF Numbered
<1>17. IdsOf(list) \ {list[k].id} \subseteq IdsOf(s)
  <2> SUFFICES ASSUME NEW j \in DOMAIN list, list[j].id # list[k].id
               PROVE  list[j].id \in IdsOf(s)
    BY DEF IdsOf
  <2>1. PICK i \in 1 .. n - 1 : of(i) = j
    BY <1>1, <1>12
  <2> QED
    BY <1>7, <1>13, <2>1 DEF IdsOf
<1> QED
  BY <1>8, <1>14, <1>15, <1>16, <1>17 DEF Numbered, s

LEMMA PagesInvTyped == PagesInv => JobPageTypeOK
<1> SUFFICES ASSUME PagesInv PROVE JobPageTypeOK
  OBVIOUS
<1>1. StopCount <= MaxStops
  <2>1. Len(drafts) \in 1 .. MaxStops + 1
    BY ListIsSequence DEF PagesInv, DraftsInv, Numbered
  <2> QED
    BY <2>1, BuilderAssumption DEF StopCount
<1>2. \A id \in Ids : id < nextStopId
  BY DEF PagesInv, DraftsInv, Numbered, Ids
<1> QED
  BY <1>1, <1>2 DEF PagesInv, DraftsInv, Numbered, FormInv, SubmissionInv, JobsInv,
                    JobPageTypeOK, BuilderTypeOK

LEMMA PagesInvInit == Init => PagesInv
<1> SUFFICES ASSUME Init PROVE PagesInv
  OBVIOUS
<1>1. PICK home : drafts = [k \in 1 .. MinStops + 1 |->
                               Draft(k - 1, "coordinates", home, NoAddress, NoAddress)]
  <2> DEFINE home == CHOOSE place \in Places : TRUE
  <2>1. drafts = [k \in 1 .. MinStops + 1 |-> Draft(k - 1, "coordinates", home, NoAddress, NoAddress)]
    BY DEF Init, BuilderInit
  <2> HIDE DEF home
  <2> QED
    BY <2>1
<1>2. nextStopId = MinStops + 1 /\ MinStops + 1 \in 1 .. MaxStops + 1
  BY BuilderAssumption DEF Init, BuilderInit
<1>3. Bounded(drafts)
  BY <1>1, <1>2, ListIsBounded
<1>4. /\ DOMAIN drafts = 1 .. MinStops + 1
      /\ \A k \in DOMAIN drafts : "id" \in DOMAIN drafts[k] /\ drafts[k].id = k - 1
  BY <1>1 DEF Draft
<1>5. DraftsInv
  BY <1>2, <1>3, <1>4, BuilderAssumption DEF DraftsInv, Numbered
<1>6. FormInv /\ SubmissionInv
  BY DEF Init, BuilderInit, FormInv, SubmissionInv, Idle
<1>7. JobsInv
  BY DEF Init, BuilderInit, JobsInv, Job
<1> QED
  BY <1>5, <1>6, <1>7 DEF PagesInv

-----------------------------------------------------------------------------
(* What becomes of the drafts                                              *)

LEMMA EditsKeepNumbers ==
    ASSUME DraftsInv, NEW draft, "id" \in DOMAIN draft, Edit(draft), nextStopId' = nextStopId
    PROVE  DraftsInv' /\ Ids' = Ids
<1>1. drafts' = [k \in DOMAIN drafts |-> IF drafts[k].id = draft.id THEN draft ELSE drafts[k]]
  BY DEF Edit
<1>2. \A k \in DOMAIN drafts : "id" \in DOMAIN drafts[k]
  BY DEF DraftsInv, Numbered
<1>3. /\ drafts' = [k \in DOMAIN drafts |-> drafts'[k]]
      /\ \A k \in DOMAIN drafts : "id" \in DOMAIN drafts'[k] /\ drafts'[k].id = drafts[k].id
  BY <1>1, <1>2
<1> QED
  BY <1>3, SameNumbers DEF DraftsInv, Ids, IdsOf

LEMMA DraftsHaveIds ==
    ASSUME DraftsInv, NEW id \in Ids
    PROVE  "id" \in DOMAIN DraftOf(id)
<1>1. \E k \in DOMAIN drafts : drafts[k].id = id
  BY DEF Ids
<1>2. \A k \in DOMAIN drafts : "id" \in DOMAIN drafts[k]
  BY DEF DraftsInv, Numbered
<1> QED
  BY <1>1, <1>2 DEF DraftOf

LEMMA AppendKeepsNumbers ==
    ASSUME DraftsInv, NEW mode, NEW place, NEW address, AppendStop(mode, place, address)
    PROVE  DraftsInv' /\ Ids \subseteq Ids'
<1>1. CASE StopCount >= MaxStops
  BY <1>1 DEF AppendStop, DraftsInv, Numbered, Bounded, Ids
<1>2. CASE ~ (StopCount >= MaxStops)
  <2> DEFINE e == Draft(nextStopId, mode, place, address, address)
  <2>1. drafts' = Append(drafts, e) /\ nextStopId' = nextStopId + 1
    BY <1>2 DEF AppendStop
  <2>2. Len(drafts) <= MaxStops
    BY <1>2, ListIsSequence, BuilderAssumption DEF DraftsInv, Numbered, StopCount
  <2>3. "id" \in DOMAIN e /\ e.id = nextStopId
    BY DEF Draft
  <2> HIDE DEF e
  <2>4. Numbered(drafts', nextStopId') /\ IdsOf(drafts) \subseteq IdsOf(drafts')
    BY <2>1, <2>2, <2>3, NextNumber DEF DraftsInv
  <2> QED
    BY <2>1, <2>4 DEF DraftsInv, Ids, IdsOf
<1> QED
  BY <1>1, <1>2

LEMMA RemovalKeepsNumbers ==
    ASSUME DraftsInv, NEW id \in Ids, RemoveStop(id)
    PROVE  DraftsInv' /\ Ids \ {id} \subseteq Ids'
<1>1. PICK k \in DOMAIN drafts : drafts[k].id = id /\ drafts' = RemoveAt(drafts, k)
  BY DEF RemoveStop
<1>2. id # 0 /\ nextStopId' = nextStopId
  BY DEF RemoveStop
<1> QED
  BY <1>1, <1>2, FewerNumbers DEF DraftsInv, Ids, IdsOf

\* What a submission takes was on the page; its request is as long as that.
LEMMA SendingKeepsNumbers ==
    ASSUME DraftsInv, NEW taken, NEW found, Bounded(taken), SendWhenComplete(taken, found),
           nextStopId' = nextStopId
    PROVE  DraftsInv' /\ Ids' = Ids /\ SubmissionInv'
<1>1. CASE \A k \in DOMAIN taken : IsResolved(taken[k]) \/ k \in DOMAIN found
  <2> DEFINE request == [k \in DOMAIN taken |->
                            IF k \in DOMAIN found THEN found[k].place ELSE taken[k].place]
             at(d) == {k \in DOMAIN found : taken[k].id = d.id}
             with(d) == found[CHOOSE k \in at(d) : TRUE]
             Place(d) == IF at(d) = {} THEN d
                         ELSE [d EXCEPT !.place = with(d).place, !.address = with(d).name,
                                        !.resolved = with(d).name]
  <2>1. /\ drafts' = [k \in DOMAIN drafts |-> Place(drafts[k])]
        /\ BeginRequest(request)
        /\ submission' = [Idle EXCEPT !.stage = IF MayBeQueued(request) THEN "queueing" ELSE "sent",
                                      !.request = request]
    BY <1>1 DEF SendWhenComplete
  <2>2. \A k \in DOMAIN drafts : "id" \in DOMAIN drafts[k]
    BY DEF DraftsInv, Numbered
  <2>3. /\ drafts' = [k \in DOMAIN drafts |-> drafts'[k]]
        /\ \A k \in DOMAIN drafts : "id" \in DOMAIN drafts'[k] /\ drafts'[k].id = drafts[k].id
    BY <2>1, <2>2
  <2>4. DOMAIN taken = 1 .. Len(taken) /\ Len(taken) \in 1 .. MaxStops + 1
    BY ListIsSequence
  <2>5. Bounded(request)
    BY <2>4, ListIsBounded
  <2> HIDE DEF request, Place
  <2>6. submission'.stage \in {"queueing", "sent"} /\ submission'.request = request
    BY <2>1 DEF Idle
  <2>7. SubmissionInv'
    BY <2>1, <2>5, <2>6 DEF SubmissionInv, BeginRequest, Bounded
  <2> QED
    BY <2>3, <2>7, SameNumbers DEF DraftsInv, Ids, IdsOf
<1>2. CASE ~ \A k \in DOMAIN taken : IsResolved(taken[k]) \/ k \in DOMAIN found
  <2>1. /\ submission' = [Idle EXCEPT !.stage = "resolving", !.drafts = taken, !.found = found]
        /\ loading' = TRUE /\ drafts' = drafts
    BY <1>2 DEF SendWhenComplete
  <2>2. submission'.stage = "resolving" /\ submission'.drafts = taken
    BY <2>1 DEF Idle
  <2>3. SubmissionInv'
    BY <2>1, <2>2 DEF SubmissionInv, Bounded
  <2> QED
    BY <2>1, <2>3 DEF DraftsInv, Numbered, Bounded, Ids
<1> QED
  BY <1>1, <1>2

-----------------------------------------------------------------------------
(* What leaves parts of the state alone                                    *)

LEMMA DraftsUntouched ==
    ASSUME DraftsInv, drafts' = drafts, nextStopId' = nextStopId
    PROVE  DraftsInv' /\ Ids' = Ids
  BY DEF DraftsInv, Numbered, Bounded, Ids

LEMMA SubmissionUntouched ==
    ASSUME SubmissionInv, submission' = submission, loading' = loading
    PROVE  SubmissionInv'
  BY DEF SubmissionInv, Bounded

LEMMA SubmissionEnds ==
    ASSUME submission' = Idle
    PROVE  SubmissionInv'
  BY DEF SubmissionInv, Idle

LEMMA JobsUntouched ==
    ASSUME JobsInv, UNCHANGED <<jobs, jobPage>>, page' = page \/ page' = "jobs"
    PROVE  JobsInv'
  BY DEF JobsInv, jobPage, Bounded

LEMMA Forgets ==
    ASSUME NEW ids, Forget(ids)
    PROVE  DOMAIN suggestions' = DOMAIN suggestions \ ids
  BY DEF Forget, Restrict

LEMMA Suggests ==
    ASSUME NEW s, Suggest(s)
    PROVE  DOMAIN suggestions' = DOMAIN suggestions \cup {s.id}
  BY DEF Suggest

\* On the builder page only the ids of timers and suggestions matter.
LEMMA FormOfBuilder ==
    ASSUME page' = "builder", timers' \subseteq Ids', DOMAIN suggestions' \subseteq Ids'
    PROVE  FormInv'
  BY DEF FormInv

LEMMA Searches ==
    ASSUME PagesInv, NEW id \in Ids, SearchAddress(id)
    PROVE  /\ DraftsInv' /\ SubmissionInv' /\ page' = page
           /\ timers' \subseteq Ids' /\ DOMAIN suggestions' \subseteq Ids'
<1>1. DraftsInv' /\ Ids' = Ids
  BY DraftsUntouched DEF SearchAddress, routeState, PagesInv
<1>2. SubmissionInv' /\ page' = page
  BY SubmissionUntouched DEF SearchAddress, routeState, pageState, PagesInv
<1>3. timers' = timers \ {id}
  BY DEF SearchAddress
<1>4. DOMAIN suggestions' \subseteq DOMAIN suggestions
  BY Forgets DEF SearchAddress
<1> QED
  BY <1>1, <1>2, <1>3, <1>4 DEF PagesInv, FormInv

LEMMA InputsKeepPages ==
    ASSUME PagesInv, BuilderInput, UNCHANGED <<jobs, jobPage>>
    PROVE  PagesInv'
<1>1. DraftsInv /\ FormInv /\ SubmissionInv /\ JobsInv
  BY DEF PagesInv
<1>2. timers \subseteq Ids /\ DOMAIN suggestions \subseteq Ids
  BY <1>1 DEF FormInv
<1>3. ASSUME Input, page' = page PROVE JobsInv' /\ page' = "builder"
  BY <1>1, <1>3, JobsUntouched DEF Input
<1>4. CASE AddStop
  <2>1. DraftsInv' /\ Ids \subseteq Ids'
    BY <1>1, <1>4, AppendKeepsNumbers DEF AddStop
  <2>2. Input /\ page' = page /\ timers' = timers /\ suggestions' = suggestions
        /\ submission' = submission /\ loading' = loading
    BY <1>4 DEF AddStop, searchState, pageState
  <2> QED
    BY <1>1, <1>2, <1>3, <2>1, <2>2, SubmissionUntouched, FormOfBuilder DEF PagesInv
<1>5. ASSUME NEW id \in Ids, RemoveStop(id) PROVE PagesInv'
  <2>1. DraftsInv' /\ Ids \ {id} \subseteq Ids'
    BY <1>1, <1>5, RemovalKeepsNumbers
  <2>2. Input /\ page' = page /\ timers' = timers \ {id} /\ Forget({id})
        /\ submission' = submission /\ loading' = loading
    BY <1>5 DEF RemoveStop, pageState
  <2> QED
    BY <1>1, <1>2, <1>3, <2>1, <2>2, Forgets, SubmissionUntouched, FormOfBuilder DEF PagesInv
<1>6. ASSUME NEW id \in Ids, NEW draft, "id" \in DOMAIN draft, Edit(draft), nextStopId' = nextStopId,
             Input, page' = page, submission' = submission, loading' = loading,
             timers' \subseteq timers \cup {id},
             DOMAIN suggestions' \subseteq DOMAIN suggestions
      PROVE  PagesInv'
  <2>1. DraftsInv' /\ Ids' = Ids
    BY <1>1, <1>6, EditsKeepNumbers
  <2> QED
    BY <1>1, <1>2, <1>3, <1>6, <2>1, SubmissionUntouched, FormOfBuilder DEF PagesInv
<1>7. ASSUME NEW id \in Ids, NEW mode \in {"coordinates", "address"}, SetInputMode(id, mode)
      PROVE  PagesInv'
  <2>1. "id" \in DOMAIN [DraftOf(id) EXCEPT !.mode = mode]
    BY <1>1, DraftsHaveIds
  <2>2. Edit([DraftOf(id) EXCEPT !.mode = mode]) /\ Forget({id}) /\ timers' = timers \ {id}
    BY <1>7 DEF SetInputMode
  <2>3. Input /\ page' = page /\ nextStopId' = nextStopId /\ submission' = submission /\ loading' = loading
    BY <1>7 DEF SetInputMode, pageState
  <2> QED
    BY <1>6, <2>1, <2>2, <2>3, Forgets
<1>8. ASSUME NEW id \in Ids, NEW place \in Places \cup {NoPlace}, UpdateCoordinate(id, place)
      PROVE  PagesInv'
  <2>1. "id" \in DOMAIN [DraftOf(id) EXCEPT !.place = place, !.resolved = NoAddress]
    BY <1>1, DraftsHaveIds
  <2>2. Edit([DraftOf(id) EXCEPT !.place = place, !.resolved = NoAddress])
        /\ suggestions' = suggestions /\ timers' = timers
    BY <1>8 DEF UpdateCoordinate, searchState
  <2>3. Input /\ page' = page /\ nextStopId' = nextStopId /\ submission' = submission /\ loading' = loading
    BY <1>8 DEF UpdateCoordinate, pageState
  <2> QED
    BY <1>6, <2>1, <2>2, <2>3
<1>9. ASSUME NEW id \in Ids, NEW address \in Addresses \cup {NoAddress}, UpdateAddress(id, address)
      PROVE  PagesInv'
  <2>1. "id" \in DOMAIN [DraftOf(id) EXCEPT !.address = address, !.resolved = NoAddress]
    BY <1>1, DraftsHaveIds
  <2>2. Edit([DraftOf(id) EXCEPT !.address = address, !.resolved = NoAddress]) /\ Forget({id})
        /\ timers' \subseteq timers \cup {id}
    BY <1>9 DEF UpdateAddress
  <2>3. Input /\ page' = page /\ nextStopId' = nextStopId /\ submission' = submission /\ loading' = loading
    BY <1>9 DEF UpdateAddress, pageState
  <2> QED
    BY <1>6, <2>1, <2>2, <2>3, Forgets
<1>10. ASSUME NEW id \in Ids, NEW place \in Places, NEW name \in Addresses,
              SelectSuggestion(id, place, name)
       PROVE  PagesInv'
  <2>1. "id" \in DOMAIN [DraftOf(id) EXCEPT !.place = place, !.address = name, !.resolved = name]
    BY <1>1, DraftsHaveIds
  <2>2. Edit([DraftOf(id) EXCEPT !.place = place, !.address = name, !.resolved = name])
        /\ Forget({id}) /\ timers' = timers
    BY <1>10 DEF SelectSuggestion, SetResolved
  <2>3. Input /\ page' = page /\ nextStopId' = nextStopId /\ submission' = submission /\ loading' = loading
    BY <1>10 DEF SelectSuggestion, pageState
  <2> QED
    BY <1>6, <2>1, <2>2, <2>3, Forgets
<1>11. ASSUME UNCHANGED <<routeState, searchState>>, submission' = submission, Input, page' = page
       PROVE  PagesInv'
  <2>1. DraftsInv' /\ Ids' = Ids
    BY <1>1, <1>11, DraftsUntouched DEF routeState
  <2> QED
    BY <1>1, <1>2, <1>3, <1>11, <2>1, SubmissionUntouched, FormOfBuilder
    DEF PagesInv, routeState, searchState
<1>12. ASSUME NEW choice \in BOOLEAN, SetBackgroundProcessing(choice) PROVE PagesInv'
  BY <1>11, <1>12 DEF SetBackgroundProcessing
<1>13. ASSUME NEW id \in Ids, Find(id) PROVE PagesInv'
  <2>1. Input /\ SearchAddress(id)
    BY <1>13 DEF Find
  <2> QED
    BY <1>3, <2>1, Searches, FormOfBuilder DEF PagesInv
<1>14. ASSUME NEW place \in Places, MapClick(place) PROVE PagesInv'
  BY <1>11, <1>14 DEF MapClick
<1>15. CASE Submit
  <2>1. Input /\ page' = page /\ nextStopId' = nextStopId /\ timers' = timers /\ suggestions' = suggestions
    BY <1>15 DEF Submit, searchState
  <2>2. CASE SendWhenComplete(drafts, <<>>)
    <3>1. DraftsInv' /\ Ids' = Ids /\ SubmissionInv'
      BY <1>1, <2>1, <2>2, SendingKeepsNumbers DEF DraftsInv, Numbered
    <3> QED
      BY <1>2, <1>3, <2>1, <3>1, FormOfBuilder DEF PagesInv
  <2>3. CASE UNCHANGED <<drafts, submitted, result, loading, submission>>
    <3>1. DraftsInv' /\ Ids' = Ids /\ SubmissionInv'
      BY <1>1, <2>1, <2>3, DraftsUntouched, SubmissionUntouched
    <3> QED
      BY <1>2, <1>3, <2>1, <3>1, FormOfBuilder DEF PagesInv
  <2> QED
    BY <1>15, <2>2, <2>3 DEF Submit
<1> QED
  BY <1>4, <1>5, <1>7, <1>8, <1>9, <1>10, <1>12, <1>13, <1>14, <1>15 DEF BuilderInput

\* A new page shows and waits for nothing.
LEMMA NewPageKeepsPages ==
    ASSUME PagesInv, NewPage, drafts' = drafts, nextStopId' = nextStopId
    PROVE  DraftsInv' /\ FormInv' /\ SubmissionInv'
<1>1. DraftsInv' /\ SubmissionInv'
  BY DraftsUntouched, SubmissionEnds DEF PagesInv, NewPage
<1>2. FormInv'
  BY DEF FormInv, NewPage
<1> QED
  BY <1>1, <1>2

LEMMA EventsKeepPages ==
    ASSUME PagesInv, SearchEvent \/ SubmissionEvent \/ MapEvent \/ LeaveBuilder,
           UNCHANGED <<jobs, jobPage>>
    PROVE  PagesInv'
<1>1. DraftsInv /\ FormInv /\ SubmissionInv /\ JobsInv
  BY DEF PagesInv
<1>2. timers \subseteq Ids /\ DOMAIN suggestions \subseteq Ids
  BY <1>1 DEF FormInv
<1>3. page # "builder" => /\ searches = <<>> /\ submission = Idle /\ click = NoPlace
                          /\ timers = {} /\ DOMAIN suggestions = {}
  BY <1>1 DEF FormInv
<1>4. ASSUME page = "builder", page' = page, DraftsInv', SubmissionInv', Ids \subseteq Ids',
             timers' \subseteq timers, DOMAIN suggestions' \subseteq Ids'
      PROVE  PagesInv'
  BY <1>1, <1>2, <1>4, JobsUntouched, FormOfBuilder DEF PagesInv
<1>5. ASSUME NEW id \in Ids, TimerFires(id) PROVE PagesInv'
  <2>1. page = "builder"
    BY <1>3, <1>5 DEF TimerFires
  <2> QED
    BY <1>1, <1>5, <2>1, Searches, JobsUntouched, FormOfBuilder DEF TimerFires, PagesInv
<1>6. ASSUME NEW k \in DOMAIN searches PROVE page = "builder"
  BY <1>3, <1>6
<1>7. ASSUME routeState' = routeState, pageState' = pageState
      PROVE  DraftsInv' /\ SubmissionInv' /\ Ids' = Ids
  BY <1>1, <1>7, DraftsUntouched, SubmissionUntouched DEF routeState, pageState
<1>8. ASSUME NEW k \in DOMAIN searches, NEW some \in BOOLEAN, SearchAnswered(k, some)
      PROVE  PagesInv'
  <2>1. page = "builder" /\ page' = page /\ timers' = timers
        /\ routeState' = routeState /\ pageState' = pageState
    BY <1>6, <1>8 DEF SearchAnswered
  <2>2. CASE IsCurrent(searches[k]) /\ some
    <3>1. DOMAIN suggestions' = DOMAIN suggestions \cup {searches[k].id} /\ searches[k].id \in Ids
      BY <1>8, <2>2, Suggests DEF SearchAnswered, IsCurrent
    <3> QED
      BY <1>2, <1>4, <1>7, <2>1, <3>1
  <2>3. CASE IsCurrent(searches[k]) /\ ~ some
    <3>1. DOMAIN suggestions' = DOMAIN suggestions \ {searches[k].id}
      BY <1>8, <2>3, Forgets DEF SearchAnswered
    <3> QED
      BY <1>2, <1>4, <1>7, <2>1, <3>1
  <2>4. CASE ~ IsCurrent(searches[k])
    <3>1. suggestions' = suggestions
      BY <1>8, <2>4 DEF SearchAnswered
    <3> QED
      BY <1>2, <1>4, <1>7, <2>1, <3>1
  <2> QED
    BY <2>2, <2>3, <2>4
<1>9. ASSUME NEW k \in DOMAIN searches, SearchFailed(k) PROVE PagesInv'
  <2>1. page = "builder" /\ page' = page /\ timers' = timers /\ suggestions' = suggestions
        /\ routeState' = routeState /\ pageState' = pageState
    BY <1>6, <1>9 DEF SearchFailed
  <2> QED
    BY <1>2, <1>4, <1>7, <2>1
<1>10. ASSUME NEW name, MapPointResolved(name) PROVE PagesInv'
  <2>1. DraftsInv' /\ Ids \subseteq Ids'
    BY <1>1, <1>10, AppendKeepsNumbers DEF MapPointResolved
  <2>2. page = "builder" /\ page' = page /\ timers' = timers /\ suggestions' = suggestions
        /\ submission' = submission /\ loading' = loading
    BY <1>3, <1>10 DEF MapPointResolved, searchState
  <2> QED
    BY <1>1, <1>2, <1>4, <2>1, <2>2, SubmissionUntouched
<1>11. ASSUME NEW k \in DOMAIN submission.drafts, NEW place \in Places, NEW name \in Addresses,
              Geocoded(k, place, name)
       PROVE  PagesInv'
  <2>1. submission.stage = "resolving" /\ page' = page /\ nextStopId' = nextStopId
        /\ timers' = timers /\ suggestions' = suggestions
    BY <1>11 DEF Geocoded, searchState
  <2>2. page = "builder" /\ Bounded(submission.drafts)
    BY <1>1, <1>3, <2>1 DEF Idle, SubmissionInv
  <2>3. \E found : SendWhenComplete(submission.drafts, found)
    BY <1>11 DEF Geocoded
  <2>4. DraftsInv' /\ Ids' = Ids /\ SubmissionInv'
    BY <1>1, <2>1, <2>2, <2>3, SendingKeepsNumbers
  <2> QED
    BY <1>2, <1>4, <2>1, <2>2, <2>4
<1>12. CASE SubmissionFailed \/ RouteAnswered
  <2>1. submission.stage # "idle" /\ submission' = Idle /\ page' = page
        /\ drafts' = drafts /\ nextStopId' = nextStopId /\ searchState' = searchState
    BY <1>12 DEF SubmissionFailed, RouteAnswered
  <2>2. page = "builder" /\ timers' = timers /\ suggestions' = suggestions
    BY <1>3, <2>1 DEF Idle, searchState
  <2> QED
    BY <1>1, <1>2, <1>4, <2>1, <2>2, DraftsUntouched, SubmissionEnds
<1>13. CASE LeaveBuilder
  <2>1. NewPage /\ drafts' = drafts /\ nextStopId' = nextStopId /\ page' = "jobs"
    BY <1>13 DEF LeaveBuilder, routeState
  <2> QED
    BY <1>1, <2>1, NewPageKeepsPages, JobsUntouched DEF PagesInv
<1> QED
  BY <1>5, <1>8, <1>9, <1>10, <1>11, <1>12, <1>13 DEF SearchEvent, SubmissionEvent, MapEvent

\* Steps of the backend and of the job page.
LEMMA JobsKeepPages ==
    ASSUME PagesInv, UNCHANGED builderVars, JobsInv'
    PROVE  PagesInv'
<1>1. DraftsInv' /\ Ids' = Ids /\ SubmissionInv'
  BY DraftsUntouched, SubmissionUntouched DEF PagesInv, builderVars, routeState, pageState
<1>2. FormInv'
  BY <1>1 DEF PagesInv, FormInv, builderVars, searchState, pageState
<1> QED
  BY <1>1, <1>2 DEF PagesInv

LEMMA PagesInvStep == PagesInv /\ [Next]_vars => PagesInv'
<1> SUFFICES ASSUME PagesInv, [Next]_vars PROVE PagesInv'
  OBVIOUS
<1>1. DraftsInv /\ FormInv /\ SubmissionInv /\ JobsInv
  BY DEF PagesInv
<1>2. CASE (BuilderInput \/ SearchEvent \/ SubmissionEvent \/ MapEvent \/ LeaveBuilder)
           /\ UNCHANGED <<jobs, jobPage>>
  BY <1>2, InputsKeepPages, EventsKeepPages
<1>3. ASSUME NEW j \in JobIds, JobQueued(j) PROVE PagesInv'
  <2>1. /\ submission.stage = "queueing" /\ NewPage /\ drafts' = drafts /\ nextStopId' = nextStopId
        /\ page' = "jobs" /\ opening' = opening
        /\ jobs' = [jobs EXCEPT ![j] = Job("queued", submission.request)]
    BY <1>3 DEF JobQueued, JobAnswered, Enqueue
  <2>2. Bounded(submission.request)
    BY <1>1, <2>1 DEF SubmissionInv
  <2>3. /\ DOMAIN jobs' = JobIds
        /\ \A i \in JobIds :
              /\ {"status", "request", "saved", "repeats"} \subseteq DOMAIN jobs'[i]
              /\ jobs'[i].status # "absent" \/ jobs'[i].saved => Bounded(jobs'[i].request)
    BY <1>1, <2>1, <2>2 DEF JobsInv, Job
  <2>4. JobsInv'
    BY <1>1, <2>1, <2>3 DEF JobsInv, Bounded
  <2> QED
    BY <2>1, <2>4, NewPageKeepsPages DEF PagesInv
<1>4. ASSUME NEW j \in JobIds, JobMoves(j) \/ JobRepeats(j) PROVE PagesInv'
  <2>1. /\ DOMAIN jobs' = JobIds
        /\ \A i \in JobIds :
              /\ {"status", "request", "saved", "repeats"} \subseteq DOMAIN jobs'[i]
              /\ jobs'[i].request = jobs[i].request
              /\ jobs[i].status = "absent" /\ ~ jobs[i].saved =>
                    jobs'[i].status = "absent" /\ ~ jobs'[i].saved
    <3>1. PICK status : \/ jobs' = [jobs EXCEPT ![j].status = status] /\ jobs[j].status # "absent"
                        \/ /\ jobs' = [jobs EXCEPT ![j].status = status, ![j].saved = TRUE]
                           /\ jobs[j].status # "absent"
                        \/ /\ jobs' = [jobs EXCEPT ![j].status = status, ![j].repeats = @ + 1]
                           /\ jobs[j].status # "absent"
      BY <1>4 DEF JobMoves, JobRepeats, Terminal
    <3> QED
      BY <1>1, <3>1 DEF JobsInv
  <2>2. UNCHANGED <<builderVars, jobPage>>
    BY <1>4 DEF JobMoves, JobRepeats
  <2>3. JobsInv'
    BY <1>1, <2>1, <2>2 DEF JobsInv, Bounded, jobPage, builderVars
  <2> QED
    BY <2>2, <2>3, JobsKeepPages
<1>5. ASSUME NEW j \in JobIds, LookUp(j) \/ OpenRoute(j) PROVE PagesInv'
  <2>1. UNCHANGED <<page, routeState, searchState, pageState, jobs>> /\ page = "jobs"
        /\ opening' \in {opening, j}
    BY <1>5 DEF LookUp, OpenRoute
  <2>2. JobsInv'
    BY <1>1, <2>1 DEF JobsInv, Bounded
  <2>3. DraftsInv' /\ SubmissionInv' /\ Ids' = Ids
    BY <1>1, <2>1, DraftsUntouched, SubmissionUntouched DEF routeState, pageState
  <2>4. FormInv'
    BY <1>1, <2>1, <2>3 DEF FormInv, searchState, pageState
  <2> QED
    BY <2>2, <2>3, <2>4 DEF PagesInv
<1>6. ASSUME NEW k \in DOMAIN polls, PollEvent(k) PROVE PagesInv'
  <2>1. UNCHANGED <<builderVars, jobs, opening>>
    BY <1>6 DEF PollEvent, PollRead, PollAnswered, PollFailed, PollAgain
  <2>2. page = "jobs"
    BY <1>1 DEF JobsInv
  <2>3. JobsInv'
    BY <1>1, <2>1, <2>2 DEF JobsInv, Bounded, builderVars
  <2> QED
    BY <2>1, <2>3, JobsKeepPages
<1>7. CASE RouteOpened
  <2> DEFINE request == jobs[opening].request
  <2>1. /\ opening # NoJob /\ jobs[opening].saved
        /\ drafts' = [k \in DOMAIN request |-> Draft(k - 1, "coordinates", request[k], NoAddress, NoAddress)]
        /\ nextStopId' = Len(request)
        /\ page' = "builder" /\ ClosePage
        /\ UNCHANGED <<searchState, pageState, jobs>>
    BY <1>7 DEF RouteOpened, LoadSavedRoute
  <2>2. page = "jobs" /\ opening \in JobIds /\ Bounded(request)
    BY <1>1, <2>1 DEF JobsInv
  <2>3. Len(request) \in 1 .. MaxStops + 1 /\ DOMAIN request = 1 .. Len(request)
    BY <2>2, ListIsSequence
  <2> HIDE DEF request
  <2>4. /\ DOMAIN drafts' = 1 .. Len(request)
        /\ \A k \in DOMAIN drafts' : "id" \in DOMAIN drafts'[k] /\ drafts'[k].id = k - 1
    BY <2>1, <2>3 DEF Draft
  <2>5. Bounded(drafts')
    <3>1. drafts' = [k \in 1 .. Len(request) |-> drafts'[k]]
      BY <2>1, <2>3
    <3> QED
      BY <2>3, <3>1, ListIsBounded
  <2>6. DraftsInv'
    BY <2>1, <2>3, <2>4, <2>5, BuilderAssumption DEF DraftsInv, Numbered
  <2>7. submission' = Idle /\ timers' = {} /\ DOMAIN suggestions' = {}
    BY <1>1, <2>1, <2>2 DEF FormInv, searchState, pageState
  <2>8. JobsInv'
    BY <1>1, <2>1 DEF JobsInv, ClosePage, Bounded
  <2> QED
    BY <2>1, <2>6, <2>7, <2>8, SubmissionEnds, FormOfBuilder DEF PagesInv
<1>8. CASE OpeningFailed
  <2>1. JobsInv' /\ UNCHANGED builderVars
    BY <1>1, <1>8 DEF OpeningFailed, JobsInv, Bounded, builderVars
  <2> QED
    BY <2>1, JobsKeepPages
<1>9. CASE LeaveJobs
  <2>1. /\ page' = "builder" /\ ClosePage
        /\ UNCHANGED <<routeState, searchState, pageState, jobs>>
    BY <1>9 DEF LeaveJobs
  <2>2. DraftsInv' /\ SubmissionInv' /\ Ids' = Ids
    BY <1>1, <2>1, DraftsUntouched, SubmissionUntouched DEF routeState, pageState
  <2>3. FormInv'
    BY <1>1, <2>1, <2>2 DEF FormInv, searchState
  <2>4. JobsInv'
    BY <1>1, <2>1 DEF JobsInv, ClosePage, Bounded
  <2> QED
    BY <2>2, <2>3, <2>4 DEF PagesInv
<1>10. CASE UNCHANGED vars
  <2>1. JobsInv' /\ UNCHANGED builderVars
    BY <1>1, <1>10, JobsUntouched DEF vars, builderVars
  <2> QED
    BY <2>1, JobsKeepPages
<1> QED
  BY <1>2, <1>3, <1>4, <1>5, <1>6, <1>7, <1>8, <1>9, <1>10 DEF Next

\* Stops are numbered once and never exceed their limit, although a click on
\* the map adds one long after it looked and a saved route numbers them anew;
\* nothing goes on waiting for a page that is closed.
THEOREM PagesTypeCorrectness == Spec => []JobPageTypeOK
  BY PagesInvTyped, PagesInvInit, PagesInvStep, PTL DEF Spec
=============================================================================
