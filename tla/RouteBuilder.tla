---------------------------- MODULE RouteBuilder ----------------------------
(***************************************************************************)
(* The Route Builder page of the frontend: RouteStateService, which        *)
(* outlives the pages, RouteBuilderComponent and RouteMapComponent, which  *)
(* live as long as the page is open and whose subscriptions and timers end *)
(* with it.                                                                *)
(*                                                                         *)
(* An action is one event of the browser: an input of the user, a timer or *)
(* an answer of the API, which come in any order.  The starting point is   *)
(* the draft with id 0, the first of drafts; the code has the same code    *)
(* twice, once for it and once for the stops.  A place stands for a pair   *)
(* of valid coordinates, NoPlace for fields without one; an address is     *)
(* one of at least three characters, NoAddress a shorter one.              *)
(***************************************************************************)
EXTENDS Integers, SequencesExt, Functions, TLC

CONSTANTS
    MinStops, MaxStops,     \* between 2 and 25 stops
    SyncStops,              \* with more than 15 stops a job is queued
    Places, NoPlace,
    Addresses, NoAddress,
    NoRequest,              \* null as a request or a result
    MaxInputs               \* bound: inputs of the user in one behaviour

ASSUME BuilderAssumption == MinStops \in Nat /\ MaxStops \in Nat /\ MinStops <= MaxStops

VARIABLES
    page,           \* "builder" or "jobs"
    drafts,         \* origin and stops: [id, mode, place, address, resolved]
    nextStopId,
    submitted,      \* submittedRequest, the places of origin and stops
    result,         \* currentRouteResult: [kind, request]
    loading,
    background,     \* backgroundProcessing
    suggestions,    \* suggestions[id]: the address that they were found for
    searching,      \* {0} of searchingOrigin and {searchingStopId}
    timers,         \* drafts whose search waits for the end of the typing
    searches,       \* searches under way: [id, address]
    submission,     \* what submit() waits for, see Idle
    click,          \* the point on the map whose address is being found
    inputs          \* inputs so far

routeState == <<drafts, nextStopId, submitted, result, loading>>
searchState == <<suggestions, searching, timers, searches>>
pageState == <<background, submission, click>>
builderVars == <<page, routeState, searchState, pageState, inputs>>

\* A submission resolves the drafts that it has taken, then asks the API.
Idle == [stage |-> "idle", drafts |-> <<>>, found |-> <<>>, request |-> NoRequest]

Draft(id, mode, place, address, resolved) ==
    [id |-> id, mode |-> mode, place |-> place, address |-> address, resolved |-> resolved]

\* What a component starts with.
NewPage ==
    /\ background' = TRUE
    /\ suggestions' = <<>> /\ searching' = {} /\ timers' = {} /\ searches' = <<>>
    /\ submission' = Idle /\ click' = NoPlace

BuilderInit ==
    /\ page = "builder"
    /\ LET home == CHOOSE place \in Places : TRUE
       IN drafts = [k \in 1 .. MinStops + 1 |-> Draft(k - 1, "coordinates", home, NoAddress, NoAddress)]
    /\ nextStopId = MinStops + 1
    /\ submitted = NoRequest /\ result = NoRequest /\ loading = FALSE
    /\ background = TRUE
    /\ suggestions = <<>> /\ searching = {} /\ timers = {} /\ searches = <<>>
    /\ submission = Idle /\ click = NoPlace
    /\ inputs = 0

-----------------------------------------------------------------------------
(* RouteStateService                                                       *)

Ids == {drafts[k].id : k \in DOMAIN drafts}
DraftOf(id) == drafts[CHOOSE k \in DOMAIN drafts : drafts[k].id = id]
AddressOf(id) == DraftOf(id).address
ModeOf(id) == DraftOf(id).mode
StopCount == Len(drafts) - 1

InvalidateRoute == submitted' = NoRequest /\ result' = NoRequest

\* An edited draft takes the place of the one with its id.
Edit(draft) ==
    /\ drafts' = [k \in DOMAIN drafts |-> IF drafts[k].id = draft.id THEN draft ELSE drafts[k]]
    /\ InvalidateRoute

SetResolved(id, place, name) ==
    Edit([DraftOf(id) EXCEPT !.place = place, !.address = name, !.resolved = name])

AppendUnchecked(mode, place, address) ==
    /\ drafts' = Append(drafts, Draft(nextStopId, mode, place, address, address))
    /\ nextStopId' = nextStopId + 1
    /\ InvalidateRoute

\* addEmptyStop, addCoordinateStop and addResolvedStop check the limit anew.
AppendStop(mode, place, address) ==
    IF StopCount >= MaxStops THEN UNCHANGED <<drafts, nextStopId, submitted, result>>
    ELSE /\ drafts' = Append(drafts, Draft(nextStopId, mode, place, address, address))
         /\ nextStopId' = nextStopId + 1
         /\ InvalidateRoute

BeginRequestKeepsResult(request) ==
    submitted' = request /\ loading' = TRUE /\ UNCHANGED result

BeginRequest(request) ==
    submitted' = request /\ result' = NoRequest /\ loading' = TRUE

\* loadSavedRoute: the stops get new ids, and so do the next ones.
LoadSavedRoute(request) ==
    /\ drafts' = [k \in DOMAIN request |-> Draft(k - 1, "coordinates", request[k], NoAddress, NoAddress)]
    /\ nextStopId' = Len(request)
    /\ submitted' = request
    /\ result' = [kind |-> "route", request |-> request]
    /\ loading' = FALSE

-----------------------------------------------------------------------------
(* Inputs on the drafts                                                    *)

Input == page = "builder" /\ inputs < MaxInputs /\ inputs' = inputs + 1

Forget(ids) == suggestions' = Restrict(suggestions, DOMAIN suggestions \ ids)

AddStop ==
    /\ Input /\ StopCount < MaxStops
    /\ AppendStop("coordinates", NoPlace, NoAddress)
    /\ UNCHANGED <<page, loading, searchState, pageState>>

RemoveStop(id) ==
    /\ Input /\ id # 0
    /\ \E k \in DOMAIN drafts : drafts[k].id = id /\ drafts' = RemoveAt(drafts, k)
    /\ InvalidateRoute
    /\ timers' = timers \ {id} /\ Forget({id})
    /\ UNCHANGED <<page, nextStopId, loading, searching, searches, pageState>>

SetInputMode(id, mode) ==
    /\ Input
    /\ Edit([DraftOf(id) EXCEPT !.mode = mode])
    /\ timers' = timers \ {id} /\ Forget({id})
    /\ UNCHANGED <<page, nextStopId, loading, searching, searches, pageState>>

\* A mode has its own fields.
UpdateCoordinate(id, place) ==
    /\ Input /\ ModeOf(id) = "coordinates"
    /\ Edit([DraftOf(id) EXCEPT !.place = place, !.resolved = NoAddress])
    /\ UNCHANGED <<page, nextStopId, loading, searchState, pageState>>

UpdateAddressSearchedAlready(id, address) ==
    /\ Input /\ ModeOf(id) = "address"
    /\ Edit([DraftOf(id) EXCEPT !.address = address, !.resolved = NoAddress])
    /\ timers' = IF address = NoAddress \/ id \in searching THEN timers \ {id} ELSE timers \cup {id}
    /\ Forget({id})
    /\ UNCHANGED <<page, nextStopId, loading, searching, searches, pageState>>

\* Typing starts the timer of a search anew.
UpdateAddress(id, address) ==
    /\ Input /\ ModeOf(id) = "address"
    /\ Edit([DraftOf(id) EXCEPT !.address = address, !.resolved = NoAddress])
    /\ timers' = IF address = NoAddress THEN timers \ {id} ELSE timers \cup {id}
    /\ Forget({id})
    /\ UNCHANGED <<page, nextStopId, loading, searching, searches, pageState>>

SelectSuggestion(id, place, name) ==
    /\ Input /\ ModeOf(id) = "address" /\ id \in DOMAIN suggestions
    /\ SetResolved(id, place, name)
    /\ Forget({id})
    /\ UNCHANGED <<page, nextStopId, loading, searching, timers, searches, pageState>>

SetBackgroundProcessing(choice) ==
    /\ Input
    /\ choice \/ StopCount <= SyncStops
    /\ background' = choice
    /\ UNCHANGED <<page, routeState, searchState, submission, click>>

-----------------------------------------------------------------------------
(* Searching for the address of a draft                                    *)

\* What was found for the address of a draft, in place of what was there.
Suggest(s) ==
    suggestions' = [id \in DOMAIN suggestions \cup {s.id} |->
                        IF id = s.id THEN s.address ELSE suggestions[id]]

\* There is one flag for the origin and one id for all stops.
Shown(id) == {s \in searching : (s = 0) = (id = 0)}

SearchAddress(id) ==
    /\ timers' = timers \ {id}
    /\ IF AddressOf(id) = NoAddress THEN UNCHANGED <<suggestions, searching, searches>>
       ELSE /\ searching' = (searching \ Shown(id)) \cup {id}
            /\ Forget({id})
            /\ searches' = Append(searches, [id |-> id, address |-> AddressOf(id)])
    /\ UNCHANGED <<page, routeState, pageState>>

\* Enter searches again, even if the button is disabled by a search.
Find(id) == Input /\ ModeOf(id) = "address" /\ SearchAddress(id)

TimerFires(id) == id \in timers /\ SearchAddress(id) /\ UNCHANGED inputs

IsCurrent(s) == s.id \in Ids /\ AddressOf(s.id) = s.address

\* An answer for another address than the current one is dropped, before the
\* flag is cleared; some: something was found.
SearchAnswered(k, some) ==
    /\ searches' = RemoveAt(searches, k)
    /\ IF IsCurrent(searches[k])
       THEN /\ searching' = searching \ Shown(searches[k].id)
            /\ IF some THEN Suggest(searches[k]) ELSE Forget({searches[k].id})
       ELSE UNCHANGED <<searching, suggestions>>
    /\ UNCHANGED <<page, timers, routeState, pageState, inputs>>

SearchFailed(k) ==
    /\ searches' = RemoveAt(searches, k)
    /\ searching' = searching \ Shown(searches[k].id)
    /\ UNCHANGED <<page, suggestions, timers, routeState, pageState, inputs>>

-----------------------------------------------------------------------------
(* Stops from the map                                                      *)

MapClick(place) ==
    /\ Input
    /\ click = NoPlace /\ StopCount < MaxStops
    /\ click' = place
    /\ UNCHANGED <<page, routeState, searchState, background, submission>>

\* name is the address of the point, or NoAddress after an error.
MapPointResolved(name) ==
    /\ click # NoPlace
    /\ AppendStop(IF name = NoAddress THEN "coordinates" ELSE "address", click, name)
    /\ click' = NoPlace
    /\ UNCHANGED <<page, loading, searchState, background, submission, inputs>>

-----------------------------------------------------------------------------
(* submit()                                                                *)

\* resolveLocation: what is known at once, what is not valid, the rest.
IsResolved(d) ==
    d.place # NoPlace /\ (d.mode = "coordinates" \/ (d.address # NoAddress /\ d.resolved = d.address))
IsInvalid(d) ==
    IF d.mode = "coordinates" THEN d.place = NoPlace ELSE d.address = NoAddress

\* Whether the answer may be a job: the page asks for one by the choice and the
\* stops of now, and the server queues a request with many stops anyway.
MayBeQueued(request) == background \/ StopCount > SyncStops \/ Len(request) - 1 > SyncStops

\* forkJoin: the drafts at the positions in found were geocoded, and the
\* request is sent when none is missing.  The drafts on the page may have
\* changed since; what was geocoded is written over them.
SendWhenComplete(taken, found) ==
    IF \A k \in DOMAIN taken : IsResolved(taken[k]) \/ k \in DOMAIN found
    THEN LET request == [k \in DOMAIN taken |->
                            IF k \in DOMAIN found THEN found[k].place ELSE taken[k].place]
             Place(d) == LET at == {k \in DOMAIN found : taken[k].id = d.id}
                         IN IF at = {} THEN d
                            ELSE LET f == found[CHOOSE k \in at : TRUE]
                                 IN [d EXCEPT !.place = f.place, !.address = f.name, !.resolved = f.name]
         IN /\ drafts' = [k \in DOMAIN drafts |-> Place(drafts[k])]
            /\ BeginRequest(request)
            /\ submission' = [Idle EXCEPT !.stage = IF MayBeQueued(request) THEN "queueing" ELSE "sent",
                                          !.request = request]
    ELSE /\ submission' = [Idle EXCEPT !.stage = "resolving", !.drafts = taken, !.found = found]
         /\ loading' = TRUE
         /\ UNCHANGED <<drafts, submitted, result>>

\* The button is disabled while loading.
Submit ==
    /\ Input /\ ~ loading
    /\ IF StopCount \notin MinStops .. MaxStops \/ \E k \in DOMAIN drafts : IsInvalid(drafts[k])
       THEN UNCHANGED <<drafts, submitted, result, loading, submission>>
       ELSE SendWhenComplete(drafts, <<>>)
    /\ UNCHANGED <<page, nextStopId, searchState, background, click>>

Geocoded(k, place, name) ==
    /\ submission.stage = "resolving"
    /\ k \in DOMAIN submission.drafts \ DOMAIN submission.found
    /\ ~ IsResolved(submission.drafts[k])
    /\ SendWhenComplete(submission.drafts, k :> [place |-> place, name |-> name] @@ submission.found)
    /\ UNCHANGED <<page, nextStopId, searchState, background, click, inputs>>

\* handleError, after the first error of any request.
SubmissionFailed ==
    /\ submission.stage # "idle"
    /\ submission' = Idle /\ loading' = FALSE
    /\ UNCHANGED <<page, drafts, nextStopId, submitted, result, searchState, background, click, inputs>>

\* A route at once; a background request may be answered from the cache.
RouteAnswered ==
    /\ submission.stage \in {"queueing", "sent"}
    /\ result' = [kind |-> "route", request |-> submission.request]
    /\ loading' = FALSE /\ submission' = Idle
    /\ UNCHANGED <<page, drafts, nextStopId, submitted, searchState, background, click, inputs>>

\* A job was queued: the page makes room for the job page.  The routes of
\* the application are loaded and have neither guards nor resolvers, so that
\* no other event comes before the end of router.navigate().
JobAnswered ==
    /\ submission.stage = "queueing"
    /\ result' = [kind |-> "job", request |-> submission.request]
    /\ loading' = FALSE
    /\ page' = "jobs" /\ NewPage
    /\ UNCHANGED <<drafts, nextStopId, submitted, inputs>>

\* A link leads away: nobody listens for the answers any more.
LeaveBuilder ==
    /\ Input
    /\ page' = "jobs" /\ NewPage
    /\ UNCHANGED routeState

BuilderInput ==
    \/ AddStop
    \/ \E id \in Ids : RemoveStop(id)
    \/ \E id \in Ids, mode \in {"coordinates", "address"} : SetInputMode(id, mode)
    \/ \E id \in Ids, place \in Places \cup {NoPlace} : UpdateCoordinate(id, place)
    \/ \E id \in Ids, address \in Addresses \cup {NoAddress} : UpdateAddress(id, address)
    \/ \E id \in Ids, place \in Places, name \in Addresses : SelectSuggestion(id, place, name)
    \/ \E choice \in BOOLEAN : SetBackgroundProcessing(choice)
    \/ \E id \in Ids : Find(id)
    \/ \E place \in Places : MapClick(place)
    \/ Submit

SearchEvent ==
    \/ \E id \in Ids : TimerFires(id)
    \/ \E k \in DOMAIN searches : \/ \E some \in BOOLEAN : SearchAnswered(k, some)
                                  \/ SearchFailed(k)

SubmissionEvent ==
    \/ \E k \in DOMAIN submission.drafts, place \in Places, name \in Addresses : Geocoded(k, place, name)
    \/ SubmissionFailed
    \/ RouteAnswered

MapEvent == \E name \in Addresses \cup {NoAddress} : MapPointResolved(name)

-----------------------------------------------------------------------------
\* renderRoute: the route on the map.
Drawn == IF submitted # NoRequest /\ result # NoRequest /\ result.kind = "route"
         THEN {result} ELSE {}

\* There is room for what was added meanwhile: a click on the map looks at
\* the number of stops long before it adds one.  Ids are given once, although
\* a saved route numbers its stops anew.
BuilderTypeOK ==
    /\ StopCount <= MaxStops
    /\ drafts[1].id = 0
    /\ \A j, k \in DOMAIN drafts : drafts[j].id = drafts[k].id => j = k
    /\ \A id \in Ids : id < nextStopId
    /\ timers \cup DOMAIN suggestions \subseteq Ids
    /\ page # "builder" => searches = <<>> /\ submission = Idle /\ click = NoPlace
    /\ submission # Idle => loading

\* A route that is drawn was found for the very request whose stops label it,
\* in whatever order edits, answers and changes of the page have come.
RouteAnswersRequest == \A r \in Drawn : r.request = submitted

\* The list of visits and the map show the same route.
VisitPositionsMatchMap ==
    result # NoRequest /\ result.kind = "route" => result \in Drawn

\* A search for the address of a stop comes to an end that the user sees, also
\* if the address is edited meanwhile: what has become of the search for the old
\* one then does not matter, for the edit has started a timer.  Only a stop
\* that needs no search any more may be left with the flag.
Due(id) == id \in timers \/ \E k \in DOMAIN searches : searches[k] = [id |-> id, address |-> AddressOf(id)]
NeedsSearch(id) == ModeOf(id) = "address" /\ DraftOf(id).resolved # AddressOf(id)

SearchesEnd ==
    \A id \in 0 .. MinStops :
        id \in searching \cap Ids /\ NeedsSearch(id) /\ Due(id)
            ~> id \notin searching \cap Ids \/ ~ NeedsSearch(id)
=============================================================================
