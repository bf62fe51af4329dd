---------------------------- MODULE GeocoderQueue ----------------------------
(***************************************************************************)
(* The geocoder of the API process                                         *)
(* (backend/src/geocoding/geocoder.ts): search() and reverse() look in the *)
(* Redis cache, join a request for the same key that is in flight, or      *)
(* enqueue a request of their own.  enqueue() chains the requests into one *)
(* promise, so that they run one after the other and start at least        *)
(* Interval apart.                                                         *)
(*                                                                         *)
(* An action is what the event loop runs between two awaits.  A lookup     *)
(* stands for a call of search() or reverse() and its key for the cache    *)
(* key, which tells the two kinds apart: they have a map of requests in    *)
(* flight each and one queue together.  A request is named after the       *)
(* lookup that enqueued it.  An operator named after another with a suffix *)
(* is a slip that a property is shown to notice; no action uses it.        *)
(***************************************************************************)
EXTENDS Naturals, Sequences, FiniteSets

CONSTANTS
    Lookups,    \* calls of search() and reverse()
    NoLookup,   \* no request in flight
    Keys,       \* cache keys
    NoKey,      \* the key of a call that has not been made
    Interval    \* requestIntervalMs, in ticks

ASSUME GeocoderAssumption ==
    /\ NoLookup \notin Lookups
    /\ NoKey \notin Keys
    /\ Interval \in Nat

VARIABLES
    key,        \* key[l]: what l looks up
    pc,         \* pc[l]: where l is
    waitsFor,   \* waitsFor[l]: the request that l awaits
    inFlight,   \* inFlight[k]: the request for k, in inFlight or reverseInFlight
    request,    \* request[l]: where the request that l enqueued is
    line,       \* requests in the order of the promise chain, unsettled ones only
    delay,      \* ticks that the timer of the first request still has to run
    quiet,      \* ticks since lastRequestStartedAt, counted up to Interval
    cached      \* keys with an entry in Redis

vars == <<key, pc, waitsFor, inFlight, request, line, delay, quiet, cached>>

LookupSteps == {"idle", "reading", "hit", "missed", "awaiting", "answered", "failed"}
RequestSteps == {"none", "queued", "delayed", "fetching", "storing", "fulfilled", "rejected"}

TypeOK ==
    /\ key \in [Lookups -> Keys \cup {NoKey}]
    /\ \A l \in Lookups : pc[l] # "idle" => key[l] \in Keys
    /\ pc \in [Lookups -> LookupSteps]
    /\ waitsFor \in [Lookups -> Lookups \cup {NoLookup}]
    /\ inFlight \in [Keys -> Lookups \cup {NoLookup}]
    /\ request \in [Lookups -> RequestSteps]
    /\ line \in Seq(Lookups)
    /\ delay \in 0 .. Interval
    /\ quiet \in 0 .. Interval
    /\ cached \in SUBSET Keys

Init ==
    /\ key = [l \in Lookups |-> NoKey]
    /\ pc = [l \in Lookups |-> "idle"]
    /\ waitsFor = [l \in Lookups |-> NoLookup]
    /\ inFlight = [k \in Keys |-> NoLookup]
    /\ request = [l \in Lookups |-> "none"]
    /\ line = <<>>
    /\ delay = 0
    /\ quiet = Interval
    /\ cached = {}

-----------------------------------------------------------------------------
(* Lookups                                                                 *)

\* The call, up to the await of cache.get.
Look(l, k) ==
    /\ pc[l] = "idle"
    /\ key' = [key EXCEPT ![l] = k]
    /\ pc' = [pc EXCEPT ![l] = "reading"]
    /\ UNCHANGED <<waitsFor, inFlight, request, line, delay, quiet, cached>>

\* Redis answers; an error counts as a miss.
ReadCache(l) ==
    /\ pc[l] = "reading"
    /\ \/ key[l] \in cached /\ pc' = [pc EXCEPT ![l] = "hit"]
       \/ pc' = [pc EXCEPT ![l] = "missed"]
    /\ UNCHANGED <<key, waitsFor, inFlight, request, line, delay, quiet, cached>>

AnswerFromCache(l) ==
    /\ pc[l] = "hit"
    /\ pc' = [pc EXCEPT ![l] = "answered"]
    /\ UNCHANGED <<key, waitsFor, inFlight, request, line, delay, quiet, cached>>

Await(l, r) ==
    /\ pc' = [pc EXCEPT ![l] = "awaiting"]
    /\ waitsFor' = [waitsFor EXCEPT ![l] = r]

\* After a miss: await the request in flight.
Join(l) ==
    /\ pc[l] = "missed"
    /\ inFlight[key[l]] # NoLookup
    /\ Await(l, inFlight[key[l]])
    /\ UNCHANGED <<key, inFlight, request, line, delay, quiet, cached>>

\* After a miss with no request in flight: enqueue one.
Enqueue(l) ==
    /\ pc[l] = "missed"
    /\ inFlight[key[l]] = NoLookup
    /\ request' = [request EXCEPT ![l] = "queued"]
    /\ line' = Append(line, l)
    /\ inFlight' = [inFlight EXCEPT ![key[l]] = l]
    /\ Await(l, l)
    /\ UNCHANGED <<key, delay, quiet, cached>>

ReturnKeepsEntry(l) ==
    /\ pc[l] = "awaiting"
    /\ request[waitsFor[l]] \in {"fulfilled", "rejected"}
    /\ pc' = [pc EXCEPT ![l] = IF request[waitsFor[l]] = "fulfilled" THEN "answered"
                                                                     ELSE "failed"]
    /\ inFlight' = IF waitsFor[l] = l /\ request[l] = "fulfilled"
                   THEN [inFlight EXCEPT ![key[l]] = NoLookup] ELSE inFlight
    /\ UNCHANGED <<key, waitsFor, request, line, delay, quiet, cached>>

\* The awaited request is settled: return or throw.  The lookup that made the
\* request also takes it out of the map, in its finally block.
Return(l) ==
    /\ pc[l] = "awaiting"
    /\ request[waitsFor[l]] \in {"fulfilled", "rejected"}
    /\ pc' = [pc EXCEPT ![l] = IF request[waitsFor[l]] = "fulfilled" THEN "answered"
                                                                     ELSE "failed"]
    /\ inFlight' = IF waitsFor[l] = l THEN [inFlight EXCEPT ![key[l]] = NoLookup]
                                      ELSE inFlight
    /\ UNCHANGED <<key, waitsFor, request, line, delay, quiet, cached>>

-----------------------------------------------------------------------------
(* Requests: what enqueue() puts before and after them in the chain         *)

Goto(r, step) == request' = [request EXCEPT ![r] = step]

BeginWithoutWait(r) ==
    /\ line # <<>> /\ r = Head(line)
    /\ request[r] = "queued"
    /\ Goto(r, "fetching") /\ quiet' = 0 /\ UNCHANGED delay
    /\ UNCHANGED <<key, pc, waitsFor, inFlight, line, cached>>

BeginWaitsTooLong(r) ==
    /\ line # <<>> /\ r = Head(line)
    /\ request[r] = "queued"
    /\ \/ quiet = Interval /\ Goto(r, "fetching") /\ quiet' = 0 /\ UNCHANGED delay
       \/ quiet < Interval /\ Goto(r, "delayed") /\ delay' = Interval + quiet
                           /\ UNCHANGED quiet
    /\ UNCHANGED <<key, pc, waitsFor, inFlight, line, cached>>

\* The request before it is settled: start at once, or wait for the rest of
\* the interval.
Begin(r) ==
    /\ line # <<>> /\ r = Head(line)
    /\ request[r] = "queued"
    /\ \/ quiet = Interval /\ Goto(r, "fetching") /\ quiet' = 0 /\ UNCHANGED delay
       \/ quiet < Interval /\ Goto(r, "delayed") /\ delay' = Interval - quiet
                           /\ UNCHANGED quiet
    /\ UNCHANGED <<key, pc, waitsFor, inFlight, line, cached>>

DelayOver(r) ==
    /\ request[r] = "delayed"
    /\ delay = 0
    /\ Goto(r, "fetching")
    /\ quiet' = 0
    /\ UNCHANGED <<key, pc, waitsFor, inFlight, line, delay, cached>>

\* How a fetch ends, at the latest after 10 s when its signal aborts it: with
\* results, with none (which is cached as well), or with an error, be it that
\* the service is unreachable, refuses or answers with something else.
FetchOutcomes == {"results", "nothing", "unavailable"}

FetchedBlocksLine(r, outcome) ==
    /\ request[r] = "fetching"
    /\ Goto(r, IF outcome = "unavailable" THEN "rejected" ELSE "storing")
    /\ UNCHANGED <<key, pc, waitsFor, inFlight, line, delay, quiet, cached>>

\* An error rejects the request, and the chain goes on all the same.
Fetched(r, outcome) ==
    /\ request[r] = "fetching"
    /\ \/ outcome = "unavailable" /\ Goto(r, "rejected") /\ line' = Tail(line)
       \/ outcome # "unavailable" /\ Goto(r, "storing") /\ UNCHANGED line
    /\ UNCHANGED <<key, pc, waitsFor, inFlight, delay, quiet, cached>>

\* cache.set is awaited, and its errors are swallowed.
Stored(r) ==
    /\ request[r] = "storing"
    /\ cached' \in {cached, cached \cup {key[r]}}
    /\ Goto(r, "fulfilled")
    /\ line' = Tail(line)
    /\ UNCHANGED <<key, pc, waitsFor, inFlight, delay, quiet>>

-----------------------------------------------------------------------------
(* Time and the cache                                                      *)

Tick ==
    /\ quiet < Interval \/ delay > 0
    /\ quiet' = IF quiet < Interval THEN quiet + 1 ELSE quiet
    /\ delay' = IF delay > 0 THEN delay - 1 ELSE delay
    /\ UNCHANGED <<key, pc, waitsFor, inFlight, request, line, cached>>

\* An entry outlives its time to live.
Expire(k) ==
    /\ k \in cached
    /\ cached' = cached \ {k}
    /\ UNCHANGED <<key, pc, waitsFor, inFlight, request, line, delay, quiet>>

LookupStep(l) ==
    \/ ReadCache(l)
    \/ AnswerFromCache(l)
    \/ Join(l)
    \/ Enqueue(l)
    \/ Return(l)

RequestStep(r) ==
    \/ Begin(r)
    \/ DelayOver(r)
    \/ \E outcome \in FetchOutcomes : Fetched(r, outcome)
    \/ Stored(r)

Next ==
    \/ \E l \in Lookups, k \in Keys : Look(l, k)
    \/ \E l \in Lookups : LookupStep(l)
    \/ \E r \in Lookups : RequestStep(r)
    \/ Tick
    \/ \E k \in Keys : Expire(k)

Spec == Init /\ [][Next]_vars

\* The event loop runs what is ready, Redis and the services answer or fail,
\* and time passes.
Fairness ==
    /\ \A l \in Lookups : WF_vars(LookupStep(l)) /\ WF_vars(RequestStep(l))
    /\ WF_vars(Tick)

FairSpec == Spec /\ Fairness

-----------------------------------------------------------------------------
Unsettled(r) == request[r] \in {"queued", "delayed", "fetching", "storing"}

\* A key is never asked for twice at a time, although a lookup decides to
\* enqueue only after an await in which others may have done so; and an entry
\* of the map is the unsettled request of its key or is about to be removed by
\* the lookup that made it.
OneRequestPerKey ==
    /\ \A q, r \in Lookups : Unsettled(q) /\ Unsettled(r) /\ key[q] = key[r] => q = r
    /\ \A r \in Lookups, k \in Keys :
          inFlight[k] = r <=> key[r] = k /\ pc[r] = "awaiting" /\ waitsFor[r] = r

\* What the services see of the queue is a ThrottledServer.
Running(r) == request[r] \in {"fetching", "storing"}

Serving == IF \E r \in Lookups : Running(r) THEN CHOOSE r \in Lookups : Running(r)
                                            ELSE NoLookup

Server == INSTANCE ThrottledServer
    WITH Clients <- Lookups, Nobody <- NoLookup, serving <- Serving, quiet <- quiet

ThrottleSpec == Server!Spec

\* Every call of search() or reverse() returns or throws, also behind requests
\* that fail.
LookupsEnd ==
    \A l \in Lookups : pc[l] = "reading" ~> pc[l] \in {"answered", "failed"}
=============================================================================
