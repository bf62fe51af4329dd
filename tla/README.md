# Route optimizer: verification project

TLA+ models of the route optimizer (backend: TypeScript on Express, BullMQ, Redis,
PostgreSQL/PostGIS and ws; frontend: Angular), TLC configurations that check them on
small instances, and TLAPS proofs of what matters most for instances of any size.
Paths below are relative to `src/`.

    tlc -workers 2 -config JobsReliable.cfg MCOptimizationJobs.tla
    tlapm OptimizationJobsProofs.tla

## 1. The system

| Component | State | Operations | Modelled by |
|---|---|---|---|
| Job submission (`backend/src/jobs/optimization-queue.ts`, `routes/routes.ts`) | none of its own; a request is between two awaits | `enqueue`: createJob, queue.add, failJob or publish | `OptimizationJobs` |
| Worker (`worker.ts`, `jobs/optimization-processor.ts`) | the job in hand, its attempt | fetch, markProcessing, compute, completeJob, cache, publish; on an error failJob or markQueued, publish, rethrow | `OptimizationJobs` |
| Job repository (`db/job-repository.ts`) | tables `jobs`, `routes` | createJob, markProcessing, markQueued, completeJob, failJob, getJob | `OptimizationJobs` |
| BullMQ and Redis (external) | queue entries, attempts, locks | add, fetch, retry with backoff, stalled check | `OptimizationJobs` (external part) |
| Status feed (`jobs/status-events.ts`, `websocket/job-status-websocket.ts`) | map of rooms, sockets, subscription | connect, snapshot, publish, deliver, close | `JobStatusFeed` |
| Geocoder (`geocoding/geocoder.ts`) | requests in flight, the promise chain, time of the last request | search, reverse, enqueue | `GeocoderQueue` |
| Road graph (`graph/road-graph.ts`, `db/nearest-node.ts`) | adjacency, routable nodes | construction; load, snap | `RoadGraph` (construction), `RouteRequests` (load, snap) |
| Path search (`algorithms/pathfinding.ts`, `binary-heap.ts`) | distances, previous, settled, heap | dijkstraShortestPath, aStarShortestPath | `ShortestPath`, `BinaryHeap` |
| Route optimizer (`algorithms/route-optimizer.ts`) | order of the stops, deadline | nearest neighbour, 2-opt | `RouteOptimizer` |
| Synchronous route handlers (`routes/routes.ts`) | a request between two awaits | cache, snap, search or optimize, cache, answer | `RouteRequests` |
| Ingestion (`backend/scripts/ingest-osm.ts`) | tables `nodes`, `edges`; the batches of the parser | read the extract twice, replace the graph in one transaction | `OsmIngestion` |
| Browser: route builder, map (`frontend/src/app/features`, `services/route-state.service.ts`) | stops, the last request and its result, requests in flight | edit, search, click, submit | `RouteBuilder` |
| Browser: job page (`features/job-status`) | the job shown, polls | look up, poll, open a route | `JobStatusPage` |
| Route cache and keys (`cache/`) | Redis entries | fail-open get and set | where worker, geocoder and handlers use it |
| HTTP shell, saved routes, benchmarks | none | validation, formatting | not modelled |

How they interact. A request inserts a row, adds a queue entry and publishes an event; a
worker in another process takes the entry, writes the row and publishes too. PostgreSQL,
BullMQ and Pub/Sub are three stores without a transaction between them: everything hard about
this part comes from the points between two awaits. The API process subscribes to the
events and forwards them to sockets; a socket also reads the row once when it connects, so two
sources race for what the client sees last. The geocoder serves concurrent lookups in one event
loop with two maps of shared promises and one chain. Routing is sequential, but has invariants
that span data structures: the heap against `settled` and `distances`, the routable component
against the search; only the clock interferes with the optimizer. A process keeps the graph it has
loaded and snaps against tables that an ingestion may have replaced. In the browser one service
outlives the pages; every answer meets a page that has been edited, left or opened again meanwhile.

What is hard, and the property that answers it:

- crashes, lost replies, lost locks and refused statements between the steps of a job:
  `ResultIntegrity`, `RetriesBeforeFailure`, `BoundedWork`, `LockDiscipline`,
  `ResultStands`, `AnnouncementIsTrue`, `SettledAgreement`, `RejectedJobIsFailed`, `ContractSpec`;
- jobs must end and requests be answered: `QueueSettles`, `AcceptedJobsSettle`, `RequestsAnswered`;
- events against snapshots against sockets that come and go: `RoomsAreExact`,
  `AnnouncedRouteExists`, `EndIsHeard` (and `QuietFeedIsCurrent`, which does not hold);
- awaits between a look into a shared map and its use, failures in a promise chain, waiting
  relative to a moving start: `OneRequestPerKey`, `ThrottleSpec`, `LookupsEnd`;
- stale heap entries, ties, components collected in the wrong direction or order: `Shortest`,
  `OnlyPromising`, `QueueIsOrdered`, `RoutableIsLargestComponent`, `RoutablePairsHaveRoutes`;
- a deadline between any two candidates, improvements taken in mid-pass, distances that differ by
  direction: `TourSpec`, `NoImprovingSwapLeft`, `RequestsAreAnswered`;
- tables replaced under a running process, a graph read by two statements, a list of candidates that is
  cut off before it is filtered: `SnappedPointsHaveRoutes`, `RouteIsDrivable`, `SnapsToNearestRoad`,
  `ReplacementIsAtomic`;
- a parser that emits while its consumer goes to sleep: `IngestionEnds`;
- late answers against edits, pages and other answers in the browser: `RouteAnswersRequest`, `SearchesEnd`,
  `WatchEnds`, `JobPageTypeOK` (and `VisitPositionsMatchMap`, which does not hold).

`PROJECT.json` lists the hazards one by one, each with its line.

## 2. The modules and their correspondence to the code

**JobContract** (abstract). What the API promises about a job: absent, queued, processing,
queued again between attempts, then completed with exactly one saved route or failed with a
reason, and nothing after that.

**OptimizationJobs** (detailed, `INSTANCE JobContract`). `row` is table `jobs`, `routes[j]` counts
the rows of table `routes` inserted for j, `cached` the route cache, `queue[j]` BullMQ's record of j
(state, attempts made, stalls, lock, and a ghost counter of starts), `api[j]` and `worker[w]` the
program counters. An action is what runs between two awaits, with all its outcomes:

| Action | Code |
|---|---|
| `CreateJob`, `QueueAdd`, `QueueAddRefused`, `FailEnqueue` | `enqueue`, optimization-queue.ts 36-52 |
| `AnnounceFromApi` | `safePublish` of enqueue and the answer of routes.ts 158-171 |
| `Fetch` | a BullMQ `Worker` takes a job |
| `MarkProcessing` .. `Acknowledge` | `processOptimizationJob`, one statement each |
| `RecordFailure`, `Reject` | the catch block of `processJobWithRetryStatus`, worker.ts 76-111 |
| `BackoffElapsed`, `StalledCheck`, `LockExpires`, `WorkerCrash`, `ApiCrash`, `Redis...` | external |

A database statement succeeds, is refused (`dbRefused`) or is committed without its reply
(`dbReplyLost`). `completeJob` is one transaction and one action; the statements update a
row whatever its status, as in the code. A command of the worker or the publisher waits while
Redis is down, for their connections set `maxRetriesPerRequest: null`; `queue.add` fails after one retry
(`maxRetriesPerRequest: 1`).

**JobStatusFeed** extends OptimizationJobs: publishing steps of the jobs are joined with
the channel, crashes of the API and Redis outages with the loss of sockets and subscription.
`rooms[j]` is the map entry, `members[r]` the Set that r's handler created: a close handler works on
the Set captured at connection time, and the model keeps the two apart for that reason.
`gap` and `heard` are history variables.

**ThrottledServer** (abstract): one request at a time, two starts at least `Interval` apart.
**GeocoderQueue** (detailed, `INSTANCE ThrottledServer`): `inFlight` stands for both maps
(keys tell search and reverse apart), `line` for the promise chain, `delay` for the running
timer, `quiet` for the time since `lastRequestStartedAt`, saturating at Interval.

**RoadGraph**: Kosaraju's algorithm as the code writes it, with an explicit stack, for any order of
rows. `ahead[n]` is the part of n's list of neighbours from the `nextNeighborIndex` of its frame on: `PassOver`
skips a visited neighbour, `Descend` pushes a new one, and `Retreat` finishes a node when its list is used up. **BinaryHeap**:
the array of the heap as a sequence, `push` and `pop` as operators. **ShortestPath** extends both: it
builds the graph, then runs one query. A step settles a heap entry or relaxes one neighbour. Lengths
and heuristic come with the query; the assumption `Consistency` says that the heuristic obeys the
triangle inequality, which holds for great circles and edges made of segments (rounding aside).

**TourImprovement** (abstract): an order that visits every stop once, is only ever replaced by a shorter
one, and is final when the call returns. **RouteOptimizer** (detailed, `INSTANCE TourImprovement`): one
action per iteration of the loops of `optimizeMultiStopRoute`. `legs` is what a search would find for each
ordered pair; the code's cache of pairs only spares repeated searches. `DeadlinePasses` may come between
any two readings of the clock. The two loop variables are the code's, counted from 1, and 0 is
`ORIGIN_INDEX`.

**OsmIngestion**: the script, from the events of the parser to COMMIT. `stream` is the state that the
closures of `readOsm` share (`batches`, `completed`, `failure`, and whether the consumer sleeps in the
promise of `wakeConsumer`). `tables` is what the open transaction sees and `committed` what the others see;
TRUNCATE keeps readers waiting (`Locked`). The script sends BEGIN .. COMMIT through a pool. Since it has
one statement under way at a time it gets the same idle client each time; a client that has failed is closed,
so the server rolls back, and ROLLBACK runs elsewhere without effect. A failed read of the file (not of the
parser) has no listener and ends the process: one of the ways of `KillIngestion`.

**RouteRequests** extends both: an API process that loads its graph by two statements (`LoadNodes`,
`LoadEdges`) and may restart, and one request at a time through the steps of its handler:

| Action | Code (`routes/routes.ts`) |
|---|---|
| `ReceiveRequest`, `AnswerFromCache`, `MissCache` | up to the answer of the cache, 107-118 and 141-171 |
| `SnapPoint(k)` | one query of `Promise.all`, answered in any order; `findNearestNode` |
| `SnapRefused` | one of these queries is refused: the error handler answers 500 `INTERNAL_ERROR` |
| `FindRoute` | point-to-point, 123-134 |
| `CallOptimizer`, `RunOptimizer`, `TakeResult` | optimize, 181-210; steps of RouteOptimizer |
| `StoreAndAnswer` | `cache.set`, which may fail, and the response |

`FindShortestPath` and `LargestComponents` are here what the search and the construction of the graph
promise, defined by reachability and enumeration: ShortestPath and RoadGraph check the code against
that. `findNearestNode` takes, of the first `CandidateLimit` rows by distance, the nearest that is routable; which
of several rows at one distance come first, or are left out at the limit, the query does not say, and the model leaves
it open (`RowsFound`).

**RouteBuilder**: the page with its stops, in the service that outlives it, and the subscriptions and timers
that end with it (`takeUntilDestroyed`, `DestroyRef`). The starting point is the draft with id 0: the code
has every handler twice. Whether a request may be answered with a job depends on the stops of the page when it is
sent and on those of the request itself (`MayBeQueued`), which can differ. `searching` is the flag of the origin and the one id of the stops;
`submission` is the closure of `submit()`, which holds the drafts it took. **JobStatusPage** extends it with the
job page, its overlapping polls and the jobs of the backend. An action is one event: an input, a timer, an
answer, and between two events nothing runs. `JobAnswered` takes the answer and the change of the page in one step:
`router.navigate` goes on in microtasks, as the routes of `app.routes.ts` are loaded at the start and have neither guards nor
resolvers, so that no other event comes between. A job that has ended may be processed again (`JobRepeats`, up to
`MaxRepeats` times), which is what jobs_terminal finds; its saved routes stay.

Modules `MC...` hold the constants of the instances. An operator named after a definition with
a suffix (`RecordFailureEarly`, `RetreatEarly`, ...) is a plausible slip: each property is shown to
notice one. No action uses them.

## 3. The runs

| Run | Instance and bound | What it shows |
|---|---|---|
| jobs_contract | 2 jobs, 2 workers, 3 attempts, up to 2 of: refused statement, Redis outage, API crash; fair | truthful announcements, queue and rows agree, a rejected request leaves a failed row and no entry, `JobContract` is implemented, accepted jobs end, requests are answered |
| jobs_faults | 1 job, 2 workers, 3 attempts, up to 3 faults of all seven kinds, fair | what survives overlapping and repeated runs, the result of a completed job above all; the queue settles |
| jobs_terminal | 1 worker crash | violated: a completed row goes back to processing (README.md:196 calls it terminal) |
| jobs_given_up | 1 refused statement | violated: a job that BullMQ gave up keeps the status processing and has no reason (docs/SRS.md:120) |
| feed_rooms | 1 job, 2 sockets, 1 fault | rooms and connections agree, messages name routes that exist |
| feed_ends | 1 socket, 2 attempts, 1 fault, fair | a client that stays connected hears of the end |
| feed_current | 1 socket, no fault | violated: the last message can be an older status |
| geocoder | 3 lookups, 2 keys, interval 2, fair | one request per key, the throttle, every lookup ends |
| routing | all 4096 graphs of 4 nodes, 8 queries | component, search, path and heap |
| requests | 192 graphs with an origin and three stops, streets under two extracts, fair | tours, snaps, answered routes, the replacement of the tables, and that requests and ingestions end |
| browser | 1 to 2 stops beside the starting point, 2 places, 2 addresses, 2 jobs, 3 inputs, fair | the map shows the route of the request on the page; searches and polls end; the limit of stops holds |
| browser_visits | 1 place, 1 address, 4 inputs | violated: after an edit the list of visits shows a route that the map does not |

Why the bounds are enough to be interesting. Two workers are needed for overlapping runs and two
jobs for a worker that changes jobs; three faults allow a lost lock, a crash and a
refusal in one behaviour, and make a job stall beyond `MaxStalled`. `TotalAttempts = 3` is the code's value.
Two sockets suffice for a Set that one leaves while the other stays or a third generation starts
with an empty map. Three lookups of two keys give a joined request, a second one queued behind it, and
a key that is asked for again. Four nodes are the smallest graph in which a node is improved
twice while another is waiting, and in which both children of a heap node matter; the three
length patterns make detours shorter, equally long and longer than direct edges, with ties and with
two nodes in the same place. Symmetry is used by feed_rooms only, over socket names, which no formula
mentions and which has no liveness.

Three stops are the fewest for which two reversals of an order differ and an improvement in mid-pass is
followed by more candidates; the 192 graphs have asymmetric legs of three lengths, so that a reversal changes the
length of what it reverses. The streets under an extract contain a node that is gone, one that is new, a one-way
street against its direction, a node outside every way and a way of one node; two batches of two
rows and a list of two candidates make both limits bite. One extract puts an element in the file twice. In the
browser the smallest limits (1 stop at least, 2 at most) leave a stop to add and one beyond the limit; three inputs are a
request, an edit while it is answered and another request, or an address, another one while the first is searched for, and
what comes after, or two lookups that overlap. With two places requests of the same length differ. Longer runs of
inputs are left to the theorems, which have no bound. `MaxRepeats = 1` lets
each job leave its end once.

Deadlock is not checked: all requests may have been made and answered, and then the system rests.

Fairness is per process and weak, with one exception: the event loop goes on with what is ready; every running
worker takes its next step; BullMQ's timers fire; Redis comes back (a client waits for it anyway); a handler and the
script go on when their query is answered; the browser's requests are answered and its timers fire. The exception is
a job of the browser model, which is not taken back to the queue for ever (attempts are limited) and so settles
by strong fairness. That it settles at all is an assumption of `WatchEnds`, with the exception that jobs_given_up
shows: the page of such a job goes on watching. Requests, inputs, connections and faults are never forced, and the clock need not strike.
A refused `failJob` leaves a job open for good (`jobs_given_up`): `AcceptedJobsSettle` allows for a job that
BullMQ gave up after a fault, and `jobs_faults` asks only that the queue settles.

The mutated definitions that each property was checked against are listed in `PROJECT.json`.

## 4. The proofs

All for arbitrary sets of jobs, finite sets of workers, any number of attempts, stalls and
faults; of the constants only `ConstantsAssumption` of OptimizationJobs is assumed, where nothing else is said.

`OptimizationJobsProofs`, under all faults:

- `TypeCorrectness`: `Spec => []TypeOK`.
- `LocksAreHonest`, `WorkIsBounded`. `LockDiscipline` and `BoundedWork` are not inductive. `QueueInv` adds
  `NotYetAdded`, that a job whose request has not called queue.add is unknown to BullMQ,
  `StartsAccounted`: every start is a counted attempt, a stall, or the run that is going on or has
  completed the job, and `RoutesAccounted`: the routes saved and the workers that may still save one are together no
  more than the starts. The last one counts a set of workers, which is why they are finite.
- `FailsOnlyAfterRetries`: `AttemptInv` adds that no worker runs ahead of the attempts counted
  (`made` never decreases, so a worker that lost its lock can only lag behind).
- `ResultsAreSound`: `IntegrityInv` adds that a worker about to write the cache works on a job with a
  saved route. Each repository statement is shown to keep a good row good.

- `ResultsStand` (`ResultStands`). Statements check no status, so a run that has lost its job writes over the row of
  the one that has it. `StandInv` says what it cannot take away: no statement unlinks the route, and until a job has
  stalled it has one worker only (`AloneUntilStalled`), although its lock may be gone. So from the commit of completeJob on
  only the failJob of the job's own request, after a lost answer of queue.add, can still change the status.
- `RejectionsAreRecorded` (`RejectedJobIsFailed`), if no answer of queue.add is lost: `RejectedInv` says that a job whose
  request has not passed queue.add, or has ended in an error, is unknown to BullMQ, so that no worker writes its row.

In the same module, under `ReliableFaults` (no crash of a worker, no lost lock or reply):

- `ImplementsContract`: `HeldInv` says that every busy worker holds the lock of its job and that an active job has a
  lock. `ContractInv` relates the row to the program counter of the worker that holds
  the job or of the request that created it. `OneRowMoves` shows that a step changes one row at
  most, and `RefinesStep` maps each step to a step of the contract or a stutter.
- `AnnouncesTheRow` (`AnnouncementIsTrue`): a worker that holds the lock of its job and is about to
  announce finds in the row what it wrote. `SettlesInAgreement` (`SettledAgreement`): the same relation, for the
  jobs that BullMQ has finished with; `FailedOrRefused` says that a row left open has a refused statement behind it.
- `FinalWhenReliable`: the refinement implies that terminal rows are final. The run jobs_terminal
  shows that the hypothesis on crashes is needed.

`JobStatusFeedProofs`, for any set of sockets and under all faults, with `SocketsAssumption` (no socket is
called NoSocket):

- `FeedRefinesJobs`: `FeedSpec => Spec`. To the jobs, each step of the feed is one of their own steps or
  none, so all theorems of `OptimizationJobsProofs` hold with the feed attached.
- `FeedTypes`: `FeedSpec => []FeedTypeOK`. `FeedTypeInv` adds that nothing is read for a socket before it
  connects.
- `RoomsNeverLeak`: `FeedSpec => []RoomsAreExact`. `RoomInv` says that the Set a socket has captured is the one
  the map still holds for its job (`CapturedIsHeld`), that only connected sockets are in a Set
  (`MembersAreConnected`), that a held Set serves one job and is not empty (`HeldServesItsJob`), and that no Set
  is named after a socket that has not connected. A close handler may drop its Set only because of the first.
- `AnnouncementsAreSound`: `FeedSpec => []AnnouncedRouteExists`. Routes are never taken away; a worker that is past
  its transaction holds a saved route; so what is published, in the channel, read for a socket or sent names
  saved routes only. The snapshot needs `ResultIntegrity`, through `IntegrityInvStep`.

`GeocoderQueueProofs`, for any sets of lookups and keys and any interval, with `GeocoderAssumption`:

- `GeocoderTypes`, `OneRequestAtATime` (`OneRequestPerKey`), and `ThrottlesServices`: the line of promises
  implements ThrottledServer, one request at a time with the interval between them. `GeocoderInv` says that
  the line holds exactly the unsettled requests, once each (`LineIsExact`), that only its head has begun
  (`OnlyHeadHasBegun`), that a delay that has passed has completed the interval (`DelayCompletesInterval`), and
  ties lookups, entries and requests together (`OwnersAwait`, `EntriesHaveOwners`).

`RouteRequestsProofs`, first for RouteOptimizer alone, any number of stops, any legs and any moment of the
deadline, with `StopLimits`:

- `OptimizerTypeCorrectness`: the loops of 2-opt stay within the tour.
- `ImprovesATour`: `OptimizerSpec => TourSpec`. `twoOptSwap` is a bijection of the positions onto themselves, so it
  maps tours to tours; nearest neighbour never takes a stop twice, so it ends with all of them; no step but
  `TryCandidate` changes a complete order, and that one only for a shorter one.

Then for RouteRequests, any road networks, extracts, requests, radius and limit of candidates, with
`IngestionAssumption`, `StopLimits` and `RequestsAssumption`: the tables of a situation are finitely many nodes with natural
ids and whole positions, and edges whose lengths are natural numbers (`CHECK (distance_m >= 0)`,
001_create_road_graph.sql:16); `SnapRadius` and `CandidateLimit` are natural numbers; a request has two points or more,
a point-to-point one exactly two (the handlers read an origin and a destination, or an origin and its stops); `NoRoute`
is not itself a leg.

- `RequestsTypeCorrectness`: `Spec => []RequestsTypeOK`. `RequestInv` joins `OptimizerInv` to three parts: the tables and
  all that an ingestion has read hold finitely many nodes with a position (`IngestionInv`), the graph in use has
  its routable nodes among its nodes (`GraphInv`), and a handler that is idle or looks in the cache has
  snapped nothing, and one that is at work has given no answer (`HandlerInv`).
- `RequestsImproveTours`: `Spec => TourSpec`, with restarts and ingestions between any two steps of the optimizer.
- `SnapsAreNearest`: `Spec => SnapsToNearestRoad`. A row nearer than the nearest routable one has fewer
  rows before it in the order of the query, so if the nearest routable row is not among the candidates, the limit is
  full of unroutable rows: the exception that the property states and that the hazard at nearest-node.ts:64 names.
- `LocallyOptimal` (`NoImprovingSwapLeft`). `SwapInv` says that `best` is the length of the order, and that of the pairs
  this pass has tried (`Tried`: those before the two loop variables) none shortens the order, unless the pass has improved
  it: the flag `improved` is what sends the loop round again when the order has changed under pairs tried earlier. `MapInv`
  carries the lengths that make such comparisons meaningful, from the rows of an extract through the tables and the graph
  to the legs and their sum (`TourLengthAddsUp`).
- `ReplacedAtomically` (`ReplacementIsAtomic`). `StreamInv` ties the events of the parser to the file: what waits in
  `batches` is the file from the batch consumed last onwards, and a stream that is complete and has not failed has emitted
  all of it. `PassInv` says that a pass has found exactly what the consumed part of the file describes, so that two
  complete passes find the graph of the whole file (`GraphOf`), however it is cut into batches. `TableInv` says of each
  statement what has been inserted and what is pending, and that outside the transaction the tables are the committed
  ones. An extract that changes between the passes is excluded by the model, as one run names one file.
- `RoutesAreFound` (`SnappedPointsHaveRoutes`). `NetInv`: in a graph that is in use there is a leg between any two routable
  nodes, also if its nodes and edges were loaded around a commit, because the component is computed from what was loaded.
  The lemmas before it show that what `ReachableFrom` reaches is joined by a path, that it is enough to go round as often
  as there are nodes, and that a path that comes back to a node can be cut to a simple one, which is what the search
  enumerates. `LegsInv` says that a tour in progress works on the legs between the snapped nodes of its
  request on the graph in use: a restart takes both away.
- `RoutesAreDrivable` (`RouteIsDrivable`). `ToursAreDriven`, an induction on the length of a tour: the path that `TourPath`
  joins from legs is joined at each seam, where the node that two legs share is put in once, it passes the stops in order, and
  its length is that of the tour, which the response states.


`JobStatusPageProofs`, for any number of stops, jobs, inputs and answers under way:

- `DrawnRoutesAnswer`: `Spec => []RouteAnswersRequest`. `PageInv` adds that a request that is being answered is the one
  on the page unless an edit has taken that back, and that only an open builder page asks for anything and
  only an open job page waits for a saved route: without that, a saved route could come between a
  request and its answer.
- `PagesTypeCorrectness`: `Spec => []JobPageTypeOK`, with `BuilderAssumption` on the limits. `PagesInv` adds that timers and
  suggestions are gone when the page is left, and that whatever may come back as the list of stops was within the limit
  when it was taken: the drafts of a submission, the request that was sent, and that of every job.

`ShortestPathProofs` (with the lemmas of `RoadGraphProofs` and `FiniteRecursion`), for any finite set of nodes
(`NodesAssumption`), all edges, any order of rows, and any queries that satisfy `Consistency`: lengths and estimates
are natural numbers, the goal is estimated at 0, and no estimate exceeds that of another node plus the length of the
edge to it. With the constant 0 as the estimate this is Dijkstra's algorithm, without condition on the lengths.

- `LargestComponentIsRoutable` (`RoutableIsLargestComponent`). `Leads(E, x, y)` says without recursion that there is a path:
  every set closed under the edges that has x has y; `ReachableIsLeads` shows that `ReachableFrom` of the model is just
  that. `GraphInv` holds for the construction what Kosaraju's argument needs. In the first pass a node of the stack
  was reached from those below it (`FirstPassInv`), and the neighbours that a frame has left behind are visited (`AheadInv`). For a neighbour w of the i-th finished node (`FinishOrderInv`), w was
  finished before it, or w leads to everything finished between the two, which makes w an ancestor. In the second
  pass no reversed edge leads out of what is complete, and what is in progress is mutually reachable (`SecondPassInv`);
  what is complete consists of whole components, of which `largest` is one with the most nodes (`LargestInv`).
- `QueueStaysOrdered` (`QueueIsOrdered`): `Push` and `Pop` keep the order and the items, for every length. While an item rises,
  the order holds up to its position and above (`Risen`); while it sinks, only below it may the order be broken (`Sunk`).
- `SearchTypes` (`SearchTypeOK`) and the invariant they all rest on, `SearchInv`. An entry of the queue is as long as the
  distance of its node or stale, and a node that is known and not settled has an entry that is not (`QueueInv`). The
  node settled last has the greatest estimate of all settled ones, and no entry has a smaller one (`SettledInv`): this
  is where consistency is needed, and what makes it right that a settled node is never opened again. The edges out of
  settled nodes have been looked at, those of the current node as far as `rest` says (`RelaxedInv`). `previous` leads
  along edges that add up to the distances, from each settled node to one settled earlier (`PreviousInv`).
- `RoutesAreShortest` (`Shortest`) and `SettledArePromising` (`OnlyPromising`). `AlongPath` is the lower bound: along any path
  from the start, either the node has been settled at a distance no longer than the path so far, or the path so far
  plus the estimate exceeds the length found. `BackTraces` and `PathToGoesBack` show that `PathTo` ends at the start: the
  nodes it visits were settled ever earlier, so none comes twice and `Cardinality(Nodes)` steps are enough. A search
  that ends with an empty queue has settled a closed set without the goal (`NoneMeansNoWay`).
- `RoutablePairs` (`RoutablePairsHaveRoutes`) joins the two halves: the invariant of the construction survives to the
  search, two routable nodes lead to each other, so that set cannot exist.

Functions that recurse over positions, paths or numbers of steps are defined by CHOOSE to the provers. `FiniteRecursion` shows
once that such functions exist, by induction on the least counterexample (the induction theorems of the library have
an operator as a parameter): `Iteration` for values computed one from the other, `RankedRecursion` for those computed
from values of a lower rank, as for parents and children in the heap. The remaining inductions cite `Induction`, where
a property is the set of the numbers that have it.

Only model-checked: liveness under fairness (`AcceptedJobsSettle`, `QueueSettles`, `RequestsAnswered`, `EndIsHeard`,
`LookupsEnd`, `RequestsAreAnswered`, `IngestionEnds`, `SearchesEnd`, `WatchEnds`), since the prover has no rules for ENABLED.
Every invariant, action property and refinement that a run checks is also stated by a theorem.
That `FindShortestPath` and `LargestComponents` of RouteRequests describe what the algorithms of ShortestPath and
RoadGraph compute is argued above and not itself a theorem: the two levels name their graphs differently.

## 5. Not modelled, and why

Coordinates, PostGIS and floating point (data no property distinguishes: positions are points on a line, lengths
integers); validation, formatting and log lines; start and shutdown of the processes; BullMQ's removal of old entries
and its rate limits; the time to live of cached entries (an entry may be missed at any time).

Two edges between the same nodes and loops are left out of RoadGraph; a traversal skips the loop
and the search takes the shorter of two edges. `FindShortestPath` of RouteRequests returns a shortest path, which A* does
for a heuristic that never overestimates: edges are measured between their ends, so the great circle never does.

In the script: the count of components for the log and the speeds. `migrate.ts` runs once, before anything else.
In the browser: the mode that compares the two algorithms (two requests whose answers no other state meets), messages,
layers, zoom and formatting. Benchmarks, load test and HTTP wiring keep no state of the system.

Two things leave a row queued for a job that never runs: a refused `failJob` in `enqueue` (of the requests that are
answered with an error only these, says `RejectedJobIsFailed`), and an API process that dies between createJob and
`queue.add`. The code has no reconciliation of rows with the queue, hence nothing to check about their repair.

## 6. What the models show about the code

Checked disagreements (runs that expect a violation): jobs_terminal, jobs_given_up, feed_current and
browser_visits; `PROJECT.json` quotes the lines they contradict. Noticed while modelling, and reproduced by
the actions although no run states them as claims:

- `loading` belongs to the service and is cleared by the answer, which the page no longer receives when it is left
  during a submission: the button stays disabled until a saved route is opened.
- An answer for an address that has changed returns before `searching` is cleared (`route-builder.ts:136` and 175). An edit
  starts another search after a pause, which clears it; when the address is cleared or the mode changed, none does,
  and the button says 'Searching' with no search under way. `SearchesEnd` therefore speaks of addresses that still need
  a search. All stops share one indicator, so that a search that ends clears that of another stop.
- A request whose `queue.add` was executed and not answered gets an error for a job that runs, and its failJob may mark the
  row of a completed job as failed (`optimization-queue.ts:52`); the row keeps its route, as `ResultStands` says.
- A click on the map at the limit checks the number of stops long before it adds one; the second check
  drops the stop, and the message says that it was added (`route-map.ts:203`).
- Two lookups on the job page poll side by side and write the same fields, so that the job shown need not be
  the one asked for last (`job-status.ts:62`); only that watching ends is promised and checked.
- Edits made while addresses are resolved are not part of the request and, for the resolved drafts, overwritten.
- `CACHE_TTL_SECONDS` lets an answer computed on an earlier graph be served after an ingestion; only answers that are
  computed are checked against the graph of the process.
- A process whose graph was loaded around a commit has old nodes and new edges. Edges of unknown nodes are
  dropped and the routable component is computed from what is left, so that requests are still answered with
  drivable routes of that mixed graph, until the process is restarted.

Next, if the project grows: a theorem that the search of ShortestPath returns what `FindShortestPath` of RouteRequests
promises, and the closing of sockets at shutdown.
