-------------------------- MODULE OptimizationJobs --------------------------
(***************************************************************************)
(* Background optimization jobs: the API process that stores and enqueues  *)
(* a job (backend/src/jobs/optimization-queue.ts), the worker processes    *)
(* that run it (worker.ts, jobs/optimization-processor.ts), the rows they  *)
(* write (db/job-repository.ts) and the BullMQ queue between them.         *)
(*                                                                         *)
(* One action is the code between two awaits: a database statement, a      *)
(* Redis command or the computation itself, with every outcome the caller  *)
(* can see.  BullMQ and Redis are external and modelled from how the code  *)
(* uses them: a job that is fetched is locked by its worker, an attempt    *)
(* that throws is retried until the attempts given at enqueue time are     *)
(* used up, a job whose lock is gone is stalled and is fetched again.      *)
(***************************************************************************)
EXTENDS Naturals, FiniteSets

CONSTANTS
    Jobs,           \* job ids, one POST /api/routes/optimize request each
    Workers,        \* worker processes, each runs one job at a time
    NoWorker,       \* holder of a lock that nobody holds
    NoJob,          \* what an idle worker works on
    TotalAttempts,  \* attempts option of queue.add
    MaxStalled,     \* BullMQ's maxStalledCount, left at its default by worker.ts
    FaultKinds,     \* which faults may happen, a subset of AllFaults
    MaxFaults       \* bound: how many faults may happen in one behaviour

(***************************************************************************)
(* dbRefused: a statement fails and changes nothing.  dbReplyLost: it is   *)
(* committed and the caller sees an error.  queueReplyLost: the same for   *)
(* queue.add.  redisDown: Redis is unreachable for a while.  lockLost: a   *)
(* lock is not renewed in time because the event loop of the worker is     *)
(* blocked by the computation or cut off from Redis.                       *)
(***************************************************************************)
AllFaults == {"dbRefused", "dbReplyLost", "queueReplyLost", "redisDown",
              "lockLost", "workerCrash", "apiCrash"}

\* The faults under which a client may trust every status it has read: no
\* worker is interrupted and no reply is lost.
ReliableFaults == {"dbRefused", "redisDown", "apiCrash"}

ASSUME ConstantsAssumption ==
    /\ NoWorker \notin Workers /\ IsFiniteSet(Workers)
    /\ NoJob \notin Jobs
    /\ TotalAttempts \in Nat \ {0}
    /\ MaxStalled \in Nat
    /\ FaultKinds \subseteq AllFaults
    /\ MaxFaults \in Nat

VARIABLES
    row,        \* row[j]: the row of j in table jobs
    routes,     \* routes[j]: how many rows of table routes were inserted for j
    cached,     \* jobs whose response was written to the route cache
    api,        \* api[j]: where the request that submits j is
    queue,      \* queue[j]: BullMQ's record of j
    worker,     \* worker[w]: where worker w is
    redis,      \* Redis is "up" or "down"
    faultsLeft  \* faults that may still happen

vars == <<row, routes, cached, api, queue, worker, redis, faultsLeft>>

Statuses == {"absent", "queued", "processing", "completed", "failed"}
Terminal == {"completed", "failed"}
Reasons == {"none", "enqueue", "attempt"}  \* error_reason; none is NULL
ApiSteps == {"idle", "add", "fail", "sayFailed", "sayQueued",
             "accepted", "errored", "dead"}
WorkerSteps == {"idle", "mark", "sayProcessing", "compute", "complete", "cache",
                "sayCompleted", "ack", "caught", "sayFailed", "sayQueued", "nack"}
QueueStates == {"none", "waiting", "active", "delayed", "completed", "failed"}

NoRow == [status |-> "absent", route |-> 0, reason |-> "none"]
NotQueued == [state |-> "none", made |-> 0, stalls |-> 0, started |-> 0,
              lock |-> NoWorker]
IdleWorker == [pc |-> "idle", job |-> NoJob, made |-> 0, route |-> 0]

(***************************************************************************)
(* A job-status event as it is published: route 0 is a null routeId.       *)
(***************************************************************************)
Event(j, s, route, reason) ==
    [job |-> j, status |-> s, route |-> route, reason |-> reason]

TypeOK ==
    /\ row \in [Jobs -> [status : Statuses, route : Nat, reason : Reasons]]
    /\ routes \in [Jobs -> Nat]
    /\ cached \in SUBSET Jobs
    /\ api \in [Jobs -> ApiSteps]
    /\ queue \in [Jobs -> [state : QueueStates, made : Nat, stalls : Nat,
                           started : Nat, lock : Workers \cup {NoWorker}]]
    /\ worker \in [Workers -> [pc : WorkerSteps, job : Jobs \cup {NoJob},
                               made : Nat, route : Nat]]
    /\ \A w \in Workers : worker[w].pc # "idle" => worker[w].job \in Jobs
    /\ redis \in {"up", "down"}
    /\ faultsLeft \in 0 .. MaxFaults

Init ==
    /\ row = [j \in Jobs |-> NoRow]
    /\ routes = [j \in Jobs |-> 0]
    /\ cached = {}
    /\ api = [j \in Jobs |-> "idle"]
    /\ queue = [j \in Jobs |-> NotQueued]
    /\ worker = [w \in Workers |-> IdleWorker]
    /\ redis = "up"
    /\ faultsLeft = MaxFaults

-----------------------------------------------------------------------------
(* Faults and the outcomes of a database statement                         *)

Fault(kind) ==
    /\ kind \in FaultKinds
    /\ faultsLeft > 0
    /\ faultsLeft' = faultsLeft - 1

DbOutcomes == {"ok", "dbRefused", "dbReplyLost"}

\* The statement that turns the row of j into r ends with outcome o.
Write(j, r, o) ==
    /\ IF o = "ok" THEN UNCHANGED faultsLeft ELSE Fault(o)
    /\ row' = IF o = "dbRefused" THEN row ELSE [row EXCEPT ![j] = r]

-----------------------------------------------------------------------------
(* The statements of PostgresJobRepository: what each makes of a row.      *)
(* None of them looks at the status it overwrites.  Here and below, an     *)
(* operator named after another with a suffix (QueuedRowNewStatus) is a    *)
(* slip that the properties are shown to notice; no action uses it.        *)

CreatedRow == [status |-> "queued", route |-> 0, reason |-> "none"]
ProcessingRow(r) == [r EXCEPT !.status = "processing", !.reason = "none"]
QueuedRowNewStatus(r) == [r EXCEPT !.status = "retrying"]
QueuedRow(r) == [r EXCEPT !.status = "queued"]
CompletedRow(id) == [status |-> "completed", route |-> id, reason |-> "none"]
FailedRow(r, reason) == [r EXCEPT !.status = "failed", !.reason = reason]

-----------------------------------------------------------------------------
(* The API process: POST /api/routes/optimize beyond the cache miss, that  *)
(* is enqueue() and the 202 or error response.                             *)

ApiGoto(j, step) == api' = [api EXCEPT ![j] = step]

\* createJob: an error propagates out of enqueue() and becomes a 500.
CreateJob(j, o) ==
    /\ api[j] = "idle"
    /\ Write(j, CreatedRow, o)
    /\ ApiGoto(j, IF o = "ok" THEN "add" ELSE "errored")
    /\ UNCHANGED <<routes, cached, queue, worker, redis>>

\* queue.add succeeds, or is executed by Redis and answered with an error.
QueueAdd(j) ==
    /\ api[j] = "add"
    /\ redis = "up"
    /\ queue' = [queue EXCEPT ![j].state = "waiting"]
    /\ \/ ApiGoto(j, "sayQueued") /\ UNCHANGED faultsLeft
       \/ ApiGoto(j, "fail") /\ Fault("queueReplyLost")
    /\ UNCHANGED <<row, routes, cached, worker, redis>>

\* queue.add gives up: its connection retries a command only once.
QueueAddRefused(j) ==
    /\ api[j] = "add"
    /\ redis = "down"
    /\ ApiGoto(j, "fail")
    /\ UNCHANGED <<row, routes, cached, queue, worker, redis, faultsLeft>>

FailEnqueueRowForgotten(j, o) ==
    /\ api[j] = "fail"
    /\ o = "ok"
    /\ ApiGoto(j, "sayFailed")
    /\ UNCHANGED <<row, routes, cached, queue, worker, redis, faultsLeft>>

\* The catch block of enqueue(): if failJob itself fails nothing is published.
FailEnqueue(j, o) ==
    /\ api[j] = "fail"
    /\ Write(j, FailedRow(row[j], "enqueue"), o)
    /\ ApiGoto(j, IF o = "ok" THEN "sayFailed" ELSE "errored")
    /\ UNCHANGED <<routes, cached, queue, worker, redis>>

\* safePublish in enqueue().  The publisher's connection retries for ever, so
\* the handler waits here while Redis is down.
ApiAnnouncement(j) == IF api[j] = "sayFailed" THEN Event(j, "failed", 0, "enqueue")
                                              ELSE Event(j, "queued", 0, "none")

AnnounceFromApiNoRethrow(j) ==
    /\ redis = "up"
    /\ api[j] = "sayQueued" /\ ApiGoto(j, "accepted")
    /\ UNCHANGED <<row, routes, cached, queue, worker, redis, faultsLeft>>

AnnounceFromApi(j) ==
    /\ redis = "up"
    /\ \/ api[j] = "sayFailed" /\ ApiGoto(j, "errored")
       \/ api[j] = "sayQueued" /\ ApiGoto(j, "accepted")
    /\ UNCHANGED <<row, routes, cached, queue, worker, redis, faultsLeft>>

\* The API process dies and is restarted: every request in progress is lost.
ApiCrash ==
    /\ Fault("apiCrash")
    /\ api' = [j \in Jobs |-> IF api[j] \in {"idle", "accepted", "errored"}
                              THEN api[j] ELSE "dead"]
    /\ UNCHANGED <<row, routes, cached, queue, worker, redis>>

-----------------------------------------------------------------------------
(* The worker processes: processJobWithRetryStatus() around                *)
(* processOptimizationJob().                                               *)

WorkerGoto(w, step) == worker' = [worker EXCEPT ![w].pc = step]

\* An error anywhere in processOptimizationJob is caught and counted.
Proceed(w, step, o) == WorkerGoto(w, IF o = "ok" THEN step ELSE "caught")

\* BullMQ moves a waiting job to active, locks it and calls the processor.
Fetch(w, j) ==
    /\ redis = "up"
    /\ worker[w].pc = "idle"
    /\ queue[j].state = "waiting"
    /\ queue' = [queue EXCEPT ![j].state = "active", ![j].lock = w,
                              ![j].started = @ + 1]
    /\ worker' = [worker EXCEPT ![w] = [pc |-> "mark", job |-> j,
                                        made |-> queue[j].made, route |-> 0]]
    /\ UNCHANGED <<row, routes, cached, api, redis, faultsLeft>>

MarkProcessing(w, o) ==
    LET j == worker[w].job IN
    /\ worker[w].pc = "mark"
    /\ Write(j, ProcessingRow(row[j]), o)
    /\ Proceed(w, "sayProcessing", o)
    /\ UNCHANGED <<routes, cached, api, queue, redis>>

\* Snapping and optimizeRoute: reads the graph and the database, writes
\* nothing, and may throw (no node within the radius, no route, no database).
Compute(w) ==
    /\ worker[w].pc = "compute"
    /\ \/ WorkerGoto(w, "complete")
       \/ WorkerGoto(w, "caught")
    /\ UNCHANGED <<row, routes, cached, api, queue, redis, faultsLeft>>

CompleteJobUpdateFirst(w, o) ==
    LET j == worker[w].job
        id == routes[j] + 1
    IN
    /\ worker[w].pc = "complete"
    /\ Write(j, CompletedRow(id), o)
    /\ routes' = IF o = "ok" THEN [routes EXCEPT ![j] = id] ELSE routes
    /\ worker' = [worker EXCEPT ![w].pc = IF o = "ok" THEN "cache" ELSE "caught",
                                ![w].route = IF o = "ok" THEN id ELSE 0]
    /\ UNCHANGED <<cached, api, queue, redis>>

\* completeJob: one transaction inserts the route under a fresh id and
\* completes the row with it.
CompleteJob(w, o) ==
    LET j == worker[w].job
        id == routes[j] + 1
    IN
    /\ worker[w].pc = "complete"
    /\ Write(j, CompletedRow(id), o)
    /\ routes' = IF o = "dbRefused" THEN routes ELSE [routes EXCEPT ![j] = id]
    /\ worker' = [worker EXCEPT ![w].pc = IF o = "ok" THEN "cache" ELSE "caught",
                                ![w].route = IF o = "ok" THEN id ELSE 0]
    /\ UNCHANGED <<cached, api, queue, redis>>

\* The route cache swallows its errors.
CacheResult(w) ==
    /\ worker[w].pc = "cache"
    /\ cached' = IF redis = "up" THEN cached \cup {worker[w].job} ELSE cached
    /\ WorkerGoto(w, "sayCompleted")
    /\ UNCHANGED <<row, routes, api, queue, redis, faultsLeft>>

AcknowledgeUnlocked(w) ==
    /\ worker[w].pc = "ack"
    /\ redis = "up"
    /\ queue' = [queue EXCEPT ![worker[w].job].state = "completed"]
    /\ worker' = [worker EXCEPT ![w] = IdleWorker]
    /\ UNCHANGED <<row, routes, cached, api, redis, faultsLeft>>

\* The processor returns and BullMQ completes the job, unless the worker no
\* longer holds the lock: then Redis refuses and only an error is logged.
Acknowledge(w) ==
    LET j == worker[w].job IN
    /\ worker[w].pc = "ack"
    /\ redis = "up"
    /\ queue' = IF queue[j].lock = w
                THEN [queue EXCEPT ![j].state = "completed", ![j].lock = NoWorker]
                ELSE queue
    /\ worker' = [worker EXCEPT ![w] = IdleWorker]
    /\ UNCHANGED <<row, routes, cached, api, redis, faultsLeft>>

IsFinalAttempt(w) == worker[w].made + 1 >= TotalAttempts

RecordFailureKeepsRow(w, o) ==
    LET j == worker[w].job IN
    /\ worker[w].pc = "caught"
    /\ Write(j, IF IsFinalAttempt(w) THEN FailedRow(row[j], "attempt") ELSE row[j], o)
    /\ WorkerGoto(w, CASE o # "ok" -> "nack"
                       [] o = "ok" /\ IsFinalAttempt(w) -> "sayFailed"
                       [] o = "ok" /\ ~IsFinalAttempt(w) -> "sayQueued")
    /\ UNCHANGED <<routes, cached, api, queue, redis>>

RecordFailureEarly(w, o) ==
    LET j == worker[w].job IN
    /\ worker[w].pc = "caught"
    /\ Write(j, IF worker[w].made + 2 >= TotalAttempts THEN FailedRow(row[j], "attempt")
                                                       ELSE QueuedRow(row[j]), o)
    /\ WorkerGoto(w, "nack")
    /\ UNCHANGED <<routes, cached, api, queue, redis>>

RecordFailureAlwaysQueued(w, o) ==
    /\ worker[w].pc = "caught"
    /\ Write(worker[w].job, QueuedRow(row[worker[w].job]), o)
    /\ WorkerGoto(w, IF o = "ok" THEN "sayQueued" ELSE "nack")
    /\ UNCHANGED <<routes, cached, api, queue, redis>>

\* The catch block of processJobWithRetryStatus.  If its own statement fails
\* that error is thrown instead and nothing is published.
RecordFailure(w, o) ==
    LET j == worker[w].job IN
    /\ worker[w].pc = "caught"
    /\ Write(j, IF IsFinalAttempt(w) THEN FailedRow(row[j], "attempt")
                                     ELSE QueuedRow(row[j]), o)
    /\ WorkerGoto(w, CASE o # "ok" -> "nack"
                       [] o = "ok" /\ IsFinalAttempt(w) -> "sayFailed"
                       [] o = "ok" /\ ~IsFinalAttempt(w) -> "sayQueued")
    /\ UNCHANGED <<routes, cached, api, queue, redis>>

RejectUncounted(w) ==
    LET j == worker[w].job IN
    /\ worker[w].pc = "nack"
    /\ redis = "up"
    /\ queue' = IF queue[j].lock = w
                THEN [queue EXCEPT ![j].state = "delayed", ![j].lock = NoWorker]
                ELSE queue
    /\ worker' = [worker EXCEPT ![w] = IdleWorker]
    /\ UNCHANGED <<row, routes, cached, api, redis, faultsLeft>>

\* The processor throws: BullMQ counts the attempt and delays or fails the
\* job, with the same proviso on the lock.
Reject(w) ==
    LET j == worker[w].job IN
    /\ worker[w].pc = "nack"
    /\ redis = "up"
    /\ queue' = IF queue[j].lock = w
                THEN [queue EXCEPT ![j].state = IF IsFinalAttempt(w) THEN "failed"
                                                                     ELSE "delayed",
                                   ![j].made = @ + 1, ![j].lock = NoWorker]
                ELSE queue
    /\ worker' = [worker EXCEPT ![w] = IdleWorker]
    /\ UNCHANGED <<row, routes, cached, api, redis, faultsLeft>>

\* publish in processOptimizationJob and safePublish in worker.ts: what the
\* worker says at each step, and where it goes on.
WorkerAnnouncement(w) ==
    LET j == worker[w].job IN
    CASE worker[w].pc = "sayProcessing" -> Event(j, "processing", 0, "none")
      [] worker[w].pc = "sayCompleted" -> Event(j, "completed", worker[w].route, "none")
      [] worker[w].pc = "sayFailed" -> Event(j, "failed", 0, "attempt")
      [] worker[w].pc = "sayQueued" -> Event(j, "queued", 0, "none")

\* Bug: the report on a failed attempt is repeated without end.
AnnounceFromWorkerAgain(w) ==
    /\ redis = "up"
    /\ worker[w].pc \in {"sayProcessing", "sayCompleted", "sayFailed", "sayQueued"}
    /\ WorkerGoto(w, CASE worker[w].pc = "sayProcessing" -> "compute"
                       [] worker[w].pc = "sayCompleted" -> "ack"
                       [] worker[w].pc \in {"sayFailed", "sayQueued"} -> worker[w].pc)
    /\ UNCHANGED <<row, routes, cached, api, queue, redis, faultsLeft>>

AnnounceFromWorkerSwallows(w) ==
    /\ redis = "up"
    /\ worker[w].pc \in {"sayProcessing", "sayCompleted", "sayFailed", "sayQueued"}
    /\ WorkerGoto(w, CASE worker[w].pc = "sayProcessing" -> "compute"
                       [] worker[w].pc \in {"sayCompleted", "sayFailed", "sayQueued"} -> "ack")
    /\ UNCHANGED <<row, routes, cached, api, queue, redis, faultsLeft>>

AnnounceFromWorker(w) ==
    /\ redis = "up"
    /\ worker[w].pc \in {"sayProcessing", "sayCompleted", "sayFailed", "sayQueued"}
    /\ WorkerGoto(w, CASE worker[w].pc = "sayProcessing" -> "compute"
                       [] worker[w].pc = "sayCompleted" -> "ack"
                       [] worker[w].pc \in {"sayFailed", "sayQueued"} -> "nack")
    /\ UNCHANGED <<row, routes, cached, api, queue, redis, faultsLeft>>

-----------------------------------------------------------------------------
(* BullMQ, Redis and the faults                                            *)

BackoffElapsed(j) ==
    /\ redis = "up"
    /\ queue[j].state = "delayed"
    /\ queue' = [queue EXCEPT ![j].state = "waiting"]
    /\ UNCHANGED <<row, routes, cached, api, worker, redis, faultsLeft>>

\* The stalled check finds an active job without a lock.  Nobody tells the
\* repository when the job has stalled too often.
StalledCheck(j) ==
    /\ redis = "up"
    /\ queue[j].state = "active"
    /\ queue[j].lock = NoWorker
    /\ queue' = [queue EXCEPT ![j].stalls = @ + 1,
                              ![j].state = IF queue[j].stalls + 1 > MaxStalled
                                           THEN "failed" ELSE "waiting"]
    /\ UNCHANGED <<row, routes, cached, api, worker, redis, faultsLeft>>

\* The lock of a job expires while its worker cannot renew it.
LockExpires(w) ==
    LET j == worker[w].job IN
    /\ worker[w].pc # "idle"
    /\ worker[w].pc = "compute" \/ redis = "down"
    /\ queue[j].lock = w
    /\ Fault("lockLost")
    /\ queue' = [queue EXCEPT ![j].lock = NoWorker]
    /\ UNCHANGED <<row, routes, cached, api, worker, redis>>

\* The worker process dies and is restarted; the lock it held runs out.
WorkerCrash(w) ==
    LET j == worker[w].job IN
    /\ worker[w].pc # "idle"
    /\ Fault("workerCrash")
    /\ worker' = [worker EXCEPT ![w] = IdleWorker]
    /\ queue' = IF queue[j].lock = w THEN [queue EXCEPT ![j].lock = NoWorker] ELSE queue
    /\ UNCHANGED <<row, routes, cached, api, redis>>

RedisFails ==
    /\ redis = "up"
    /\ Fault("redisDown")
    /\ redis' = "down"
    /\ UNCHANGED <<row, routes, cached, api, queue, worker>>

RedisRecovers ==
    /\ redis = "down"
    /\ redis' = "up"
    /\ UNCHANGED <<row, routes, cached, api, queue, worker, faultsLeft>>

-----------------------------------------------------------------------------
(***************************************************************************)
(* The status feed joins the steps that publish on its channel,            *)
(* AnnounceFromApi and AnnounceFromWorker, and those that cut it off,      *)
(* ApiCrash and RedisFails; the other steps are silent.                    *)
(***************************************************************************)
SilentApiStep(j) ==
    \/ QueueAdd(j)
    \/ QueueAddRefused(j)
    \/ \E o \in DbOutcomes : FailEnqueue(j, o)

SilentWorkerStep(w) ==
    \/ \E o \in DbOutcomes : MarkProcessing(w, o)
    \/ Compute(w)
    \/ \E o \in DbOutcomes : CompleteJob(w, o)
    \/ CacheResult(w)
    \/ Acknowledge(w)
    \/ \E o \in DbOutcomes : RecordFailure(w, o)
    \/ Reject(w)

Silent ==
    \/ \E j \in Jobs, o \in DbOutcomes : CreateJob(j, o)
    \/ \E j \in Jobs : SilentApiStep(j)
    \/ \E w \in Workers, j \in Jobs : Fetch(w, j)
    \/ \E w \in Workers : SilentWorkerStep(w)
    \/ \E j \in Jobs : BackoffElapsed(j)
    \/ \E j \in Jobs : StalledCheck(j)
    \/ \E w \in Workers : LockExpires(w)
    \/ \E w \in Workers : WorkerCrash(w)
    \/ RedisRecovers

Next ==
    \/ Silent
    \/ ApiCrash
    \/ RedisFails
    \/ \E j \in Jobs : AnnounceFromApi(j)
    \/ \E w \in Workers : AnnounceFromWorker(w)

Spec == Init /\ [][Next]_vars

(***************************************************************************)
(* Every process that is up takes its next step, BullMQ fetches, retries   *)
(* and checks for stalled jobs, and Redis comes back.  No request has to   *)
(* be made and no fault has to happen.                                     *)
(***************************************************************************)
Fairness ==
    /\ \A j \in Jobs : WF_vars(SilentApiStep(j) \/ AnnounceFromApi(j))
    /\ \A w \in Workers : WF_vars(SilentWorkerStep(w) \/ AnnounceFromWorker(w))
    /\ \A w \in Workers : WF_vars(\E j \in Jobs : Fetch(w, j))
    /\ \A j \in Jobs : WF_vars(BackoffElapsed(j)) /\ WF_vars(StalledCheck(j))
    /\ WF_vars(RedisRecovers)

FairSpec == Spec /\ Fairness

-----------------------------------------------------------------------------
(* What holds under every fault                                            *)

\* A completed row points to a route that was saved for its job and carries
\* no error, a failed row says why, and only a job with a saved route has a
\* cached response: readers of GET /api/jobs/:job_id never follow a dangling
\* route_id, however completions and failures of overlapping runs interleave.
ResultIntegrity ==
    \A j \in Jobs :
        /\ row[j].status = "completed" => row[j].route > 0 /\ row[j].reason = "none"
        /\ row[j].status = "failed" => row[j].reason # "none"
        /\ row[j].route <= routes[j]
        /\ j \in cached => routes[j] > 0

\* The worker marks a job failed only in its last attempt: whatever was lost
\* or repeated, the queue has counted all the earlier attempts as failed.
RetriesBeforeFailure ==
    \A j \in Jobs : row[j].reason = "attempt" => queue[j].made + 1 >= TotalAttempts

\* A job is started at most once per attempt and once more per tolerated
\* stall, and each start saves at most one route: the orphaned routes that a
\* job can leave behind are bounded too.
BoundedWork ==
    \A j \in Jobs : /\ queue[j].started <= TotalAttempts + MaxStalled
                    /\ routes[j] <= queue[j].started

\* The lock is held by a worker that is working on that very job: two workers
\* that believe to own a job never both acknowledge it.
LockDiscipline ==
    \A j \in Jobs, w \in Workers :
        queue[j].lock = w => /\ queue[j].state = "active"
                             /\ worker[w].pc # "idle"
                             /\ worker[w].job = j
                             /\ worker[w].made = queue[j].made

\* The result of a job that BullMQ completed stands: the row keeps the link to
\* a saved route whatever an older run of the job, or the failJob of a request
\* whose queue.add was executed and not answered, writes after it.  The status
\* stands too, unless the job has stalled (two workers may have run it) or
\* that failJob came last.
ResultStands ==
    \A j \in Jobs : queue[j].state = "completed" =>
        /\ row[j].route > 0
        /\ queue[j].stalls = 0 => row[j].status = "completed" \/ row[j].reason = "enqueue"

\* Once BullMQ has a job it reaches the completed or the failed set, even if
\* workers crash and locks run out.
QueueSettles ==
    \A j \in Jobs : queue[j].state = "waiting" ~> queue[j].state \in {"completed", "failed"}

-----------------------------------------------------------------------------
(* What holds under ReliableFaults                                         *)

\* What a worker is about to announce is what the row says.
AnnouncementIsTrue ==
    \A w \in Workers :
        LET e == WorkerAnnouncement(w) IN
        worker[w].pc \in {"sayProcessing", "sayCompleted", "sayFailed", "sayQueued"} =>
            /\ row[e.job].status = e.status
            /\ row[e.job].route = e.route
            /\ e.reason # "none" => row[e.job].reason = e.reason

\* BullMQ's final sets and the rows agree: what BullMQ has completed is
\* completed, and what it has given up is failed.  Only a refused statement can
\* leave the row of a job that was given up open, and never completed.
SettledAgreement ==
    \A j \in Jobs :
        /\ queue[j].state = "completed" => row[j].status = "completed"
        /\ queue[j].state = "failed" =>
               \/ row[j].status = "failed"
               \/ row[j].status \in {"queued", "processing"} /\ faultsLeft < MaxFaults

(***************************************************************************)
(* A request answered with an error leaves no queue entry behind, whatever *)
(* became of the entry before.  In the step that ends it its row is        *)
(* failed, unless the database refuses a statement of this very request in *)
(* that step, and nothing changes the row afterwards: of these requests    *)
(* none leaves a row queued for a job that never runs.                     *)
(***************************************************************************)
RejectedJobIsFailed ==
    [][\A j \in Jobs : api'[j] = "errored" =>
        /\ queue'[j].state = "none"
        /\ IF api[j] = "errored"
           THEN row'[j] = row[j]
           ELSE row'[j].status = "failed" \/ faultsLeft' < faultsLeft]_vars

(***************************************************************************)
(* The contract, over the state that a client can observe.                 *)
(***************************************************************************)
Contract == INSTANCE JobContract
    WITH state <- [j \in Jobs |-> [status |-> row[j].status,
                                   saved |-> routes[j],
                                   error |-> IF row[j].reason = "none"
                                             THEN "none" ELSE "given"]]

ContractSpec == Contract!Spec

\* A row that is completed or failed never changes again, and no further
\* route is saved for it.
TerminalIsFinal ==
    [][\A j \in Jobs : row[j].status \in Terminal
            => row'[j] = row[j] /\ routes'[j] = routes[j]]_vars

\* A job answered with 202 is eventually completed or failed, unless the
\* database refuses to record the failure of a job that BullMQ gives up.
AcceptedJobsSettle ==
    \A j \in Jobs :
        api[j] = "accepted" ~> \/ row[j].status \in Terminal
                               \/ queue[j].state = "failed" /\ faultsLeft < MaxFaults

\* A request that has written its row is answered, or its process died.
RequestsAnswered ==
    \A j \in Jobs : api[j] = "add" ~> api[j] \in {"accepted", "errored", "dead"}

\* A job that BullMQ has given up is marked failed with a reason.
GivenUpIsFailed ==
    \A j \in Jobs : queue[j].state = "failed" => row[j].status = "failed"
=============================================================================
