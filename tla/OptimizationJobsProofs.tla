----------------------- MODULE OptimizationJobsProofs -----------------------
(***************************************************************************)
(* Proofs about OptimizationJobs, for every set of jobs and workers, every *)
(* number of attempts and stalls, and every set and number of faults.      *)
(***************************************************************************)
EXTENDS OptimizationJobs, FiniteSetTheorems, TLAPS

-----------------------------------------------------------------------------
(* Type correctness                                                        *)

RowType == [status : Statuses, route : Nat, reason : Reasons]

\* What the statements make of a row is a row.
LEMMA RowTypes ==
    ASSUME NEW r \in RowType, NEW reason \in Reasons
    PROVE  /\ ProcessingRow(r) \in RowType
           /\ QueuedRow(r) \in RowType
           /\ FailedRow(r, reason) \in RowType
<1>1. ProcessingRow(r) \in RowType
  BY DEF ProcessingRow, RowType, Statuses, Reasons
<1>2. QueuedRow(r) \in RowType
  BY DEF QueuedRow, RowType, Statuses
<1>3. FailedRow(r, reason) \in RowType
  BY DEF FailedRow, RowType, Statuses
<1> QED
  BY <1>1, <1>2, <1>3

\* A statement keeps the types of the rows and of the fault budget.
LEMMA WriteTypes ==
    ASSUME TypeOK, NEW j \in Jobs, NEW o \in DbOutcomes,
           NEW r \in RowType, Write(j, r, o)
    PROVE  /\ row' \in [Jobs -> RowType]
           /\ faultsLeft' \in 0 .. MaxFaults
  BY ConstantsAssumption DEF TypeOK, Write, Fault, RowType

QueueType == [state : QueueStates, made : Nat, stalls : Nat, started : Nat,
              lock : Workers \cup {NoWorker}]
WorkerType == [pc : WorkerSteps, job : Jobs \cup {NoJob}, made : Nat, route : Nat]
WorkersOK == /\ worker \in [Workers -> WorkerType]
             /\ \A w \in Workers : worker[w].pc # "idle" => worker[w].job \in Jobs

\* A worker that moves to another step keeps its job.
LEMMA WorkerGotoTypes ==
    ASSUME WorkersOK, NEW w \in Workers, NEW step \in WorkerSteps,
           worker[w].pc # "idle", WorkerGoto(w, step)
    PROVE  WorkersOK'
  BY DEF WorkersOK, WorkerGoto, WorkerType

\* BullMQ's record of a job stays one when its state or its lock is replaced.
LEMMA QueueStateTypes ==
    ASSUME queue \in [Jobs -> QueueType], NEW j \in Jobs,
           NEW s \in QueueStates, NEW l \in Workers \cup {NoWorker}
    PROVE  /\ [queue EXCEPT ![j].state = s] \in [Jobs -> QueueType]
           /\ [queue EXCEPT ![j].lock = l] \in [Jobs -> QueueType]
           /\ [queue EXCEPT ![j].state = s, ![j].lock = l] \in [Jobs -> QueueType]
<1>1. [queue EXCEPT ![j].state = s] \in [Jobs -> QueueType]
  BY DEF QueueType
<1>2. [queue EXCEPT ![j].lock = l] \in [Jobs -> QueueType]
  BY DEF QueueType
<1>3. [queue EXCEPT ![j].state = s, ![j].lock = l] \in [Jobs -> QueueType]
  BY DEF QueueType
<1> QED
  BY <1>1, <1>2, <1>3

LEMMA TypeInit == Init => TypeOK
  BY ConstantsAssumption
     DEF Init, TypeOK, NoRow, NotQueued, IdleWorker, Statuses, Reasons, ApiSteps,
         QueueStates, WorkerSteps

\* Type correctness is preserved by every step.
LEMMA TypeStep == TypeOK /\ [Next]_vars => TypeOK'
<1> SUFFICES ASSUME TypeOK, [Next]_vars PROVE TypeOK'
  OBVIOUS
<1> USE ConstantsAssumption
<1>0. /\ queue \in [Jobs -> QueueType]
      /\ WorkersOK
  BY DEF TypeOK, QueueType, WorkersOK, WorkerType
<1>1. ASSUME NEW j \in Jobs, NEW o \in DbOutcomes, CreateJob(j, o) PROVE TypeOK'
  <2>1. row' \in [Jobs -> RowType] /\ faultsLeft' \in 0 .. MaxFaults
    BY <1>1, WriteTypes DEF CreateJob, CreatedRow, RowType, Statuses, Reasons
  <2>2. api' \in [Jobs -> ApiSteps]
    BY <1>1 DEF TypeOK, CreateJob, ApiGoto, ApiSteps
  <2> QED
    BY <1>1, <2>1, <2>2 DEF TypeOK, CreateJob, RowType
<1>2. ASSUME NEW j \in Jobs, QueueAdd(j) PROVE TypeOK'
  <2>1. queue' \in [Jobs -> QueueType]
    BY <1>0, <1>2, QueueStateTypes DEF QueueAdd, QueueStates
  <2>2. api' \in [Jobs -> ApiSteps] /\ faultsLeft' \in 0 .. MaxFaults
    BY <1>2 DEF TypeOK, QueueAdd, ApiGoto, ApiSteps, Fault
  <2> QED
    BY <1>2, <2>1, <2>2 DEF TypeOK, QueueAdd, QueueType
<1>3. ASSUME NEW j \in Jobs, QueueAddRefused(j) PROVE TypeOK'
  BY <1>3 DEF TypeOK, QueueAddRefused, ApiGoto, ApiSteps
<1>4. ASSUME NEW j \in Jobs, NEW o \in DbOutcomes, FailEnqueue(j, o) PROVE TypeOK'
  <2>1. FailedRow(row[j], "enqueue") \in RowType
    <3>1. row[j] \in RowType
      BY DEF TypeOK, RowType
    <3> QED
      BY <3>1, RowTypes DEF Reasons
  <2>2. row' \in [Jobs -> RowType] /\ faultsLeft' \in 0 .. MaxFaults
    BY <1>4, <2>1, WriteTypes DEF FailEnqueue
  <2>3. api' \in [Jobs -> ApiSteps]
    BY <1>4 DEF TypeOK, FailEnqueue, ApiGoto, ApiSteps
  <2> QED
    BY <1>4, <2>2, <2>3 DEF TypeOK, FailEnqueue, RowType
<1>5. ASSUME NEW j \in Jobs, AnnounceFromApi(j) PROVE TypeOK'
  BY <1>5 DEF TypeOK, AnnounceFromApi, ApiGoto, ApiSteps
<1>6. CASE ApiCrash
  BY <1>6 DEF TypeOK, ApiCrash, ApiSteps, Fault
<1>7. ASSUME NEW w \in Workers, NEW j \in Jobs, Fetch(w, j) PROVE TypeOK'
  BY <1>7 DEF TypeOK, Fetch, QueueStates, WorkerSteps
<1>8. ASSUME NEW w \in Workers, NEW o \in DbOutcomes, MarkProcessing(w, o) PROVE TypeOK'
  <2>1. row[worker[w].job] \in RowType /\ worker[w].job \in Jobs
    BY <1>8 DEF TypeOK, MarkProcessing, RowType
  <2>2. row' \in [Jobs -> RowType] /\ faultsLeft' \in 0 .. MaxFaults
    BY <1>8, <2>1, RowTypes, WriteTypes DEF MarkProcessing, Reasons
  <2>3. WorkersOK'
    BY <1>0, <1>8, WorkerGotoTypes DEF MarkProcessing, Proceed, WorkerSteps
  <2> QED
    BY <1>8, <2>2, <2>3 DEF TypeOK, MarkProcessing, RowType, WorkersOK, WorkerType
<1>9. ASSUME NEW w \in Workers, Compute(w) PROVE TypeOK'
  <2>1. WorkersOK'
    BY <1>0, <1>9, WorkerGotoTypes DEF Compute, WorkerSteps
  <2> QED
    BY <1>9, <2>1 DEF TypeOK, Compute, WorkersOK, WorkerType
<1>10. ASSUME NEW w \in Workers, NEW o \in DbOutcomes, CompleteJob(w, o) PROVE TypeOK'
  <2>1. worker[w].job \in Jobs /\ routes[worker[w].job] + 1 \in Nat
    BY <1>10 DEF TypeOK, CompleteJob
  <2>2. row' \in [Jobs -> RowType] /\ faultsLeft' \in 0 .. MaxFaults
    <3> DEFINE r == CompletedRow(routes[worker[w].job] + 1)
    <3>1. r \in RowType
      BY <2>1 DEF CompletedRow, RowType, Statuses, Reasons
    <3>2. Write(worker[w].job, r, o)
      BY <1>10 DEF CompleteJob
    <3> QED
      BY <2>1, <3>1, <3>2, WriteTypes
  <2>3. routes' \in [Jobs -> Nat]
    BY <1>10, <2>1 DEF TypeOK, CompleteJob
  <2>4. WorkersOK'
    <3> DEFINE pc == IF o = "ok" THEN "cache" ELSE "caught"
               id == IF o = "ok" THEN routes[worker[w].job] + 1 ELSE 0
    <3>1. worker' = [worker EXCEPT ![w].pc = pc, ![w].route = id]
      BY <1>10 DEF CompleteJob
    <3>2. pc \in WorkerSteps /\ id \in Nat
      BY <2>1 DEF WorkerSteps
    <3>3. worker[w].job \in Jobs
      BY <2>1
    <3> HIDE DEF pc, id
    <3> QED
      BY <1>0, <3>1, <3>2, <3>3 DEF WorkersOK, WorkerType
  <2> QED
    BY <1>10, <2>2, <2>3, <2>4 DEF TypeOK, CompleteJob, RowType, WorkersOK, WorkerType
<1>11. ASSUME NEW w \in Workers, CacheResult(w) PROVE TypeOK'
  BY <1>11 DEF TypeOK, CacheResult, WorkerGoto, WorkerSteps
<1>12. ASSUME NEW w \in Workers, Acknowledge(w) PROVE TypeOK'
  BY <1>12 DEF TypeOK, Acknowledge, IdleWorker, WorkerSteps, QueueStates
<1>13. ASSUME NEW w \in Workers, NEW o \in DbOutcomes, RecordFailure(w, o) PROVE TypeOK'
  <2>1. row[worker[w].job] \in RowType /\ worker[w].job \in Jobs
    BY <1>13 DEF TypeOK, RecordFailure, RowType
  <2>2. row' \in [Jobs -> RowType] /\ faultsLeft' \in 0 .. MaxFaults
    BY <1>13, <2>1, RowTypes, WriteTypes DEF RecordFailure, Reasons
  <2>3. WorkersOK'
    BY <1>0, <1>13, WorkerGotoTypes DEF RecordFailure, WorkerSteps
  <2> QED
    BY <1>13, <2>2, <2>3 DEF TypeOK, RecordFailure, RowType, WorkersOK, WorkerType
<1>14. ASSUME NEW w \in Workers, Reject(w) PROVE TypeOK'
  BY <1>14 DEF TypeOK, Reject, IsFinalAttempt, IdleWorker, WorkerSteps, QueueStates
<1>15. ASSUME NEW w \in Workers, AnnounceFromWorker(w) PROVE TypeOK'
  BY <1>15 DEF TypeOK, AnnounceFromWorker, WorkerGoto, WorkerSteps
<1>16. ASSUME NEW j \in Jobs, BackoffElapsed(j) PROVE TypeOK'
  <2>1. queue' \in [Jobs -> QueueType]
    BY <1>0, <1>16, QueueStateTypes DEF BackoffElapsed, QueueStates
  <2> QED
    BY <1>16, <2>1 DEF TypeOK, BackoffElapsed, QueueType
<1>17. ASSUME NEW j \in Jobs, StalledCheck(j) PROVE TypeOK'
  BY <1>17 DEF TypeOK, StalledCheck, QueueStates
<1>18. ASSUME NEW w \in Workers, LockExpires(w) PROVE TypeOK'
  <2>1. worker[w].job \in Jobs
    BY <1>18 DEF TypeOK, LockExpires
  <2>2. queue' \in [Jobs -> QueueType]
    BY <1>0, <1>18, <2>1, QueueStateTypes DEF LockExpires, QueueStates
  <2> QED
    BY <1>18, <2>2 DEF TypeOK, LockExpires, QueueType, Fault
<1>19. ASSUME NEW w \in Workers, WorkerCrash(w) PROVE TypeOK'
  BY <1>19 DEF TypeOK, WorkerCrash, IdleWorker, WorkerSteps, Fault
<1>20. CASE RedisFails
  BY <1>20 DEF TypeOK, RedisFails, Fault
<1>21. CASE RedisRecovers
  BY <1>21 DEF TypeOK, RedisRecovers
<1>22. CASE UNCHANGED vars
  BY <1>22 DEF TypeOK, vars
<1> QED
  BY <1>1, <1>2, <1>3, <1>4, <1>5, <1>6, <1>7, <1>8, <1>9, <1>10, <1>11, <1>12,
     <1>13, <1>14, <1>15, <1>16, <1>17, <1>18, <1>19, <1>20, <1>21, <1>22
     DEF Next, Silent, SilentApiStep, SilentWorkerStep

\* The variables keep their types in every behaviour, and a busy worker always
\* has a job.
THEOREM TypeCorrectness == Spec => []TypeOK
  BY TypeInit, TypeStep, PTL DEF Spec

-----------------------------------------------------------------------------
(***************************************************************************)
(* The queue's bookkeeping.  Most steps leave BullMQ's records alone and   *)
(* no worker takes or drops a job in them: they are the quiet steps.       *)
(***************************************************************************)
QuietStep ==
    \/ \E j \in Jobs, o \in DbOutcomes : CreateJob(j, o) \/ FailEnqueue(j, o)
    \/ \E j \in Jobs : QueueAddRefused(j) \/ AnnounceFromApi(j)
    \/ ApiCrash
    \/ \E w \in Workers, o \in DbOutcomes :
           MarkProcessing(w, o) \/ CompleteJob(w, o) \/ RecordFailure(w, o)
    \/ \E w \in Workers : Compute(w) \/ CacheResult(w) \/ AnnounceFromWorker(w)
    \/ RedisFails
    \/ RedisRecovers
    \/ UNCHANGED vars

QueueStep ==
    \/ \E j \in Jobs : QueueAdd(j) \/ BackoffElapsed(j) \/ StalledCheck(j)
    \/ \E w \in Workers, j \in Jobs : Fetch(w, j)
    \/ \E w \in Workers :
           Acknowledge(w) \/ Reject(w) \/ LockExpires(w) \/ WorkerCrash(w)

LEMMA StepCases == [Next]_vars => QuietStep \/ QueueStep
  BY DEF Next, Silent, SilentApiStep, SilentWorkerStep, QuietStep, QueueStep

\* The workers go on with the jobs, and the attempt counts, they have.
SameEngagement ==
    \A w \in Workers : /\ worker'[w].job = worker[w].job
                       /\ worker'[w].made = worker[w].made
                       /\ worker'[w].pc = "idle" <=> worker[w].pc = "idle"

\* No request goes back to a point before queue.add, and none that has got
\* beyond it ends in an error.
BeforeAdd == {"idle", "add"}
NotAdded == BeforeAdd \cup {"fail", "sayFailed", "errored"}
NoNewEnqueue ==
    \A j \in Jobs : /\ api'[j] \in BeforeAdd => api[j] \in BeforeAdd
                    /\ api'[j] \in NotAdded => api[j] \in NotAdded

LEMMA QuietSteps ==
    ASSUME TypeOK, QuietStep
    PROVE  queue' = queue /\ SameEngagement /\ NoNewEnqueue
<1> USE DEF SameEngagement, NoNewEnqueue, BeforeAdd, NotAdded
<1>1. ASSUME NEW j \in Jobs, NEW o \in DbOutcomes, CreateJob(j, o) \/ FailEnqueue(j, o)
      PROVE  queue' = queue /\ SameEngagement /\ NoNewEnqueue
  BY <1>1 DEF TypeOK, CreateJob, FailEnqueue, ApiGoto
<1>2. ASSUME NEW j \in Jobs, QueueAddRefused(j) \/ AnnounceFromApi(j)
      PROVE  queue' = queue /\ SameEngagement /\ NoNewEnqueue
  BY <1>2 DEF TypeOK, QueueAddRefused, AnnounceFromApi, ApiGoto
<1>3. CASE ApiCrash
  BY <1>3 DEF TypeOK, ApiCrash
<1>4. ASSUME NEW w \in Workers, NEW o \in DbOutcomes, MarkProcessing(w, o)
      PROVE  queue' = queue /\ SameEngagement /\ NoNewEnqueue
  BY <1>4 DEF TypeOK, MarkProcessing, Proceed, WorkerGoto
<1>5. ASSUME NEW w \in Workers, NEW o \in DbOutcomes, CompleteJob(w, o)
      PROVE  queue' = queue /\ SameEngagement /\ NoNewEnqueue
  BY <1>5 DEF TypeOK, CompleteJob
<1>6. ASSUME NEW w \in Workers, NEW o \in DbOutcomes, RecordFailure(w, o)
      PROVE  queue' = queue /\ SameEngagement /\ NoNewEnqueue
  BY <1>6 DEF TypeOK, RecordFailure, WorkerGoto
<1>7. ASSUME NEW w \in Workers, Compute(w) \/ CacheResult(w)
      PROVE  queue' = queue /\ SameEngagement /\ NoNewEnqueue
  <2>1. CASE Compute(w)
    BY <2>1 DEF TypeOK, Compute, WorkerGoto
  <2>2. CASE CacheResult(w)
    BY <2>2 DEF TypeOK, CacheResult, WorkerGoto
  <2> QED
    BY <1>7, <2>1, <2>2
<1>8. ASSUME NEW w \in Workers, AnnounceFromWorker(w)
      PROVE  queue' = queue /\ SameEngagement /\ NoNewEnqueue
  BY <1>8 DEF TypeOK, AnnounceFromWorker, WorkerGoto
<1>9. CASE RedisFails \/ RedisRecovers \/ UNCHANGED vars
  BY <1>9 DEF RedisFails, RedisRecovers, vars
<1> QED
  BY <1>1, <1>2, <1>3, <1>4, <1>5, <1>6, <1>7, <1>8, <1>9 DEF QuietStep

\* A job is unknown to BullMQ until its request calls queue.add, the only
\* place that puts it there: it is never enqueued twice.
NotYetAdded ==
    \A j \in Jobs : api[j] \in {"idle", "add"} => queue[j] = NotQueued

\* Every start of a job is accounted for by a counted attempt, by a stall, or
\* by the run that is going on or has completed it.
StartsAccounted ==
    \A j \in Jobs :
        LET q == queue[j] IN
        /\ q.started = q.made + q.stalls
                         + (IF q.state \in {"active", "completed"} THEN 1 ELSE 0)
        /\ q.state # "failed" => q.made < TotalAttempts /\ q.stalls <= MaxStalled
        /\ q.state = "failed" => q.made + q.stalls <= TotalAttempts + MaxStalled

QueueInv == TypeOK /\ NotYetAdded /\ LockDiscipline /\ StartsAccounted

LEMMA QueueInvInit == Init => QueueInv
<1> SUFFICES ASSUME Init PROVE QueueInv
  OBVIOUS
<1>1. NotYetAdded
  BY DEF Init, NotYetAdded
<1>2. LockDiscipline
  BY ConstantsAssumption DEF Init, LockDiscipline, NotQueued
<1>3. StartsAccounted
  BY ConstantsAssumption DEF Init, StartsAccounted, NotQueued
<1> QED
  BY <1>1, <1>2, <1>3, TypeInit DEF QueueInv

LEMMA QueueInvStep == QueueInv /\ [Next]_vars => QueueInv'
<1> SUFFICES ASSUME QueueInv, [Next]_vars PROVE QueueInv'
  OBVIOUS
<1> USE ConstantsAssumption
<1>0. TypeOK /\ TypeOK'
  BY TypeStep DEF QueueInv
<1>1. CASE QuietStep
  <2>1. queue' = queue /\ SameEngagement /\ NoNewEnqueue
    BY <1>0, <1>1, QuietSteps
  <2>2. NotYetAdded'
    BY <2>1 DEF QueueInv, NotYetAdded, NoNewEnqueue, BeforeAdd, NotQueued
  <2>3. LockDiscipline'
    BY <2>1 DEF QueueInv, LockDiscipline, SameEngagement
  <2>4. StartsAccounted'
    BY <2>1 DEF QueueInv, StartsAccounted
  <2> QED
    BY <1>0, <2>2, <2>3, <2>4 DEF QueueInv
<1>2. ASSUME NEW j \in Jobs, QueueAdd(j) PROVE QueueInv'
  <2>1. queue[j] = NotQueued
    BY <1>2 DEF QueueInv, NotYetAdded, QueueAdd
  <2>2. NotYetAdded'
    BY <1>0, <1>2 DEF QueueInv, NotYetAdded, QueueAdd, ApiGoto, TypeOK, NotQueued
  <2>3. LockDiscipline'
    BY <1>0, <1>2, <2>1 DEF QueueInv, LockDiscipline, QueueAdd, TypeOK, NotQueued
  <2>4. StartsAccounted'
    BY <1>0, <1>2, <2>1 DEF QueueInv, StartsAccounted, QueueAdd, TypeOK, NotQueued
  <2> QED
    BY <1>0, <2>2, <2>3, <2>4 DEF QueueInv
<1>3. ASSUME NEW j \in Jobs, BackoffElapsed(j) PROVE QueueInv'
  <2>1. NotYetAdded'
    BY <1>0, <1>3 DEF QueueInv, NotYetAdded, BackoffElapsed, TypeOK, NotQueued
  <2>2. LockDiscipline'
    BY <1>0, <1>3 DEF QueueInv, LockDiscipline, BackoffElapsed, TypeOK
  <2>3. StartsAccounted'
    BY <1>0, <1>3 DEF QueueInv, StartsAccounted, BackoffElapsed, TypeOK
  <2> QED
    BY <1>0, <2>1, <2>2, <2>3 DEF QueueInv
<1>4. ASSUME NEW j \in Jobs, StalledCheck(j) PROVE QueueInv'
  <2>1. NotYetAdded'
    BY <1>0, <1>4 DEF QueueInv, NotYetAdded, StalledCheck, TypeOK, NotQueued
  <2>2. LockDiscipline'
    BY <1>0, <1>4 DEF QueueInv, LockDiscipline, StalledCheck, TypeOK
  <2>3. StartsAccounted'
    BY <1>0, <1>4 DEF QueueInv, StartsAccounted, StalledCheck, TypeOK
  <2> QED
    BY <1>0, <2>1, <2>2, <2>3 DEF QueueInv
<1>5. ASSUME NEW w \in Workers, NEW j \in Jobs, Fetch(w, j) PROVE QueueInv'
  <2>1. NotYetAdded'
    BY <1>0, <1>5 DEF QueueInv, NotYetAdded, Fetch, TypeOK, NotQueued
  <2>2. LockDiscipline'
    BY <1>0, <1>5 DEF QueueInv, LockDiscipline, Fetch, TypeOK
  <2>3. StartsAccounted'
    BY <1>0, <1>5 DEF QueueInv, StartsAccounted, Fetch, TypeOK
  <2> QED
    BY <1>0, <2>1, <2>2, <2>3 DEF QueueInv
<1>6. ASSUME NEW w \in Workers, Acknowledge(w) PROVE QueueInv'
  <2>1. NotYetAdded'
    BY <1>0, <1>6 DEF QueueInv, NotYetAdded, Acknowledge, TypeOK, NotQueued
  <2>2. LockDiscipline'
    BY <1>0, <1>6 DEF QueueInv, LockDiscipline, Acknowledge, TypeOK, IdleWorker
  <2>3. StartsAccounted'
    BY <1>0, <1>6 DEF QueueInv, StartsAccounted, LockDiscipline, Acknowledge, TypeOK
  <2> QED
    BY <1>0, <2>1, <2>2, <2>3 DEF QueueInv
<1>7. ASSUME NEW w \in Workers, Reject(w) PROVE QueueInv'
  <2>1. NotYetAdded'
    BY <1>0, <1>7 DEF QueueInv, NotYetAdded, Reject, TypeOK, NotQueued
  <2>2. LockDiscipline'
    BY <1>0, <1>7 DEF QueueInv, LockDiscipline, Reject, TypeOK, IdleWorker
  <2>3. StartsAccounted'
    <3> DEFINE j == worker[w].job
    <3>1. j \in Jobs
      BY <1>0, <1>7 DEF TypeOK, Reject
    <3>2. CASE queue[j].lock # w
      BY <1>7, <3>2 DEF QueueInv, StartsAccounted, Reject
    <3>3. CASE queue[j].lock = w
      <4>1. queue[j].state = "active" /\ worker[w].made = queue[j].made
        BY <3>1, <3>3 DEF QueueInv, LockDiscipline
      <4>2. \A i \in Jobs \ {j} : queue'[i] = queue[i]
        BY <1>0, <1>7, <3>1 DEF Reject, TypeOK
      <4>3. /\ queue'[j].made = queue[j].made + 1
            /\ queue'[j].stalls = queue[j].stalls
            /\ queue'[j].started = queue[j].started
            /\ queue'[j].state = IF IsFinalAttempt(w) THEN "failed" ELSE "delayed"
        BY <1>0, <1>7, <3>1, <3>3 DEF Reject, TypeOK
      <4>4. /\ queue[j].made \in Nat /\ queue[j].stalls \in Nat
            /\ queue[j].made < TotalAttempts /\ queue[j].stalls <= MaxStalled
            /\ queue[j].started = queue[j].made + queue[j].stalls + 1
        BY <1>0, <3>1, <4>1 DEF QueueInv, StartsAccounted, TypeOK
      <4>5. IsFinalAttempt(w) <=> queue[j].made + 1 >= TotalAttempts
        BY <4>1 DEF IsFinalAttempt
      <4>6. queue'[j].state \in {"failed", "delayed"}
        BY <4>3
      <4>7. queue'[j].started = queue'[j].made + queue'[j].stalls + 0
        BY <4>3, <4>4
      <4>8. queue'[j].state # "failed" => queue'[j].made < TotalAttempts
        BY <4>3, <4>4, <4>5
      <4> HIDE DEF j
      <4> QED
        BY <3>1, <4>2, <4>3, <4>4, <4>6, <4>7, <4>8 DEF QueueInv, StartsAccounted
    <3> QED
      BY <3>2, <3>3
  <2> QED
    BY <1>0, <2>1, <2>2, <2>3 DEF QueueInv
<1>8. ASSUME NEW w \in Workers, LockExpires(w) PROVE QueueInv'
  <2>0. worker[w].job \in Jobs
    BY <1>0, <1>8 DEF LockExpires, TypeOK
  <2>1. NotYetAdded'
    BY <1>0, <1>8, <2>0 DEF QueueInv, NotYetAdded, LockExpires, TypeOK, NotQueued
  <2>2. LockDiscipline'
    BY <1>0, <1>8, <2>0 DEF QueueInv, LockDiscipline, LockExpires, TypeOK, IdleWorker
  <2>3. StartsAccounted'
    BY <1>0, <1>8, <2>0 DEF QueueInv, StartsAccounted, LockExpires, TypeOK
  <2> QED
    BY <1>0, <2>1, <2>2, <2>3 DEF QueueInv
<1>9. ASSUME NEW w \in Workers, WorkerCrash(w) PROVE QueueInv'
  <2>0. worker[w].job \in Jobs
    BY <1>0, <1>9 DEF WorkerCrash, TypeOK
  <2>1. NotYetAdded'
    BY <1>0, <1>9, <2>0 DEF QueueInv, NotYetAdded, WorkerCrash, TypeOK, NotQueued
  <2>2. LockDiscipline'
    BY <1>0, <1>9, <2>0 DEF QueueInv, LockDiscipline, WorkerCrash, TypeOK, IdleWorker
  <2>3. StartsAccounted'
    BY <1>0, <1>9, <2>0 DEF QueueInv, StartsAccounted, WorkerCrash, TypeOK
  <2> QED
    BY <1>0, <2>1, <2>2, <2>3 DEF QueueInv
<1> QED
  BY <1>1, <1>2, <1>3, <1>4, <1>5, <1>6, <1>7, <1>8, <1>9, StepCases DEF QueueStep

LEMMA QueueInvariance == Spec => []QueueInv
  BY QueueInvInit, QueueInvStep, PTL DEF Spec

\* A held lock always belongs to a worker that is working on that very job in
\* the attempt BullMQ is counting, whatever crashes, stalls or is lost.
THEOREM LocksAreHonest == Spec => []LockDiscipline
<1>1. QueueInv => LockDiscipline
  BY DEF QueueInv
<1> QED
  BY <1>1, QueueInvariance, PTL

(***************************************************************************)
(* Routes.  A start saves its route later than it is counted, and a start  *)
(* that has lost its lock may do so beside a newer one: each worker that   *)
(* may still save a route of j holds back one of the starts of j.          *)
(***************************************************************************)
MayInsert == {"mark", "sayProcessing", "compute", "complete"}
Inserting(j, ws) == {w \in Workers : ws[w].pc \in MayInsert /\ ws[w].job = j}

RoutesAccounted ==
    \A j \in Jobs : routes[j] + Cardinality(Inserting(j, worker)) <= queue[j].started

\* How a step may change the account of a job.
AccountKept(j) ==
    /\ routes'[j] = routes[j] /\ queue'[j].started = queue[j].started
    /\ Inserting(j, worker') \subseteq Inserting(j, worker)
AccountOpened(j) ==
    /\ routes'[j] = routes[j] /\ queue'[j].started = queue[j].started + 1
    /\ \E w \in Workers : Inserting(j, worker') \subseteq Inserting(j, worker) \cup {w}
AccountUsed(j) ==
    /\ routes'[j] \in {routes[j], routes[j] + 1} /\ queue'[j].started = queue[j].started
    /\ \E w \in Inserting(j, worker) : Inserting(j, worker') \subseteq Inserting(j, worker) \ {w}

LEMMA InsertingIsFinite ==
    ASSUME NEW j, NEW ws
    PROVE  /\ IsFiniteSet(Inserting(j, ws))
           /\ Cardinality(Inserting(j, ws)) \in Nat
<1>1. Inserting(j, ws) \in SUBSET Workers
  BY DEF Inserting
<1>2. IsFiniteSet(Inserting(j, ws))
  BY <1>1, ConstantsAssumption, FS_Subset
<1> QED
  BY <1>2, FS_CardinalityType

\* Each of the three changes keeps the account balanced.
LEMMA AccountsBalance ==
    ASSUME TypeOK, NEW j \in Jobs, AccountKept(j) \/ AccountOpened(j) \/ AccountUsed(j),
           routes[j] + Cardinality(Inserting(j, worker)) <= queue[j].started
    PROVE  routes'[j] + Cardinality(Inserting(j, worker')) <= queue'[j].started
<1>1. /\ Cardinality(Inserting(j, worker)) \in Nat
      /\ Cardinality(Inserting(j, worker')) \in Nat
      /\ IsFiniteSet(Inserting(j, worker))
  BY InsertingIsFinite
<1>2. routes[j] \in Nat /\ queue[j].started \in Nat
  BY DEF TypeOK
<1>3. CASE AccountKept(j)
  <2>1. Cardinality(Inserting(j, worker')) <= Cardinality(Inserting(j, worker))
    BY <1>1, <1>3, FS_Subset DEF AccountKept
  <2> QED
    BY <1>1, <1>2, <1>3, <2>1 DEF AccountKept
<1>4. CASE AccountOpened(j)
  <2>1. PICK w \in Workers : Inserting(j, worker') \subseteq Inserting(j, worker) \cup {w}
    BY <1>4 DEF AccountOpened
  <2>2. /\ IsFiniteSet(Inserting(j, worker) \cup {w})
        /\ Cardinality(Inserting(j, worker) \cup {w})
             \in {Cardinality(Inserting(j, worker)), Cardinality(Inserting(j, worker)) + 1}
    BY <1>1, FS_AddElement
  <2>3. Cardinality(Inserting(j, worker')) <= Cardinality(Inserting(j, worker) \cup {w})
    BY <2>1, <2>2, FS_Subset
  <2> QED
    BY <1>1, <1>2, <1>4, <2>2, <2>3 DEF AccountOpened
<1>5. CASE AccountUsed(j)
  <2>1. PICK w \in Inserting(j, worker) :
               Inserting(j, worker') \subseteq Inserting(j, worker) \ {w}
    BY <1>5 DEF AccountUsed
  <2>2. /\ IsFiniteSet(Inserting(j, worker) \ {w})
        /\ Cardinality(Inserting(j, worker) \ {w}) = Cardinality(Inserting(j, worker)) - 1
    BY <1>1, FS_RemoveElement
  <2>3. Cardinality(Inserting(j, worker')) <= Cardinality(Inserting(j, worker) \ {w})
    BY <2>1, <2>2, FS_Subset
  <2> QED
    BY <1>1, <1>2, <1>5, <2>2, <2>3 DEF AccountUsed
<1> QED
  BY <1>3, <1>4, <1>5

\* Every step opens the account of one job, uses that of one job, or neither.
LEMMA AccountSteps ==
    ASSUME TypeOK, [Next]_vars, NEW j \in Jobs
    PROVE  AccountKept(j) \/ AccountOpened(j) \/ AccountUsed(j)
<1> USE DEF Inserting, MayInsert
<1>1. ASSUME NEW w \in Workers, NEW i \in Jobs, Fetch(w, i)
      PROVE  AccountKept(j) \/ AccountOpened(j)
  <2>1. /\ routes' = routes
        /\ \A v \in Workers \ {w} : worker'[v] = worker[v]
        /\ worker'[w].job = i
    BY <1>1 DEF Fetch, TypeOK
  <2>2. CASE i = j
    <3>1. queue'[j].started = queue[j].started + 1
      BY <1>1, <2>2 DEF Fetch, TypeOK
    <3>2. Inserting(j, worker') \subseteq Inserting(j, worker) \cup {w}
      BY <2>1
    <3> QED
      BY <2>1, <3>1, <3>2 DEF AccountOpened
  <2>3. CASE i # j
    <3>1. queue'[j] = queue[j]
      BY <1>1, <2>3 DEF Fetch, TypeOK
    <3>2. Inserting(j, worker') \subseteq Inserting(j, worker)
      BY <2>1, <2>3
    <3> QED
      BY <2>1, <3>1, <3>2 DEF AccountKept
  <2> QED
    BY <2>2, <2>3
<1>2. ASSUME NEW w \in Workers, NEW o \in DbOutcomes, CompleteJob(w, o)
      PROVE  AccountKept(j) \/ AccountUsed(j)
  <2>1. /\ queue' = queue
        /\ \A v \in Workers \ {w} : worker'[v] = worker[v]
        /\ worker'[w].pc \in {"cache", "caught"}
        /\ worker[w].pc = "complete" /\ worker[w].job \in Jobs
    BY <1>2 DEF CompleteJob, TypeOK
  <2>2. CASE worker[w].job = j
    <3>1. routes'[j] \in {routes[j], routes[j] + 1}
      BY <1>2, <2>2 DEF CompleteJob, TypeOK
    <3>2. /\ w \in Inserting(j, worker)
          /\ Inserting(j, worker') \subseteq Inserting(j, worker) \ {w}
      BY <2>1, <2>2
    <3> QED
      BY <2>1, <3>1, <3>2 DEF AccountUsed
  <2>3. CASE worker[w].job # j
    <3>1. routes'[j] = routes[j]
      BY <1>2, <2>1, <2>3 DEF CompleteJob, TypeOK
    <3>2. Inserting(j, worker') \subseteq Inserting(j, worker)
      BY <2>1
    <3> QED
      BY <2>1, <3>1, <3>2 DEF AccountKept
  <2> QED
    BY <2>2, <2>3
<1>3. ASSUME NEW i \in Jobs, NEW o \in DbOutcomes, CreateJob(i, o) \/ FailEnqueue(i, o)
      PROVE  AccountKept(j)
  BY <1>3 DEF CreateJob, FailEnqueue, AccountKept
<1>4. ASSUME NEW i \in Jobs,
             QueueAddRefused(i) \/ AnnounceFromApi(i)
      PROVE  AccountKept(j)
  BY <1>4 DEF QueueAddRefused, AnnounceFromApi, AccountKept
<1>5. ASSUME NEW i \in Jobs, QueueAdd(i) \/ BackoffElapsed(i) \/ StalledCheck(i)
      PROVE  AccountKept(j)
  <2>1. routes' = routes /\ worker' = worker
    BY <1>5 DEF QueueAdd, BackoffElapsed, StalledCheck
  <2>2. queue'[j].started = queue[j].started
    <3>1. CASE QueueAdd(i)
      BY <3>1 DEF QueueAdd, TypeOK
    <3>2. CASE BackoffElapsed(i)
      BY <3>2 DEF BackoffElapsed, TypeOK
    <3>3. CASE StalledCheck(i)
      BY <3>3 DEF StalledCheck, TypeOK
    <3> QED
      BY <1>5, <3>1, <3>2, <3>3
  <2> QED
    BY <2>1, <2>2 DEF AccountKept
<1>6. CASE ApiCrash \/ RedisFails \/ RedisRecovers \/ UNCHANGED vars
  BY <1>6 DEF ApiCrash, RedisFails, RedisRecovers, vars, AccountKept
<1>7. ASSUME NEW w \in Workers, NEW step \in WorkerSteps, WorkerGoto(w, step),
             step \in MayInsert => worker[w].pc \in MayInsert,
             routes' = routes, queue' = queue
      PROVE  AccountKept(j)
  <2>1. \A v \in Workers : /\ worker'[v].job = worker[v].job
                           /\ worker'[v].pc \in MayInsert => worker[v].pc \in MayInsert
    BY <1>7 DEF WorkerGoto, TypeOK
  <2> QED
    BY <1>7, <2>1 DEF AccountKept
<1>8. ASSUME NEW w \in Workers, NEW o \in DbOutcomes, MarkProcessing(w, o)
      PROVE  AccountKept(j)
  BY <1>7, <1>8 DEF MarkProcessing, Proceed, WorkerSteps
<1>9. ASSUME NEW w \in Workers, NEW o \in DbOutcomes, RecordFailure(w, o)
      PROVE  AccountKept(j)
  BY <1>7, <1>9 DEF RecordFailure, WorkerSteps
<1>10. ASSUME NEW w \in Workers, Compute(w)
       PROVE  AccountKept(j)
  BY <1>7, <1>10 DEF Compute, WorkerSteps
<1>11. ASSUME NEW w \in Workers, CacheResult(w)
       PROVE  AccountKept(j)
  BY <1>7, <1>11 DEF CacheResult, WorkerSteps
<1>12. ASSUME NEW w \in Workers, AnnounceFromWorker(w)
       PROVE  AccountKept(j)
  BY <1>7, <1>12 DEF AnnounceFromWorker, WorkerSteps
<1>13. ASSUME NEW w \in Workers, worker' = [worker EXCEPT ![w] = IdleWorker],
              routes' = routes, queue'[j].started = queue[j].started
       PROVE  AccountKept(j)
  <2>1. \A v \in Workers : worker'[v] = worker[v] \/ worker'[v].pc = "idle"
    BY <1>13 DEF IdleWorker, TypeOK
  <2> QED
    BY <1>13, <2>1 DEF AccountKept
<1>14. ASSUME NEW w \in Workers, Acknowledge(w)
       PROVE  AccountKept(j)
  <2>1. queue'[j].started = queue[j].started
    BY <1>14 DEF Acknowledge, TypeOK
  <2> QED
    BY <1>13, <1>14, <2>1 DEF Acknowledge
<1>15. ASSUME NEW w \in Workers, Reject(w)
       PROVE  AccountKept(j)
  <2>1. queue'[j].started = queue[j].started
    BY <1>15 DEF Reject, TypeOK
  <2> QED
    BY <1>13, <1>15, <2>1 DEF Reject
<1>16. ASSUME NEW w \in Workers, WorkerCrash(w)
       PROVE  AccountKept(j)
  <2>1. queue'[j].started = queue[j].started
    BY <1>16 DEF WorkerCrash, TypeOK
  <2> QED
    BY <1>13, <1>16, <2>1 DEF WorkerCrash
<1>17. ASSUME NEW w \in Workers, LockExpires(w)
       PROVE  AccountKept(j)
  <2>1. queue'[j].started = queue[j].started
    BY <1>17 DEF LockExpires, TypeOK
  <2> QED
    BY <1>17, <2>1 DEF LockExpires, AccountKept
<1> QED
  BY <1>1, <1>2, <1>3, <1>4, <1>5, <1>6, <1>8, <1>9, <1>10, <1>11, <1>12, <1>14, <1>15,
     <1>16, <1>17, StepCases DEF QuietStep, QueueStep

LEMMA RoutesAccountedInvariance == Spec => []RoutesAccounted
<1>1. Init => RoutesAccounted
  <2> SUFFICES ASSUME Init, NEW j \in Jobs
               PROVE  routes[j] + Cardinality(Inserting(j, worker)) <= queue[j].started
    BY DEF RoutesAccounted
  <2>1. Inserting(j, worker) = {}
    BY DEF Init, IdleWorker, Inserting, MayInsert
  <2>2. routes[j] = 0 /\ queue[j].started = 0
    BY DEF Init, NotQueued
  <2> QED
    BY <2>1, <2>2, FS_EmptySet
<1>2. TypeOK /\ RoutesAccounted /\ [Next]_vars => RoutesAccounted'
  <2> SUFFICES ASSUME TypeOK, RoutesAccounted, [Next]_vars, NEW j \in Jobs
               PROVE  routes'[j] + Cardinality(Inserting(j, worker')) <= queue'[j].started
    BY DEF RoutesAccounted, Inserting
  <2>1. routes[j] + Cardinality(Inserting(j, worker)) <= queue[j].started
    BY DEF RoutesAccounted
  <2>2. AccountKept(j) \/ AccountOpened(j) \/ AccountUsed(j)
    BY AccountSteps
  <2> QED
    BY <2>1, <2>2, AccountsBalance
<1> QED
  BY <1>1, <1>2, TypeCorrectness, PTL DEF Spec

\* No job is started more often than its attempts and tolerated stalls allow,
\* and none saves more routes than it was started.
THEOREM WorkIsBounded == Spec => []BoundedWork
<1>1. QueueInv /\ RoutesAccounted => BoundedWork
  <2> SUFFICES ASSUME QueueInv, RoutesAccounted, NEW j \in Jobs
               PROVE  /\ queue[j].started <= TotalAttempts + MaxStalled
                      /\ routes[j] <= queue[j].started
    BY DEF BoundedWork
  <2>1. queue[j].started <= TotalAttempts + MaxStalled
    BY ConstantsAssumption DEF QueueInv, StartsAccounted, TypeOK
  <2>2. /\ routes[j] + Cardinality(Inserting(j, worker)) <= queue[j].started
        /\ routes[j] \in Nat /\ queue[j].started \in Nat
    BY DEF RoutesAccounted, QueueInv, TypeOK
  <2>3. routes[j] <= queue[j].started
    BY <2>2, InsertingIsFinite
  <2> QED
    BY <2>1, <2>3
<1> QED
  BY <1>1, QueueInvariance, RoutesAccountedInvariance, PTL

-----------------------------------------------------------------------------
(***************************************************************************)
(* Attempts.  A worker whose lock was lost may still be running an attempt *)
(* that BullMQ has long counted, so its own count can only lag behind.     *)
(***************************************************************************)
WorkersLagBehind ==
    \A w \in Workers : worker[w].pc # "idle"
                           => worker[w].made <= queue[worker[w].job].made

AttemptInv == QueueInv /\ WorkersLagBehind /\ RetriesBeforeFailure

\* BullMQ never forgets a counted attempt.
LEMMA MadeNeverDecreases ==
    ASSUME QueueInv, [Next]_vars, NEW j \in Jobs
    PROVE  queue[j].made <= queue'[j].made
<1> USE DEF QueueInv
<1>1. CASE QuietStep
  BY <1>1, QuietSteps DEF TypeOK
<1>2. ASSUME NEW i \in Jobs, QueueAdd(i) \/ BackoffElapsed(i) \/ StalledCheck(i)
      PROVE  queue[j].made <= queue'[j].made
  <2>1. CASE QueueAdd(i)
    BY <2>1 DEF QueueAdd, TypeOK
  <2>2. CASE BackoffElapsed(i)
    BY <2>2 DEF BackoffElapsed, TypeOK
  <2>3. CASE StalledCheck(i)
    BY <2>3 DEF StalledCheck, TypeOK
  <2> QED
    BY <1>2, <2>1, <2>2, <2>3
<1>3. ASSUME NEW w \in Workers, NEW i \in Jobs, Fetch(w, i)
      PROVE  queue[j].made <= queue'[j].made
  BY <1>3 DEF Fetch, TypeOK
<1>4. ASSUME NEW w \in Workers, Acknowledge(w) \/ LockExpires(w) \/ WorkerCrash(w)
      PROVE  queue[j].made <= queue'[j].made
  <2>1. CASE Acknowledge(w)
    BY <2>1 DEF Acknowledge, TypeOK
  <2>2. CASE LockExpires(w)
    BY <2>2 DEF LockExpires, TypeOK
  <2>3. CASE WorkerCrash(w)
    BY <2>3 DEF WorkerCrash, TypeOK
  <2> QED
    BY <1>4, <2>1, <2>2, <2>3
<1>5. ASSUME NEW w \in Workers, Reject(w) PROVE queue[j].made <= queue'[j].made
  BY <1>5 DEF Reject, TypeOK
<1> QED
  BY <1>1, <1>2, <1>3, <1>4, <1>5, StepCases DEF QueueStep

\* Only the last attempt writes its reason into a row.
LEMMA AttemptReason ==
    ASSUME TypeOK, [Next]_vars, NEW j \in Jobs,
           row'[j].reason = "attempt", row[j].reason # "attempt"
    PROVE  \E w \in Workers : /\ worker[w].pc # "idle"
                              /\ worker[w].job = j
                              /\ IsFinalAttempt(w)
<1> DEFINE Goal == \E w \in Workers : /\ worker[w].pc # "idle"
                                      /\ worker[w].job = j
                                      /\ IsFinalAttempt(w)
<1>0. row[j] \in RowType
  BY DEF TypeOK, RowType
<1>1. CASE row' = row
  BY <1>1
<1>2. ASSUME NEW i \in Jobs, NEW o \in DbOutcomes, CreateJob(i, o) \/ FailEnqueue(i, o)
      PROVE  Goal
  <2>1. \/ row' = row \/ row' = [row EXCEPT ![i] = CreatedRow]
        \/ row' = [row EXCEPT ![i] = FailedRow(row[i], "enqueue")]
    BY <1>2 DEF CreateJob, FailEnqueue, Write
  <2>2. row'[j].reason \in {row[j].reason, "none", "enqueue"}
    <3>1. CASE i = j
      <4>1. /\ CreatedRow.reason = "none"
            /\ FailedRow(row[j], "enqueue").reason = "enqueue"
        BY <1>0 DEF RowType, CreatedRow, FailedRow
      <4> HIDE DEF Goal
      <4> QED
        BY <2>1, <3>1, <4>1 DEF TypeOK
    <3>2. CASE i # j
      BY <2>1, <3>2 DEF TypeOK
    <3> QED
      BY <3>1, <3>2
  <2> QED
    BY <2>2
<1>3. ASSUME NEW w \in Workers, NEW o \in DbOutcomes,
             MarkProcessing(w, o) \/ CompleteJob(w, o)
      PROVE  Goal
  <2>1. \/ row' = row
        \/ row' = [row EXCEPT ![worker[w].job] = ProcessingRow(row[worker[w].job])]
        \/ row' = [row EXCEPT ![worker[w].job] =
                                  CompletedRow(routes[worker[w].job] + 1)]
    BY <1>3 DEF MarkProcessing, CompleteJob, Write
  <2>2. row'[j].reason \in {row[j].reason, "none"}
    <3>1. CASE worker[w].job = j
      <4>1. /\ ProcessingRow(row[j]).reason = "none"
            /\ CompletedRow(routes[j] + 1).reason = "none"
        BY <1>0 DEF RowType, ProcessingRow, CompletedRow
      <4> HIDE DEF Goal
      <4> QED
        BY <2>1, <3>1, <4>1 DEF TypeOK
    <3>2. CASE worker[w].job # j
      BY <2>1, <3>2 DEF TypeOK
    <3> QED
      BY <3>1, <3>2
  <2> QED
    BY <2>2
<1>4. ASSUME NEW w \in Workers, NEW o \in DbOutcomes, RecordFailure(w, o) PROVE Goal
  <2>1. \/ row' = row
        \/ row' = [row EXCEPT ![worker[w].job] = QueuedRow(row[worker[w].job])]
        \/ /\ IsFinalAttempt(w)
           /\ row' = [row EXCEPT ![worker[w].job] =
                                     FailedRow(row[worker[w].job], "attempt")]
    BY <1>4 DEF RecordFailure, Write
  <2>2. CASE row' = [row EXCEPT ![worker[w].job] = QueuedRow(row[worker[w].job])]
    BY <2>2 DEF TypeOK, QueuedRow
  <2>3. CASE /\ IsFinalAttempt(w)
             /\ row' = [row EXCEPT ![worker[w].job] =
                                       FailedRow(row[worker[w].job], "attempt")]
    BY <1>4, <2>3 DEF TypeOK, RecordFailure
  <2> QED
    BY <1>1, <2>1, <2>2, <2>3
<1>5. \/ row' = row
      \/ \E i \in Jobs, o \in DbOutcomes : CreateJob(i, o) \/ FailEnqueue(i, o)
      \/ \E w \in Workers, o \in DbOutcomes : MarkProcessing(w, o) \/ CompleteJob(w, o)
      \/ \E w \in Workers, o \in DbOutcomes : RecordFailure(w, o)
  BY DEF Next, Silent, SilentApiStep, SilentWorkerStep, vars, QueueAdd, QueueAddRefused,
         AnnounceFromApi, ApiCrash, Fetch, Compute, CacheResult, Acknowledge, Reject,
         AnnounceFromWorker, BackoffElapsed, StalledCheck, LockExpires, WorkerCrash,
         RedisFails, RedisRecovers
<1> QED
  BY <1>1, <1>2, <1>3, <1>4, <1>5

LEMMA AttemptInvStep == AttemptInv /\ [Next]_vars => AttemptInv'
<1> SUFFICES ASSUME AttemptInv, [Next]_vars PROVE AttemptInv'
  OBVIOUS
<1> USE ConstantsAssumption
<1>0. QueueInv /\ QueueInv' /\ TypeOK /\ TypeOK'
  BY QueueInvStep DEF AttemptInv, QueueInv
<1>1. ASSUME NEW w \in Workers, worker'[w].pc # "idle"
      PROVE  worker'[w].made <= queue'[worker'[w].job].made
  <2>1. CASE QuietStep
    BY <1>0, <1>1, <2>1, QuietSteps DEF AttemptInv, WorkersLagBehind, SameEngagement
  <2>2. ASSUME NEW v \in Workers, NEW i \in Jobs, Fetch(v, i)
        PROVE  worker'[w].made <= queue'[worker'[w].job].made
    <3>1. CASE v = w
      BY <1>0, <2>2, <3>1 DEF Fetch, TypeOK
    <3>2. CASE v # w
      <4>1. worker'[w] = worker[w] /\ worker[w].job \in Jobs
        BY <1>0, <1>1, <2>2, <3>2 DEF Fetch, TypeOK
      <4>2. worker[w].made <= queue[worker[w].job].made
        BY <1>1, <4>1 DEF AttemptInv, WorkersLagBehind
      <4> QED
        BY <1>0, <4>1, <4>2, MadeNeverDecreases DEF TypeOK
    <3> QED
      BY <3>1, <3>2
  <2>3. CASE worker'[w] = worker[w]
    <3>1. worker[w].job \in Jobs
      BY <1>0, <1>1, <2>3 DEF TypeOK
    <3>2. worker[w].made <= queue[worker[w].job].made
      BY <1>1, <2>3 DEF AttemptInv, WorkersLagBehind
    <3> QED
      BY <1>0, <2>3, <3>1, <3>2, MadeNeverDecreases DEF TypeOK
  <2>4. ASSUME NEW v \in Workers,
               Acknowledge(v) \/ Reject(v) \/ LockExpires(v) \/ WorkerCrash(v)
        PROVE  worker'[w] = worker[w]
    BY <1>0, <1>1, <2>4
       DEF Acknowledge, Reject, LockExpires, WorkerCrash, TypeOK, IdleWorker
  <2>5. ASSUME NEW i \in Jobs, QueueAdd(i) \/ BackoffElapsed(i) \/ StalledCheck(i)
        PROVE  worker'[w] = worker[w]
    BY <2>5 DEF QueueAdd, BackoffElapsed, StalledCheck
  <2> QED
    BY <2>1, <2>2, <2>3, <2>4, <2>5, StepCases DEF QueueStep
<1>2. ASSUME NEW j \in Jobs, row'[j].reason = "attempt"
      PROVE  queue'[j].made + 1 >= TotalAttempts
  <2>1. queue[j].made + 1 >= TotalAttempts
    <3>1. CASE row[j].reason = "attempt"
      BY <3>1 DEF AttemptInv, RetriesBeforeFailure
    <3>2. CASE row[j].reason # "attempt"
      <4>1. PICK w \in Workers : /\ worker[w].pc # "idle"
                                 /\ worker[w].job = j
                                 /\ IsFinalAttempt(w)
        BY <1>0, <1>2, <3>2, AttemptReason
      <4>2. worker[w].made <= queue[j].made
        BY <4>1 DEF AttemptInv, WorkersLagBehind
      <4> QED
        BY <1>0, <4>1, <4>2 DEF IsFinalAttempt, TypeOK
    <3> QED
      BY <3>1, <3>2
  <2>2. queue[j].made <= queue'[j].made
    BY <1>0, MadeNeverDecreases
  <2> QED
    BY <1>0, <2>1, <2>2 DEF TypeOK
<1> QED
  BY <1>0, <1>1, <1>2 DEF AttemptInv, WorkersLagBehind, RetriesBeforeFailure

\* A worker marks a job failed only when all its earlier attempts have failed
\* and been counted, even after crashes, stalls and overlapping runs.
THEOREM FailsOnlyAfterRetries == Spec => []RetriesBeforeFailure
<1>1. Init => AttemptInv
  <2>1. Init => WorkersLagBehind
    BY DEF Init, WorkersLagBehind, IdleWorker
  <2>2. Init => RetriesBeforeFailure
    BY DEF Init, RetriesBeforeFailure, NoRow
  <2> QED
    BY <2>1, <2>2, QueueInvInit DEF AttemptInv
<1>2. AttemptInv => RetriesBeforeFailure
  BY DEF AttemptInv
<1> QED
  BY <1>1, <1>2, AttemptInvStep, PTL DEF Spec

-----------------------------------------------------------------------------
(***************************************************************************)
(* Results.  A row is good for n saved routes when it points to one of     *)
(* them if it is completed and gives a reason if it is failed.             *)
(***************************************************************************)
GoodRow(r, n) ==
    /\ r.status = "completed" => r.route > 0 /\ r.reason = "none"
    /\ r.status = "failed" => r.reason # "none"
    /\ r.route <= n

\* A worker about to fill the cache has saved a route for its job.
CachesSavedRoutes ==
    \A w \in Workers : worker[w].pc = "cache" => routes[worker[w].job] > 0

IntegrityInv == TypeOK /\ ResultIntegrity /\ CachesSavedRoutes

\* Every statement makes a good row of a good one.
LEMMA StatementsKeepRowsGood ==
    ASSUME NEW r \in RowType, NEW n \in Nat, GoodRow(r, n),
           NEW reason \in Reasons \ {"none"}
    PROVE  /\ GoodRow(CreatedRow, n)
           /\ GoodRow(ProcessingRow(r), n)
           /\ GoodRow(QueuedRow(r), n)
           /\ GoodRow(CompletedRow(n + 1), n + 1)
           /\ GoodRow(FailedRow(r, reason), n)
           /\ GoodRow(r, n + 1)
<1>1. GoodRow(CreatedRow, n)
  BY DEF GoodRow, CreatedRow
<1>2. GoodRow(ProcessingRow(r), n)
  BY DEF GoodRow, ProcessingRow, RowType
<1>3. GoodRow(QueuedRow(r), n)
  BY DEF GoodRow, QueuedRow, RowType
<1>4. GoodRow(CompletedRow(n + 1), n + 1)
  BY DEF GoodRow, CompletedRow
<1>5. GoodRow(FailedRow(r, reason), n)
  BY DEF GoodRow, FailedRow, RowType
<1>6. GoodRow(r, n + 1)
  BY DEF GoodRow, RowType
<1> QED
  BY <1>1, <1>2, <1>3, <1>4, <1>5, <1>6

LEMMA IntegrityInvStep == IntegrityInv /\ [Next]_vars => IntegrityInv'
<1> SUFFICES ASSUME IntegrityInv, [Next]_vars PROVE IntegrityInv'
  OBVIOUS
<1>0. TypeOK /\ TypeOK'
  BY TypeStep DEF IntegrityInv
<1>1. \A j \in Jobs : /\ GoodRow(row[j], routes[j])
                      /\ row[j] \in RowType
                      /\ routes[j] \in Nat
  BY <1>0 DEF IntegrityInv, ResultIntegrity, GoodRow, TypeOK, RowType
\* Rows, saved routes and cached responses after the step
<1>2. ASSUME \A j \in Jobs : GoodRow(row'[j], routes'[j]),
             \A j \in cached' : routes'[j] > 0,
             CachesSavedRoutes'
      PROVE  IntegrityInv'
  BY <1>0, <1>2 DEF IntegrityInv, ResultIntegrity, GoodRow, TypeOK
<1>3. \A j \in cached : routes[j] > 0
  BY DEF IntegrityInv, ResultIntegrity, TypeOK
<1>4. ASSUME NEW j \in Jobs, NEW r, GoodRow(r, routes[j]),
             row' = row \/ row' = [row EXCEPT ![j] = r],
             UNCHANGED <<routes, cached>>, CachesSavedRoutes'
      PROVE  IntegrityInv'
  BY <1>0, <1>1, <1>2, <1>3, <1>4 DEF TypeOK
<1>5. ASSUME UNCHANGED <<row, routes, cached>>,
             \A w \in Workers : worker'[w].pc = "cache" => worker'[w] = worker[w]
      PROVE  IntegrityInv'
  BY <1>1, <1>2, <1>3, <1>5 DEF IntegrityInv, CachesSavedRoutes
<1>6. ASSUME NEW j \in Jobs, NEW o \in DbOutcomes, CreateJob(j, o) PROVE IntegrityInv'
  <2>1. GoodRow(CreatedRow, routes[j])
    BY <1>1 DEF GoodRow, CreatedRow
  <2>2. CachesSavedRoutes'
    BY <1>6 DEF CreateJob, IntegrityInv, CachesSavedRoutes
  <2> QED
    BY <1>4, <1>6, <2>1, <2>2 DEF CreateJob, Write
<1>7. ASSUME NEW j \in Jobs, NEW o \in DbOutcomes, FailEnqueue(j, o) PROVE IntegrityInv'
  <2>1. GoodRow(FailedRow(row[j], "enqueue"), routes[j])
    BY <1>1, StatementsKeepRowsGood DEF Reasons
  <2>2. CachesSavedRoutes'
    BY <1>7 DEF FailEnqueue, IntegrityInv, CachesSavedRoutes
  <2> QED
    BY <1>4, <1>7, <2>1, <2>2 DEF FailEnqueue, Write
<1>8. ASSUME NEW w \in Workers, NEW o \in DbOutcomes, MarkProcessing(w, o)
      PROVE  IntegrityInv'
  <2> DEFINE j == worker[w].job
  <2>1. j \in Jobs
    BY <1>0, <1>8 DEF TypeOK, MarkProcessing
  <2>2. GoodRow(ProcessingRow(row[j]), routes[j])
    BY <1>1, <2>1, StatementsKeepRowsGood DEF Reasons
  <2>3. CachesSavedRoutes'
    BY <1>0, <1>8
       DEF MarkProcessing, Proceed, WorkerGoto, IntegrityInv, CachesSavedRoutes, TypeOK
  <2> QED
    BY <1>4, <1>8, <2>1, <2>2, <2>3 DEF MarkProcessing, Write
<1>9. ASSUME NEW w \in Workers, NEW o \in DbOutcomes, RecordFailure(w, o)
      PROVE  IntegrityInv'
  <2> DEFINE j == worker[w].job
             r == IF IsFinalAttempt(w) THEN FailedRow(row[j], "attempt")
                                       ELSE QueuedRow(row[j])
  <2>1. j \in Jobs
    BY <1>0, <1>9 DEF TypeOK, RecordFailure
  <2>2. GoodRow(r, routes[j])
    BY <1>1, <2>1, StatementsKeepRowsGood DEF Reasons
  <2>3. CachesSavedRoutes'
    BY <1>0, <1>9
       DEF RecordFailure, WorkerGoto, IntegrityInv, CachesSavedRoutes, TypeOK
  <2>4. row' = row \/ row' = [row EXCEPT ![j] = r]
    BY <1>9 DEF RecordFailure, Write
  <2>5. UNCHANGED <<routes, cached>>
    BY <1>9 DEF RecordFailure
  <2> HIDE DEF j, r
  <2> QED
    BY <1>4, <2>1, <2>2, <2>3, <2>4, <2>5
<1>10. ASSUME NEW w \in Workers, NEW o \in DbOutcomes, CompleteJob(w, o)
       PROVE  IntegrityInv'
  <2> DEFINE j == worker[w].job
             n == routes[j]
  <2>1. j \in Jobs /\ n \in Nat
    BY <1>0, <1>10 DEF TypeOK, CompleteJob
  <2>2. CASE o = "dbRefused"
    <3>1. UNCHANGED <<row, routes, cached>>
      BY <1>10, <2>2 DEF CompleteJob, Write
    <3>2. \A v \in Workers : worker'[v].pc = "cache" => worker'[v] = worker[v]
      BY <1>0, <1>10, <2>2 DEF CompleteJob, TypeOK
    <3> QED
      BY <1>5, <3>1, <3>2
  <2>3. CASE o # "dbRefused"
    <3>1. /\ row' = [row EXCEPT ![j] = CompletedRow(n + 1)]
          /\ routes' = [routes EXCEPT ![j] = n + 1]
          /\ cached' = cached
      BY <1>10, <2>3 DEF CompleteJob, Write
    <3>2. GoodRow(CompletedRow(n + 1), n + 1)
      BY <1>1, <2>1, StatementsKeepRowsGood DEF Reasons
    <3>3. /\ row'[j] = CompletedRow(n + 1)
          /\ routes'[j] = n + 1
          /\ \A i \in Jobs \ {j} : row'[i] = row[i] /\ routes'[i] = routes[i]
      BY <1>0, <2>1, <3>1 DEF TypeOK
    <3>4. \A i \in Jobs : GoodRow(row'[i], routes'[i])
      BY <1>1, <3>2, <3>3
    <3>5. \A i \in Jobs : routes'[i] >= routes[i] /\ routes[i] \in Nat
      BY <1>1, <2>1, <3>3
    <3>6. routes'[j] > 0
      BY <2>1, <3>3
    <3>7. \A i \in cached' : routes'[i] > 0
      BY <1>0, <1>3, <3>1, <3>3, <3>6 DEF TypeOK
    <3>8. ASSUME NEW v \in Workers, worker'[v].pc = "cache"
          PROVE  routes'[worker'[v].job] > 0
      <4>1. CASE v = w
        BY <1>0, <1>10, <3>6, <4>1 DEF CompleteJob, TypeOK
      <4>2. CASE v # w
        <5>1. worker'[v] = worker[v]
          BY <1>0, <1>10, <4>2 DEF CompleteJob, TypeOK
        <5>2. worker[v].job \in Jobs /\ routes[worker[v].job] > 0
          BY <1>0, <3>8, <5>1 DEF IntegrityInv, CachesSavedRoutes, TypeOK
        <5> QED
          BY <3>3, <3>6, <5>1, <5>2
      <4> QED
        BY <4>1, <4>2
    <3> QED
      BY <1>2, <3>4, <3>7, <3>8 DEF CachesSavedRoutes
  <2> QED
    BY <2>2, <2>3
<1>11. ASSUME NEW w \in Workers, CacheResult(w) PROVE IntegrityInv'
  <2>1. routes[worker[w].job] > 0
    BY <1>11 DEF CacheResult, IntegrityInv, CachesSavedRoutes
  <2>2. \A j \in cached' : routes'[j] > 0
    BY <1>3, <1>11, <2>1 DEF CacheResult
  <2>3. CachesSavedRoutes'
    BY <1>0, <1>11
       DEF CacheResult, WorkerGoto, IntegrityInv, CachesSavedRoutes, TypeOK
  <2>4. \A j \in Jobs : GoodRow(row'[j], routes'[j])
    BY <1>1, <1>11 DEF CacheResult
  <2> QED
    BY <1>2, <2>2, <2>3, <2>4
<1>12. ASSUME NEW j \in Jobs,
              \/ QueueAdd(j) \/ QueueAddRefused(j) \/ AnnounceFromApi(j)
              \/ BackoffElapsed(j) \/ StalledCheck(j)
       PROVE  IntegrityInv'
  BY <1>5, <1>12
     DEF QueueAdd, QueueAddRefused, AnnounceFromApi, BackoffElapsed, StalledCheck
<1>13. ASSUME NEW w \in Workers, NEW j \in Jobs, Fetch(w, j) PROVE IntegrityInv'
  <2>1. \A v \in Workers : worker'[v].pc = "cache" => worker'[v] = worker[v]
    BY <1>0, <1>13 DEF Fetch, TypeOK
  <2> QED
    BY <1>5, <1>13, <2>1 DEF Fetch
<1>14. ASSUME NEW w \in Workers, Compute(w) \/ AnnounceFromWorker(w) PROVE IntegrityInv'
  <2>1. UNCHANGED <<row, routes, cached>>
    BY <1>14 DEF Compute, AnnounceFromWorker
  <2>2. CASE Compute(w)
    BY <1>0, <1>5, <2>1, <2>2 DEF Compute, WorkerGoto, TypeOK
  <2>3. CASE AnnounceFromWorker(w)
    BY <1>0, <1>5, <2>1, <2>3 DEF AnnounceFromWorker, WorkerGoto, TypeOK
  <2> QED
    BY <1>14, <2>2, <2>3
<1>15. ASSUME NEW w \in Workers,
              Acknowledge(w) \/ Reject(w) \/ WorkerCrash(w) \/ LockExpires(w)
       PROVE  IntegrityInv'
  <2>1. UNCHANGED <<row, routes, cached>>
    BY <1>15 DEF Acknowledge, Reject, WorkerCrash, LockExpires
  <2>2. worker' = worker \/ worker' = [worker EXCEPT ![w] = IdleWorker]
    BY <1>15 DEF Acknowledge, Reject, WorkerCrash, LockExpires
  <2>3. \A v \in Workers : worker'[v].pc = "cache" => worker'[v] = worker[v]
    BY <1>0, <2>2 DEF TypeOK, IdleWorker
  <2> QED
    BY <1>5, <2>1, <2>3
<1>16. CASE ApiCrash \/ RedisFails \/ RedisRecovers \/ UNCHANGED vars
  BY <1>5, <1>16 DEF ApiCrash, RedisFails, RedisRecovers, vars
<1> QED
  BY <1>6, <1>7, <1>8, <1>9, <1>10, <1>11, <1>12, <1>13, <1>14, <1>15, <1>16
     DEF Next, Silent, SilentApiStep, SilentWorkerStep

\* A completed job always points to a route saved for it, a failed one always
\* says why, and nothing is cached that was not saved.
THEOREM ResultsAreSound == Spec => []ResultIntegrity
<1>1. Init => IntegrityInv
  <2>1. Init => ResultIntegrity
    BY DEF Init, ResultIntegrity, NoRow
  <2>2. Init => CachesSavedRoutes
    BY DEF Init, CachesSavedRoutes, IdleWorker
  <2> QED
    BY <2>1, <2>2, TypeInit DEF IntegrityInv
<1>2. IntegrityInv => ResultIntegrity
  BY DEF IntegrityInv
<1> QED
  BY <1>1, <1>2, IntegrityInvStep, PTL DEF Spec

-----------------------------------------------------------------------------
(***************************************************************************)
(* Results that stand.  A job has two workers only after it has stalled:   *)
(* until then the lock of a job that is run is held by its worker or is    *)
(* gone, and a job whose lock is gone stays active until it stalls.        *)
(***************************************************************************)
RunsOn(w, j) == worker[w].pc # "idle" /\ worker[w].job = j

FreshIsUnstalled ==
    \A j \in Jobs : queue[j].state = "none" => queue[j].stalls = 0

AloneUntilStalled ==
    \A j \in Jobs, w \in Workers :
        queue[j].stalls = 0 /\ RunsOn(w, j) =>
            /\ queue[j].state = "active"
            /\ \A v \in Workers : RunsOn(v, j) => v = w

RunInv == QueueInv /\ FreshIsUnstalled /\ AloneUntilStalled

\* What becomes of BullMQ's record of a job in a step of BullMQ.
RecordGoesOn(j) ==
    /\ queue'[j].stalls = 0 => queue[j].stalls = 0
    /\ queue'[j].state = "none" => queue[j].state = "none"

LEMMA RecordsGoOn ==
    ASSUME TypeOK, QueueStep, NEW j \in Jobs
    PROVE  RecordGoesOn(j)
<1>1. ASSUME NEW i \in Jobs, QueueAdd(i) PROVE RecordGoesOn(j)
  BY <1>1 DEF QueueAdd, TypeOK, RecordGoesOn
<1>2. ASSUME NEW i \in Jobs, BackoffElapsed(i) PROVE RecordGoesOn(j)
  BY <1>2 DEF BackoffElapsed, TypeOK, RecordGoesOn
<1>3. ASSUME NEW i \in Jobs, StalledCheck(i) PROVE RecordGoesOn(j)
  BY <1>3 DEF StalledCheck, TypeOK, RecordGoesOn
<1>4. ASSUME NEW w \in Workers, NEW i \in Jobs, Fetch(w, i) PROVE RecordGoesOn(j)
  BY <1>4 DEF Fetch, TypeOK, RecordGoesOn
<1>5. ASSUME NEW w \in Workers, Acknowledge(w) PROVE RecordGoesOn(j)
  BY <1>5 DEF Acknowledge, TypeOK, RecordGoesOn
<1>6. ASSUME NEW w \in Workers, Reject(w) PROVE RecordGoesOn(j)
  BY <1>6 DEF Reject, TypeOK, RecordGoesOn
<1>7. ASSUME NEW w \in Workers, LockExpires(w) PROVE RecordGoesOn(j)
  BY <1>7 DEF LockExpires, TypeOK, RecordGoesOn
<1>8. ASSUME NEW w \in Workers, WorkerCrash(w) PROVE RecordGoesOn(j)
  BY <1>8 DEF WorkerCrash, TypeOK, RecordGoesOn
<1> QED
  BY <1>1, <1>2, <1>3, <1>4, <1>5, <1>6, <1>7, <1>8 DEF QueueStep

LEMMA RunInvInit == Init => RunInv
<1> SUFFICES ASSUME Init PROVE RunInv
  OBVIOUS
<1>1. FreshIsUnstalled
  BY DEF Init, FreshIsUnstalled, NotQueued
<1>2. AloneUntilStalled
  BY DEF Init, AloneUntilStalled, RunsOn, IdleWorker
<1> QED
  BY <1>1, <1>2, QueueInvInit DEF RunInv

LEMMA RunInvStep == RunInv /\ [Next]_vars => RunInv'
<1> SUFFICES ASSUME RunInv, [Next]_vars PROVE RunInv'
  OBVIOUS
<1> USE ConstantsAssumption
<1>0. TypeOK /\ TypeOK' /\ QueueInv /\ QueueInv'
  BY QueueInvStep DEF RunInv, QueueInv
<1>1. FreshIsUnstalled'
  <2>1. CASE QuietStep
    BY <1>0, <2>1, QuietSteps DEF RunInv, FreshIsUnstalled
  <2>2. CASE QueueStep
    <3> SUFFICES ASSUME NEW j \in Jobs, queue'[j].state = "none"
                 PROVE  queue'[j].stalls = 0
      BY DEF FreshIsUnstalled
    <3>1. queue[j].state = "none" /\ queue[j].stalls = 0
      BY <1>0, <2>2, RecordsGoOn DEF RecordGoesOn, RunInv, FreshIsUnstalled
    <3>2. ASSUME NEW i \in Jobs, StalledCheck(i) PROVE queue'[j] = queue[j]
      BY <1>0, <3>1, <3>2 DEF StalledCheck, TypeOK
    <3>3. ASSUME NEW i \in Jobs, QueueAdd(i) PROVE queue'[j].stalls = queue[j].stalls
      BY <1>0, <3>3 DEF QueueAdd, TypeOK
    <3>4. ASSUME NEW i \in Jobs, BackoffElapsed(i) PROVE queue'[j].stalls = queue[j].stalls
      BY <1>0, <3>4 DEF BackoffElapsed, TypeOK
    <3>5. ASSUME NEW w \in Workers, NEW i \in Jobs, Fetch(w, i)
          PROVE  queue'[j].stalls = queue[j].stalls
      BY <1>0, <3>5 DEF Fetch, TypeOK
    <3>6. ASSUME NEW w \in Workers, Acknowledge(w) \/ Reject(w)
          PROVE  queue'[j].stalls = queue[j].stalls
      <4>1. CASE Acknowledge(w)
        BY <1>0, <4>1 DEF Acknowledge, TypeOK
      <4>2. CASE Reject(w)
        BY <1>0, <4>2 DEF Reject, TypeOK
      <4> QED
        BY <3>6, <4>1, <4>2
    <3>7. ASSUME NEW w \in Workers, LockExpires(w) \/ WorkerCrash(w)
          PROVE  queue'[j].stalls = queue[j].stalls
      <4>1. CASE LockExpires(w)
        BY <1>0, <4>1 DEF LockExpires, TypeOK
      <4>2. CASE WorkerCrash(w)
        BY <1>0, <4>2 DEF WorkerCrash, TypeOK
      <4> QED
        BY <3>7, <4>1, <4>2
    <3> QED
      BY <2>2, <3>1, <3>2, <3>3, <3>4, <3>5, <3>6, <3>7 DEF QueueStep
  <2> QED
    BY <2>1, <2>2, StepCases
<1> DEFINE AloneAt(j) == \A w \in Workers :
               queue[j].stalls = 0 /\ RunsOn(w, j) =>
                   /\ queue[j].state = "active"
                   /\ \A v \in Workers : RunsOn(v, j) => v = w
\* No worker comes to the job, and it stays active while one has it
<1>2. ASSUME NEW j \in Jobs,
             \A v \in Workers : RunsOn(v, j)' => RunsOn(v, j),
             queue'[j].stalls = 0 => queue[j].stalls = 0,
             \A v \in Workers : RunsOn(v, j)' /\ queue[j].state = "active"
                                    /\ queue[j].stalls = 0
                                    /\ (\A u \in Workers : RunsOn(u, j) => u = v)
                                    /\ queue'[j].stalls = 0
                                        => queue'[j].state = "active"
      PROVE  AloneAt(j)'
  <2> SUFFICES ASSUME NEW w \in Workers, queue'[j].stalls = 0, RunsOn(w, j)'
               PROVE  /\ queue'[j].state = "active"
                      /\ \A v \in Workers : RunsOn(v, j)' => v = w
    OBVIOUS
  <2>1. /\ queue[j].state = "active" /\ queue[j].stalls = 0
        /\ \A v \in Workers : RunsOn(v, j) => v = w
    BY <1>2 DEF RunInv, AloneUntilStalled
  <2> QED
    BY <1>2, <2>1
<1>3. ASSUME NEW j \in Jobs, NEW i \in Jobs, QueueAdd(i) \/ BackoffElapsed(i)
      PROVE  AloneAt(j)'
  <2>1. /\ worker' = worker /\ queue[i].state # "active"
        /\ queue'[j].stalls = queue[j].stalls
        /\ i # j => queue'[j] = queue[j]
    <3>1. CASE QueueAdd(i)
      BY <1>0, <3>1 DEF QueueAdd, TypeOK, QueueInv, NotYetAdded, NotQueued
    <3>2. CASE BackoffElapsed(i)
      BY <1>0, <3>2 DEF BackoffElapsed, TypeOK
    <3> QED
      BY <1>3, <3>1, <3>2
  <2> HIDE DEF AloneAt
  <2> QED
    BY <1>2, <2>1 DEF RunsOn
<1>4. ASSUME NEW j \in Jobs, NEW i \in Jobs, StalledCheck(i) PROVE AloneAt(j)'
  <2>1. /\ worker' = worker
        /\ i # j => queue'[j] = queue[j]
        /\ i = j => queue'[j].stalls # 0
        /\ queue'[j].stalls = 0 => queue[j].stalls = 0
    BY <1>0, <1>4 DEF StalledCheck, TypeOK
  <2> HIDE DEF AloneAt
  <2> QED
    BY <1>2, <2>1 DEF RunsOn
<1>5. ASSUME NEW j \in Jobs, NEW u \in Workers, NEW i \in Jobs, Fetch(u, i)
      PROVE  AloneAt(j)'
  <2>1. /\ worker[u].pc = "idle" /\ queue[i].state = "waiting"
        /\ worker'[u].pc = "mark" /\ worker'[u].job = i
        /\ \A v \in Workers \ {u} : worker'[v] = worker[v]
        /\ queue'[i].state = "active" /\ queue'[i].stalls = queue[i].stalls
        /\ \A k \in Jobs \ {i} : queue'[k] = queue[k]
    BY <1>0, <1>5 DEF Fetch, TypeOK
  <2>2. CASE i = j
    <3>1. queue[j].stalls = 0 => \A v \in Workers : ~RunsOn(v, j)
      BY <2>1, <2>2 DEF RunInv, AloneUntilStalled
    <3> QED
      BY <2>1, <2>2, <3>1 DEF RunsOn
  <2>3. CASE i # j
    <3>1. /\ \A v \in Workers : RunsOn(v, j)' => RunsOn(v, j)
          /\ queue'[j] = queue[j]
      BY <2>1, <2>3 DEF RunsOn
    <3> HIDE DEF AloneAt
    <3> QED
      BY <1>2, <3>1
  <2> QED
    BY <2>2, <2>3
<1>6. ASSUME NEW j \in Jobs, NEW u \in Workers, Acknowledge(u) \/ Reject(u)
      PROVE  AloneAt(j)'
  <2>1. /\ worker[u].pc # "idle"
        /\ worker' = [worker EXCEPT ![u] = IdleWorker]
        /\ worker[u].job # j => queue'[j] = queue[j]
        /\ queue'[j].stalls = queue[j].stalls
    <3>1. CASE Acknowledge(u)
      BY <1>0, <3>1 DEF Acknowledge, TypeOK
    <3>2. CASE Reject(u)
      BY <1>0, <3>2 DEF Reject, TypeOK
    <3> QED
      BY <1>6, <3>1, <3>2
  <2>2. /\ worker'[u].pc = "idle"
        /\ \A v \in Workers \ {u} : worker'[v] = worker[v]
    BY <1>0, <2>1 DEF IdleWorker, TypeOK
  <2>3. \A v \in Workers : RunsOn(v, j)' => RunsOn(v, j) /\ v # u
    BY <2>2 DEF RunsOn
  <2>4. \A v \in Workers : /\ RunsOn(v, j)'
                           /\ \A t \in Workers : RunsOn(t, j) => t = v
                           => queue'[j] = queue[j]
    BY <2>1, <2>3 DEF RunsOn
  <2> HIDE DEF AloneAt
  <2> QED
    BY <1>2, <2>1, <2>3, <2>4
<1>7. ASSUME NEW j \in Jobs, NEW u \in Workers, LockExpires(u) \/ WorkerCrash(u)
      PROVE  AloneAt(j)'
  <2>1. /\ worker' = worker \/ worker' = [worker EXCEPT ![u] = IdleWorker]
        /\ queue'[j].state = queue[j].state
        /\ queue'[j].stalls = queue[j].stalls
    <3>1. CASE LockExpires(u)
      BY <1>0, <3>1 DEF LockExpires, TypeOK
    <3>2. CASE WorkerCrash(u)
      BY <1>0, <3>2 DEF WorkerCrash, TypeOK
    <3> QED
      BY <1>7, <3>1, <3>2
  <2>2. \A v \in Workers : RunsOn(v, j)' => RunsOn(v, j)
    BY <1>0, <2>1 DEF RunsOn, IdleWorker, TypeOK
  <2> HIDE DEF AloneAt
  <2> QED
    BY <1>2, <2>1, <2>2
<1>8. CASE QuietStep
  BY <1>0, <1>1, <1>8, QuietSteps DEF RunInv, AloneUntilStalled, SameEngagement, RunsOn
<1>9. CASE QueueStep
  <2>1. \A j \in Jobs : AloneAt(j)'
    <3> HIDE DEF AloneAt
    <3> QED
      BY <1>3, <1>4, <1>5, <1>6, <1>7, <1>9 DEF QueueStep
  <2> QED
    BY <1>0, <1>1, <2>1 DEF RunInv, AloneUntilStalled
<1> QED
  BY <1>8, <1>9, StepCases

\* Nobody works for a request that has not got beyond queue.add.
LEMMA NobodyRunsEarly ==
    ASSUME RunInv, NEW j \in Jobs, queue[j].state = "none", NEW w \in Workers
    PROVE  ~RunsOn(w, j)
  BY DEF RunInv, FreshIsUnstalled, AloneUntilStalled

\* Which statements a step executes, and in whose name.
RowSteps(j) ==
    \/ row'[j] = row[j]
    \/ \E o \in DbOutcomes : CreateJob(j, o)
    \/ \E o \in DbOutcomes : FailEnqueue(j, o)
    \/ \E w \in Workers, o \in DbOutcomes :
           /\ RunsOn(w, j)
           /\ MarkProcessing(w, o) \/ CompleteJob(w, o) \/ RecordFailure(w, o)

LEMMA RowsAreWritten ==
    ASSUME TypeOK, QuietStep, NEW j \in Jobs
    PROVE  RowSteps(j)
<1>1. ASSUME NEW i \in Jobs, NEW o \in DbOutcomes, CreateJob(i, o) \/ FailEnqueue(i, o)
      PROVE  RowSteps(j)
  <2>1. i # j => row'[j] = row[j]
    BY <1>1 DEF CreateJob, FailEnqueue, Write, TypeOK
  <2> QED
    BY <1>1, <2>1 DEF RowSteps
<1>2. ASSUME NEW w \in Workers, NEW o \in DbOutcomes,
             MarkProcessing(w, o) \/ CompleteJob(w, o) \/ RecordFailure(w, o)
      PROVE  RowSteps(j)
  <2>1. worker[w].pc # "idle" /\ worker[w].job \in Jobs
    BY <1>2 DEF MarkProcessing, CompleteJob, RecordFailure, TypeOK
  <2>2. worker[w].job # j => row'[j] = row[j]
    BY <1>2, <2>1 DEF MarkProcessing, CompleteJob, RecordFailure, Write, TypeOK
  <2> QED
    BY <1>2, <2>1, <2>2 DEF RowSteps, RunsOn
<1>3. ASSUME row' = row PROVE RowSteps(j)
  BY <1>3 DEF RowSteps
<1> QED
  BY <1>1, <1>2, <1>3
     DEF QuietStep, QueueAddRefused, AnnounceFromApi, ApiCrash, Compute, CacheResult,
         AnnounceFromWorker, RedisFails, RedisRecovers, vars

\* A step of BullMQ leaves the rows alone, and nobody gets beyond a result.
LEMMA QueueStepsKeepRows ==
    ASSUME TypeOK, QueueStep
    PROVE  /\ row' = row
           /\ \A w \in Workers : worker'[w] = worker[w] \/ worker'[w].pc \in {"idle", "mark"}
<1>1. ASSUME NEW j \in Jobs, QueueAdd(j) \/ BackoffElapsed(j) \/ StalledCheck(j)
      PROVE  row' = row /\ worker' = worker
  BY <1>1 DEF QueueAdd, BackoffElapsed, StalledCheck
<1>2. ASSUME NEW w \in Workers, NEW j \in Jobs, Fetch(w, j)
      PROVE  /\ row' = row
             /\ \A v \in Workers : worker'[v] = worker[v] \/ worker'[v].pc = "mark"
  BY <1>2 DEF Fetch, TypeOK
<1>3. ASSUME NEW w \in Workers,
             Acknowledge(w) \/ Reject(w) \/ LockExpires(w) \/ WorkerCrash(w)
      PROVE  /\ row' = row
             /\ \A v \in Workers : worker'[v] = worker[v] \/ worker'[v].pc = "idle"
  <2>1. row' = row /\ (worker' = worker \/ worker' = [worker EXCEPT ![w] = IdleWorker])
    BY <1>3 DEF Acknowledge, Reject, LockExpires, WorkerCrash
  <2> QED
    BY <2>1 DEF IdleWorker, TypeOK
<1> QED
  BY <1>1, <1>2, <1>3 DEF QueueStep

(***************************************************************************)
(* A worker that has completed its job in the database, or BullMQ after    *)
(* it, has the result at hand: the row keeps the link to a saved route,    *)
(* and until the job stalls only that worker and the failJob of its        *)
(* request write to it.                                                    *)
(***************************************************************************)
HasResult == {"cache", "sayCompleted", "ack"}
Linked(r) == r.route > 0
Stands(r) == r.status = "completed" \/ r.reason = "enqueue"
AtHand(j) == \/ queue[j].state = "completed"
             \/ \E w \in Workers : RunsOn(w, j) /\ worker[w].pc \in HasResult

ResultsAtHand ==
    \A j \in Jobs : AtHand(j) =>
        /\ Linked(row[j])
        /\ queue[j].stalls = 0 => Stands(row[j])

StandInv == RunInv /\ ResultsAtHand

\* What the statements make of the link and of the result of a row.
LEMMA StatementsKeepLinks ==
    ASSUME NEW r \in RowType, NEW n \in Nat, NEW reason \in Reasons
    PROVE  /\ Linked(r) => Linked(ProcessingRow(r)) /\ Linked(QueuedRow(r))
           /\ Linked(r) => Linked(FailedRow(r, reason))
           /\ Linked(CompletedRow(n + 1)) /\ Stands(CompletedRow(n + 1))
           /\ Stands(FailedRow(r, "enqueue"))
<1>1. Linked(r) => Linked(ProcessingRow(r)) /\ Linked(QueuedRow(r))
  BY DEF Linked, ProcessingRow, QueuedRow, RowType
<1>2. Linked(r) => Linked(FailedRow(r, reason))
  BY DEF Linked, FailedRow, RowType
<1>3. Linked(CompletedRow(n + 1)) /\ Stands(CompletedRow(n + 1))
  BY DEF Linked, Stands, CompletedRow
<1>4. Stands(FailedRow(r, "enqueue"))
  BY DEF Stands, FailedRow, RowType
<1> QED
  BY <1>1, <1>2, <1>3, <1>4

\* A worker that gets a result has just completed the row with it.
LEMMA ResultsAreGot ==
    ASSUME TypeOK, QuietStep, NEW j \in Jobs, NEW w \in Workers,
           RunsOn(w, j), worker'[w].pc \in HasResult, worker[w].pc \notin HasResult
    PROVE  row'[j] = CompletedRow(routes[j] + 1)
<1>1. ASSUME NEW v \in Workers, NEW o \in DbOutcomes, CompleteJob(v, o)
      PROVE  row'[j] = CompletedRow(routes[j] + 1)
  <2>1. v = w /\ o = "ok"
    BY <1>1 DEF CompleteJob, TypeOK, HasResult
  <2> QED
    BY <1>1, <2>1 DEF CompleteJob, Write, TypeOK, RunsOn
<1>2. ASSUME NEW v \in Workers, NEW o \in DbOutcomes,
             MarkProcessing(v, o) \/ RecordFailure(v, o)
      PROVE  FALSE
  <2>1. CASE MarkProcessing(v, o)
    BY <2>1 DEF MarkProcessing, Proceed, WorkerGoto, TypeOK, HasResult
  <2>2. CASE RecordFailure(v, o)
    BY <2>2 DEF RecordFailure, WorkerGoto, TypeOK, HasResult
  <2> QED
    BY <1>2, <2>1, <2>2
<1>3. ASSUME NEW v \in Workers, Compute(v) \/ CacheResult(v) \/ AnnounceFromWorker(v)
      PROVE  FALSE
  <2>1. CASE Compute(v)
    BY <2>1 DEF Compute, WorkerGoto, TypeOK, HasResult
  <2>2. CASE CacheResult(v)
    BY <2>2 DEF CacheResult, WorkerGoto, TypeOK, HasResult
  <2>3. CASE AnnounceFromWorker(v)
    BY <2>3 DEF AnnounceFromWorker, WorkerGoto, TypeOK, HasResult
  <2> QED
    BY <1>3, <2>1, <2>2, <2>3
<1>4. ASSUME worker' = worker PROVE FALSE
  BY <1>4
<1> QED
  BY <1>1, <1>2, <1>3, <1>4
     DEF QuietStep, CreateJob, FailEnqueue, QueueAddRefused, AnnounceFromApi, ApiCrash,
         RedisFails, RedisRecovers, vars

LEMMA StandInvStep == StandInv /\ [Next]_vars => StandInv'
<1> SUFFICES ASSUME StandInv, [Next]_vars, NEW j \in Jobs, AtHand(j)'
             PROVE  Linked(row'[j]) /\ (queue'[j].stalls = 0 => Stands(row'[j]))
  BY RunInvStep DEF StandInv, ResultsAtHand, AtHand, RunsOn
<1> DEFINE Kept == Linked(row'[j]) /\ (queue'[j].stalls = 0 => Stands(row'[j]))
<1>0. /\ RunInv /\ RunInv' /\ QueueInv /\ TypeOK
      /\ row[j] \in RowType /\ routes[j] \in Nat
      /\ AtHand(j) => Linked(row[j]) /\ (queue[j].stalls = 0 => Stands(row[j]))
  BY RunInvStep DEF StandInv, ResultsAtHand, RunInv, QueueInv, TypeOK, RowType
<1>1. CASE QuietStep
  <2>1. queue' = queue /\ SameEngagement
    BY <1>0, <1>1, QuietSteps
  <2>2. CASE \E w \in Workers : /\ RunsOn(w, j) /\ worker'[w].pc \in HasResult
                                /\ worker[w].pc \notin HasResult
    <3>1. row'[j] = CompletedRow(routes[j] + 1)
      BY <1>0, <1>1, <2>2, ResultsAreGot
    <3> QED
      BY <1>0, <3>1, StatementsKeepLinks DEF Reasons
  <2>3. CASE ~\E w \in Workers : /\ RunsOn(w, j) /\ worker'[w].pc \in HasResult
                                 /\ worker[w].pc \notin HasResult
    <3>1. AtHand(j)
      BY <2>1, <2>3 DEF AtHand, RunsOn, SameEngagement
    <3>2. Linked(row[j]) /\ (queue[j].stalls = 0 => Stands(row[j]))
      BY <1>0, <3>1
    <3>3. queue[j].state # "none"
      BY <1>0, <3>1, NobodyRunsEarly DEF AtHand
    <3>4. ASSUME NEW o \in DbOutcomes, CreateJob(j, o) PROVE FALSE
      BY <1>0, <3>3, <3>4 DEF CreateJob, QueueInv, NotYetAdded, NotQueued
    <3>5. ASSUME NEW o \in DbOutcomes, FailEnqueue(j, o) PROVE Kept
      <4>1. row'[j] = row[j] \/ row'[j] = FailedRow(row[j], "enqueue")
        BY <1>0, <3>5 DEF FailEnqueue, Write, TypeOK
      <4> QED
        BY <1>0, <2>1, <3>2, <4>1, StatementsKeepLinks DEF Reasons
    <3>6. ASSUME NEW w \in Workers, NEW o \in DbOutcomes, RunsOn(w, j), CompleteJob(w, o)
          PROVE  Kept
      <4>1. row'[j] = row[j] \/ row'[j] = CompletedRow(routes[j] + 1)
        BY <1>0, <3>6 DEF CompleteJob, Write, TypeOK, RunsOn
      <4> QED
        BY <1>0, <2>1, <3>2, <4>1, StatementsKeepLinks DEF Reasons
    <3>7. ASSUME NEW w \in Workers, NEW o \in DbOutcomes, RunsOn(w, j),
                 MarkProcessing(w, o) \/ RecordFailure(w, o)
          PROVE  Kept
      <4>1. \/ row'[j] = row[j] \/ row'[j] = ProcessingRow(row[j])
            \/ row'[j] = QueuedRow(row[j]) \/ row'[j] = FailedRow(row[j], "attempt")
        <5>1. CASE MarkProcessing(w, o)
          BY <1>0, <3>7, <5>1 DEF MarkProcessing, Write, TypeOK, RunsOn
        <5>2. CASE RecordFailure(w, o)
          BY <1>0, <3>7, <5>2 DEF RecordFailure, Write, TypeOK, RunsOn
        <5> QED
          BY <3>7, <5>1, <5>2
      <4>2. Linked(row'[j])
        BY <1>0, <3>2, <4>1, StatementsKeepLinks DEF Reasons
      <4>3. worker[w].pc \notin HasResult
        BY <3>7 DEF MarkProcessing, RecordFailure, HasResult
      <4>4. queue[j].stalls # 0
        BY <1>0, <3>1, <3>7, <4>3 DEF AtHand, RunInv, AloneUntilStalled
      <4> QED
        BY <2>1, <4>2, <4>4
    <3> HIDE DEF Kept
    <3>8. row'[j] = row[j] => Kept
      BY <2>1, <3>2 DEF Kept
    <3>9. RowSteps(j)
      BY <1>0, <1>1, RowsAreWritten
    <3>10. Kept
      BY <3>4, <3>5, <3>6, <3>7, <3>8, <3>9 DEF RowSteps
    <3> QED
      BY <3>10 DEF Kept
  <2> QED
    BY <2>2, <2>3
<1>2. CASE QueueStep
  <2>1. /\ row' = row
        /\ \A w \in Workers : worker'[w] = worker[w] \/ worker'[w].pc \in {"idle", "mark"}
        /\ queue'[j].stalls = 0 => queue[j].stalls = 0
    BY <1>0, <1>2, QueueStepsKeepRows, RecordsGoOn DEF RecordGoesOn
  <2>2. CASE \E w \in Workers : RunsOn(w, j)' /\ worker'[w].pc \in HasResult
    <3>1. AtHand(j)
      BY <2>1, <2>2 DEF AtHand, RunsOn, HasResult
    <3> QED
      BY <1>0, <2>1, <3>1
  <2>3. CASE queue'[j].state = "completed"
    <3>1. ASSUME NEW i \in Jobs, QueueAdd(i) \/ BackoffElapsed(i) \/ StalledCheck(i)
          PROVE  queue[j].state = "completed"
      <4>1. CASE QueueAdd(i)
        BY <1>0, <2>3, <4>1 DEF QueueAdd, TypeOK
      <4>2. CASE BackoffElapsed(i)
        BY <1>0, <2>3, <4>2 DEF BackoffElapsed, TypeOK
      <4>3. CASE StalledCheck(i)
        BY <1>0, <2>3, <4>3 DEF StalledCheck, TypeOK
      <4> QED
        BY <3>1, <4>1, <4>2, <4>3
    <3>2. ASSUME NEW w \in Workers, NEW i \in Jobs, Fetch(w, i)
          PROVE  queue[j].state = "completed"
      BY <1>0, <2>3, <3>2 DEF Fetch, TypeOK
    <3>3. ASSUME NEW w \in Workers, Reject(w) PROVE queue[j].state = "completed"
      BY <1>0, <2>3, <3>3 DEF Reject, TypeOK
    <3>4. ASSUME NEW w \in Workers, LockExpires(w) \/ WorkerCrash(w)
          PROVE  queue[j].state = "completed"
      <4>1. CASE LockExpires(w)
        BY <1>0, <2>3, <4>1 DEF LockExpires, TypeOK
      <4>2. CASE WorkerCrash(w)
        BY <1>0, <2>3, <4>2 DEF WorkerCrash, TypeOK
      <4> QED
        BY <3>4, <4>1, <4>2
    <3>5. ASSUME NEW w \in Workers, Acknowledge(w) PROVE AtHand(j)
      <4>1. worker[w].pc = "ack"
        BY <3>5 DEF Acknowledge
      <4>2. CASE worker[w].job = j
        BY <4>1, <4>2 DEF AtHand, RunsOn, HasResult
      <4>3. CASE worker[w].job # j
        BY <1>0, <2>3, <3>5, <4>3 DEF Acknowledge, AtHand, TypeOK
      <4> QED
        BY <4>2, <4>3
    <3>6. AtHand(j)
      BY <1>2, <3>1, <3>2, <3>3, <3>4, <3>5 DEF QueueStep, AtHand
    <3> QED
      BY <1>0, <2>1, <3>6
  <2> QED
    BY <2>2, <2>3 DEF AtHand
<1> QED
  BY <1>1, <1>2, StepCases

\* The result of a job that BullMQ completed is never lost: the row keeps its
\* link, and its status too unless the job stalled or failJob of the request
\* came last.
THEOREM ResultsStand == Spec => []ResultStands
<1>1. Init => StandInv
  <2>1. Init => ResultsAtHand
    BY DEF Init, ResultsAtHand, AtHand, RunsOn, IdleWorker, NotQueued
  <2> QED
    BY <2>1, RunInvInit DEF StandInv
<1>2. StandInv => ResultStands
  BY DEF StandInv, ResultsAtHand, AtHand, ResultStands, Linked, Stands
<1> QED
  BY <1>1, <1>2, StandInvStep, PTL DEF Spec

-----------------------------------------------------------------------------
(***************************************************************************)
(* Rejected requests.  Without a lost answer of queue.add a request that   *)
(* ends in an error has never been in the queue, so that nobody works for  *)
(* it and its row stays what failJob has made of it.                       *)
(***************************************************************************)
RepliesKept == "queueReplyLost" \notin FaultKinds

RejectedIsNotQueued ==
    \A j \in Jobs : api[j] \in NotAdded => queue[j].state = "none"

AnnouncedAsFailed ==
    \A j \in Jobs : api[j] = "sayFailed" => row[j].status = "failed"

RejectedInv == RepliesKept /\ RunInv /\ RejectedIsNotQueued /\ AnnouncedAsFailed

LEMMA RejectedIsNotQueuedStep ==
    ASSUME RepliesKept, RunInv, RejectedIsNotQueued, [Next]_vars
    PROVE  RejectedIsNotQueued'
<1>0. TypeOK /\ LockDiscipline
  BY DEF RunInv, QueueInv
<1>1. CASE QuietStep
  BY <1>0, <1>1, QuietSteps DEF RejectedIsNotQueued, NoNewEnqueue
<1>2. ASSUME NEW i \in Jobs, QueueAdd(i) PROVE RejectedIsNotQueued'
  <2>1. api' = [api EXCEPT ![i] = "sayQueued"]
    BY <1>2 DEF QueueAdd, ApiGoto, Fault, RepliesKept
  <2>2. \A j \in Jobs \ {i} : queue'[j] = queue[j]
    BY <1>0, <1>2 DEF QueueAdd, TypeOK
  <2> QED
    BY <1>0, <2>1, <2>2 DEF RejectedIsNotQueued, TypeOK, NotAdded, BeforeAdd
<1>3. ASSUME api' = api, \A j \in Jobs : queue[j].state = "none" => queue'[j].state = "none"
      PROVE  RejectedIsNotQueued'
  BY <1>3 DEF RejectedIsNotQueued
<1>4. ASSUME NEW i \in Jobs, BackoffElapsed(i) \/ StalledCheck(i)
      PROVE  RejectedIsNotQueued'
  <2>1. CASE BackoffElapsed(i)
    BY <1>0, <1>3, <2>1 DEF BackoffElapsed, TypeOK
  <2>2. CASE StalledCheck(i)
    BY <1>0, <1>3, <2>2 DEF StalledCheck, TypeOK
  <2> QED
    BY <1>4, <2>1, <2>2
<1>5. ASSUME NEW w \in Workers, NEW i \in Jobs, Fetch(w, i) PROVE RejectedIsNotQueued'
  BY <1>0, <1>3, <1>5 DEF Fetch, TypeOK
<1>6. ASSUME NEW w \in Workers, Acknowledge(w) \/ Reject(w) PROVE RejectedIsNotQueued'
  <2>1. CASE Acknowledge(w)
    BY <1>0, <1>3, <2>1 DEF Acknowledge, TypeOK, LockDiscipline
  <2>2. CASE Reject(w)
    BY <1>0, <1>3, <2>2 DEF Reject, TypeOK, LockDiscipline
  <2> QED
    BY <1>6, <2>1, <2>2
<1>7. ASSUME NEW w \in Workers, LockExpires(w) \/ WorkerCrash(w)
      PROVE  RejectedIsNotQueued'
  <2>1. CASE LockExpires(w)
    BY <1>0, <1>3, <2>1 DEF LockExpires, TypeOK
  <2>2. CASE WorkerCrash(w)
    BY <1>0, <1>3, <2>2 DEF WorkerCrash, TypeOK
  <2> QED
    BY <1>7, <2>1, <2>2
<1> QED
  BY <1>1, <1>2, <1>4, <1>5, <1>6, <1>7, StepCases DEF QueueStep

\* Once failJob is through, the row of a rejected request is left alone.
LEMMA RejectedRowsStay ==
    ASSUME RejectedInv, [Next]_vars, NEW j \in Jobs, api[j] \in {"sayFailed", "errored"}
    PROVE  row'[j] = row[j]
<1>0. TypeOK /\ RunInv /\ queue[j].state = "none"
  BY DEF RejectedInv, RunInv, QueueInv, RejectedIsNotQueued, NotAdded
<1>1. CASE QuietStep
  <2>1. RowSteps(j)
    BY <1>0, <1>1, RowsAreWritten
  <2>2. \A w \in Workers : ~RunsOn(w, j)
    BY <1>0, NobodyRunsEarly
  <2>3. \A o \in DbOutcomes : ~CreateJob(j, o) /\ ~FailEnqueue(j, o)
    BY DEF CreateJob, FailEnqueue
  <2> QED
    BY <2>1, <2>2, <2>3 DEF RowSteps
<1>2. CASE QueueStep
  BY <1>0, <1>2, QueueStepsKeepRows
<1> QED
  BY <1>1, <1>2, StepCases

\* How a request gets to one of its last two steps on the way to an error.
LEMMA WaysToAnError ==
    ASSUME TypeOK, [Next]_vars, NEW j \in Jobs,
           api'[j] \in {"sayFailed", "errored"}, api'[j] # api[j]
    PROVE  \/ \E o \in DbOutcomes : CreateJob(j, o) \/ FailEnqueue(j, o)
           \/ AnnounceFromApi(j)
<1>1. ASSUME NEW i \in Jobs, i # j, NEW o \in DbOutcomes,
             CreateJob(i, o) \/ FailEnqueue(i, o) \/ AnnounceFromApi(i)
      PROVE  FALSE
  BY <1>1 DEF CreateJob, FailEnqueue, AnnounceFromApi, ApiGoto, TypeOK
<1>2. ASSUME NEW i \in Jobs, QueueAddRefused(i) \/ QueueAdd(i) PROVE FALSE
  BY <1>2 DEF QueueAddRefused, QueueAdd, ApiGoto, TypeOK
<1>3. CASE ApiCrash
  BY <1>3 DEF ApiCrash, TypeOK
<1>4. api' # api
  OBVIOUS
<1>5. CASE QuietStep
  BY <1>1, <1>2, <1>3, <1>4, <1>5
     DEF QuietStep, MarkProcessing, CompleteJob, RecordFailure, Compute, CacheResult,
         AnnounceFromWorker, RedisFails, RedisRecovers, vars, DbOutcomes
<1>6. CASE QueueStep
  BY <1>2, <1>4, <1>6
     DEF QueueStep, BackoffElapsed, StalledCheck, Fetch, Acknowledge, Reject, LockExpires,
         WorkerCrash
<1> QED
  BY <1>5, <1>6, StepCases

LEMMA RejectedInvStep == RejectedInv /\ [Next]_vars => RejectedInv'
<1> SUFFICES ASSUME RejectedInv, [Next]_vars PROVE RejectedInv'
  OBVIOUS
<1>0. TypeOK /\ RunInv /\ RunInv' /\ RepliesKept /\ RepliesKept'
  BY RunInvStep DEF RejectedInv, RunInv, QueueInv, RepliesKept
<1>1. RejectedIsNotQueued'
  BY <1>0, RejectedIsNotQueuedStep DEF RejectedInv
<1>2. ASSUME NEW j \in Jobs, api'[j] = "sayFailed" PROVE row'[j].status = "failed"
  <2>1. CASE api[j] = "sayFailed"
    BY <2>1, RejectedRowsStay DEF RejectedInv, AnnouncedAsFailed
  <2>2. CASE api[j] # "sayFailed"
    <3>1. ASSUME NEW o \in DbOutcomes, FailEnqueue(j, o) PROVE row'[j].status = "failed"
      <4>1. o = "ok"
        BY <1>0, <1>2, <3>1 DEF FailEnqueue, ApiGoto, TypeOK
      <4> QED
        BY <1>0, <3>1, <4>1 DEF FailEnqueue, Write, FailedRow, TypeOK
    <3>2. ASSUME NEW o \in DbOutcomes, CreateJob(j, o) PROVE FALSE
      BY <1>0, <1>2, <3>2 DEF CreateJob, ApiGoto, TypeOK
    <3>3. ~AnnounceFromApi(j)
      BY <1>0, <1>2 DEF AnnounceFromApi, ApiGoto, TypeOK
    <3> QED
      BY <1>0, <1>2, <2>2, <3>1, <3>2, <3>3, WaysToAnError
  <2> QED
    BY <2>1, <2>2
<1> QED
  BY <1>0, <1>1, <1>2 DEF RejectedInv, AnnouncedAsFailed

\* While no answer of queue.add is lost: a request that ends in an error has no
\* queue entry, its row is failed in that step unless the database refused a
\* statement of the request in that very step, and the row stays what it is.
THEOREM RejectionsAreRecorded == RepliesKept /\ Spec => RejectedJobIsFailed
<1> DEFINE Recorded(j) ==
               /\ queue'[j].state = "none"
               /\ IF api[j] = "errored"
                  THEN row'[j] = row[j]
                  ELSE row'[j].status = "failed" \/ faultsLeft' < faultsLeft
<1>1. RepliesKept /\ Init => RejectedInv
  BY RunInvInit DEF Init, RejectedInv, RejectedIsNotQueued, AnnouncedAsFailed, NotQueued
<1>2. ASSUME RejectedInv, [Next]_vars, NEW j \in Jobs, api'[j] = "errored"
      PROVE  Recorded(j)
  <2>1. queue'[j].state = "none"
    BY <1>2, RejectedInvStep DEF RejectedInv, RejectedIsNotQueued, NotAdded
  <2>2. CASE api[j] = "errored"
    BY <1>2, <2>1, <2>2, RejectedRowsStay
  <2>3. CASE api[j] # "errored"
    <3>0. TypeOK
      BY <1>2 DEF RejectedInv, RunInv, QueueInv
    <3>1. ASSUME NEW o \in DbOutcomes, CreateJob(j, o) \/ FailEnqueue(j, o)
          PROVE  faultsLeft' < faultsLeft
      <4>1. o # "ok"
        BY <1>2, <3>0, <3>1 DEF CreateJob, FailEnqueue, ApiGoto, TypeOK
      <4>2. faultsLeft \in Nat /\ faultsLeft' = faultsLeft - 1
        BY <3>0, <3>1, <4>1, ConstantsAssumption
           DEF CreateJob, FailEnqueue, Write, Fault, TypeOK
      <4> QED
        BY <4>2
    <3>2. ASSUME AnnounceFromApi(j) PROVE row'[j].status = "failed"
      BY <1>2, <3>0, <3>2
         DEF AnnounceFromApi, ApiGoto, TypeOK, RejectedInv, AnnouncedAsFailed
    <3> QED
      BY <1>2, <2>1, <2>3, <3>0, <3>1, <3>2, WaysToAnError
  <2> QED
    BY <2>2, <2>3
<1>3. RejectedInv /\ [Next]_vars => [\A j \in Jobs : api'[j] = "errored" => Recorded(j)]_vars
  BY <1>2
<1> QED
  BY <1>1, <1>3, RejectedInvStep, PTL DEF Spec, RejectedJobIsFailed

-----------------------------------------------------------------------------
(***************************************************************************)
(* OptimizationJobs implements JobContract, for every set of jobs and      *)
(* workers, as long as every fault is one of ReliableFaults.  Then a       *)
(* worker keeps the lock of the job it runs, so that nobody else touches   *)
(* its row, and the step at which it is says what the row can be.          *)
(***************************************************************************)

-----------------------------------------------------------------------------
(* Locks are held to the end                                               *)

ReliableOnly == FaultKinds \subseteq ReliableFaults

LocksAreKept ==
    /\ \A w \in Workers : worker[w].pc # "idle" => queue[worker[w].job].lock = w
    /\ \A j \in Jobs : queue[j].state = "active" => queue[j].lock # NoWorker

HeldInv == ReliableOnly /\ QueueInv /\ LocksAreKept /\ RejectedIsNotQueued

\* What can interrupt a worker or lose a reply does not happen.
LEMMA OutcomesWhenReliable ==
    ASSUME ReliableOnly
    PROVE  /\ ~Fault("dbReplyLost")
           /\ ~Fault("queueReplyLost")
           /\ \A w \in Workers : ~LockExpires(w) /\ ~WorkerCrash(w)
  BY DEF ReliableOnly, ReliableFaults, Fault, LockExpires, WorkerCrash

\* A busy worker is alone with its job, whose request is past queue.add.
LEMMA Alone ==
    ASSUME HeldInv, NEW w \in Workers, worker[w].pc # "idle"
    PROVE  /\ worker[w].job \in Jobs
           /\ queue[worker[w].job].state = "active"
           /\ queue[worker[w].job].lock = w
           /\ api[worker[w].job] \notin NotAdded
           /\ \A v \in Workers : worker[v].pc # "idle" /\ worker[v].job = worker[w].job
                                     => v = w
<1>1. worker[w].job \in Jobs
  BY DEF HeldInv, QueueInv, TypeOK
<1>2. queue[worker[w].job].lock = w
  BY DEF HeldInv, LocksAreKept
<1>3. queue[worker[w].job].state = "active"
  BY <1>1, <1>2 DEF HeldInv, QueueInv, LockDiscipline
<1>4. api[worker[w].job] \notin NotAdded
  BY <1>1, <1>3 DEF HeldInv, RejectedIsNotQueued
<1>5. \A v \in Workers : worker[v].pc # "idle" /\ worker[v].job = worker[w].job => v = w
  BY <1>2 DEF HeldInv, LocksAreKept
<1> QED
  BY <1>1, <1>2, <1>3, <1>4, <1>5

LEMMA HeldInvStep == HeldInv /\ [Next]_vars => HeldInv'
<1> SUFFICES ASSUME HeldInv, [Next]_vars PROVE HeldInv'
  OBVIOUS
<1> USE ConstantsAssumption
<1>0. /\ TypeOK /\ TypeOK' /\ QueueInv /\ QueueInv'
      /\ ReliableOnly /\ ReliableOnly'
  BY QueueInvStep DEF HeldInv, QueueInv, ReliableOnly
<1>1. CASE QuietStep
  <2>1. queue' = queue /\ SameEngagement /\ NoNewEnqueue
    BY <1>0, <1>1, QuietSteps
  <2>2. LocksAreKept'
    BY <2>1 DEF HeldInv, LocksAreKept, SameEngagement
  <2>3. RejectedIsNotQueued'
    BY <2>1 DEF HeldInv, RejectedIsNotQueued, NoNewEnqueue
  <2> QED
    BY <1>0, <2>2, <2>3 DEF HeldInv
<1>2. ASSUME NEW j \in Jobs, QueueAdd(j) PROVE HeldInv'
  <2>1. api' = [api EXCEPT ![j] = "sayQueued"] /\ worker' = worker
    BY <1>0, <1>2, OutcomesWhenReliable DEF QueueAdd, ApiGoto
  <2>2. /\ queue[j].state = "none"
        /\ queue'[j].state = "waiting"
        /\ \A i \in Jobs : queue'[i].lock = queue[i].lock
        /\ \A i \in Jobs \ {j} : queue'[i] = queue[i]
    BY <1>0, <1>2 DEF QueueAdd, TypeOK, HeldInv, RejectedIsNotQueued, NotAdded, BeforeAdd
  <2>3. LocksAreKept'
    BY <1>0, <2>1, <2>2 DEF HeldInv, LocksAreKept, TypeOK
  <2>4. RejectedIsNotQueued'
    BY <1>0, <2>1, <2>2 DEF HeldInv, RejectedIsNotQueued, TypeOK, NotAdded, BeforeAdd
  <2> QED
    BY <1>0, <2>3, <2>4 DEF HeldInv
<1>3. ASSUME NEW j \in Jobs, BackoffElapsed(j) PROVE HeldInv'
  <2>1. /\ queue[j].state = "delayed"
        /\ queue'[j].state = "waiting"
        /\ \A i \in Jobs : queue'[i].lock = queue[i].lock
        /\ \A i \in Jobs \ {j} : queue'[i] = queue[i]
        /\ worker' = worker /\ api' = api
    BY <1>0, <1>3 DEF BackoffElapsed, TypeOK
  <2>2. LocksAreKept'
    BY <1>0, <2>1 DEF HeldInv, LocksAreKept, TypeOK
  <2>3. RejectedIsNotQueued'
    BY <1>0, <2>1 DEF HeldInv, RejectedIsNotQueued
  <2> QED
    BY <1>0, <2>2, <2>3 DEF HeldInv
<1>4. ASSUME NEW j \in Jobs, StalledCheck(j) PROVE HeldInv'
  BY <1>4 DEF StalledCheck, HeldInv, LocksAreKept
<1>5. ASSUME NEW w \in Workers, NEW j \in Jobs, Fetch(w, j) PROVE HeldInv'
  <2>1. /\ queue[j].state = "waiting"
        /\ queue'[j].state = "active" /\ queue'[j].lock = w
        /\ \A i \in Jobs \ {j} : queue'[i] = queue[i]
        /\ worker'[w].job = j
        /\ \A v \in Workers \ {w} : worker'[v] = worker[v]
        /\ api' = api
    BY <1>0, <1>5 DEF Fetch, TypeOK
  <2>2. \A v \in Workers : worker[v].pc # "idle" => worker[v].job # j
    BY <2>1, Alone
  <2>3. ASSUME NEW v \in Workers, worker'[v].pc # "idle"
        PROVE  queue'[worker'[v].job].lock = v
    <3>1. CASE v = w
      BY <2>1, <3>1
    <3>2. CASE v # w
      <4>1. worker'[v] = worker[v] /\ worker[v].job \in Jobs \ {j}
        BY <1>0, <2>1, <2>2, <2>3, <3>2 DEF TypeOK
      <4> QED
        BY <2>1, <2>3, <4>1 DEF HeldInv, LocksAreKept
    <3> QED
      BY <3>1, <3>2
  <2>4. ASSUME NEW i \in Jobs, queue'[i].state = "active"
        PROVE  queue'[i].lock # NoWorker
    BY <2>1, <2>4 DEF HeldInv, LocksAreKept
  <2>5. RejectedIsNotQueued'
    BY <1>0, <2>1 DEF HeldInv, RejectedIsNotQueued
  <2> QED
    BY <1>0, <2>3, <2>4, <2>5 DEF HeldInv, LocksAreKept
<1>6. ASSUME NEW w \in Workers, Acknowledge(w) \/ Reject(w) PROVE HeldInv'
  <2> DEFINE j == worker[w].job
  <2>1. /\ j \in Jobs /\ queue[j].lock = w /\ queue[j].state = "active"
        /\ \A v \in Workers : worker[v].pc # "idle" /\ worker[v].job = j => v = w
        /\ api[j] \notin NotAdded
    BY <1>6, Alone DEF Acknowledge, Reject
  <2>2. /\ worker' = [worker EXCEPT ![w] = IdleWorker]
        /\ api' = api
    BY <1>6 DEF Acknowledge, Reject
  <2>3. queue'[j].state \in {"completed", "failed", "delayed"}
    <3>1. CASE Acknowledge(w)
      BY <1>0, <2>1, <3>1 DEF Acknowledge, TypeOK
    <3>2. CASE Reject(w)
      BY <1>0, <2>1, <3>2 DEF Reject, TypeOK
    <3> QED
      BY <1>6, <3>1, <3>2
  <2>4. \A i \in Jobs \ {j} : queue'[i] = queue[i]
    <3>1. CASE Acknowledge(w)
      BY <1>0, <2>1, <3>1 DEF Acknowledge, TypeOK
    <3>2. CASE Reject(w)
      BY <1>0, <2>1, <3>2 DEF Reject, TypeOK
    <3> QED
      BY <1>6, <3>1, <3>2
  <2>5. /\ worker'[w].pc = "idle"
        /\ \A v \in Workers \ {w} : worker'[v] = worker[v]
    BY <1>0, <2>2 DEF TypeOK, IdleWorker
  <2>6. ASSUME NEW v \in Workers, worker'[v].pc # "idle"
        PROVE  queue'[worker'[v].job].lock = v
    <3>1. v # w /\ worker'[v] = worker[v]
      BY <2>5, <2>6
    <3>2. worker[v].job \in Jobs \ {j}
      BY <1>0, <2>1, <2>6, <3>1 DEF TypeOK
    <3> QED
      BY <2>4, <2>6, <3>1, <3>2 DEF HeldInv, LocksAreKept
  <2>7. ASSUME NEW i \in Jobs, queue'[i].state = "active"
        PROVE  queue'[i].lock # NoWorker
    BY <2>3, <2>4, <2>7 DEF HeldInv, LocksAreKept
  <2>8. RejectedIsNotQueued'
    BY <1>0, <2>1, <2>2, <2>4 DEF HeldInv, RejectedIsNotQueued
  <2> QED
    BY <1>0, <2>6, <2>7, <2>8 DEF HeldInv, LocksAreKept
<1> QED
  BY <1>0, <1>1, <1>2, <1>3, <1>4, <1>5, <1>6, StepCases, OutcomesWhenReliable
     DEF QueueStep

LEMMA HeldInvInit == ReliableOnly /\ Init => HeldInv
  BY QueueInvInit, ConstantsAssumption
     DEF Init, HeldInv, LocksAreKept, RejectedIsNotQueued, IdleWorker, NotQueued

-----------------------------------------------------------------------------
(* What the rows can be                                                    *)

Open(r) == r.status \in {"queued", "processing"}

\* A row and the number of routes saved for it, as the contract has them.
RowInContract(r, n) ==
    /\ r.status \in {"absent", "queued", "processing"} => r.reason = "none" /\ n = 0
    /\ r.status = "failed" => r.reason # "none" /\ n = 0
    /\ r.status = "completed" => r.reason = "none" /\ n = 1

RowsInContract == \A j \in Jobs : RowInContract(row[j], routes[j])

\* The row of a job that no worker has is known from its request and its
\* queue entry, the row of one that a worker has from where that worker is.
RowOfRequest(j) ==
    /\ api[j] = "idle" => row[j] = NoRow
    /\ api[j] \in {"add", "fail"} => row[j].status = "queued"
    /\ queue[j].state \in {"waiting", "delayed"} => Open(row[j])

RowOfWorker(w) ==
    LET r == row[worker[w].job]
        pc == worker[w].pc
    IN  /\ pc \in {"mark", "caught"} => Open(r)
        /\ pc \in {"sayProcessing", "compute", "complete"} => r.status = "processing"
        /\ pc \in {"cache", "sayCompleted", "ack"} => r.status = "completed"
        /\ pc = "sayFailed" => r.status = "failed" /\ IsFinalAttempt(w)
        /\ pc = "sayQueued" => r.status = "queued" /\ ~IsFinalAttempt(w)
        /\ pc = "nack" => Open(r) \/ (IsFinalAttempt(w) /\ r.status = "failed")

ContractInv ==
    /\ HeldInv
    /\ RowsInContract
    /\ \A j \in Jobs : RowOfRequest(j)
    /\ \A w \in Workers : RowOfWorker(w)

LEMMA ContractInvInit == ReliableOnly /\ Init => ContractInv
  BY HeldInvInit
     DEF Init, ContractInv, RowsInContract, RowInContract, RowOfRequest, RowOfWorker,
         NoRow, NotQueued, IdleWorker

\* The outcomes of a statement when no reply is lost.
LEMMA Written ==
    ASSUME ReliableOnly, TypeOK, NEW j \in Jobs, NEW r, NEW o \in DbOutcomes,
           Write(j, r, o)
    PROVE  /\ o = "ok" => row'[j] = r
           /\ o # "ok" => row'[j] = row[j]
           /\ \A i \in Jobs \ {j} : row'[i] = row[i]
<1>1. o # "dbReplyLost"
  BY OutcomesWhenReliable DEF Write
<1> QED
  BY <1>1 DEF Write, DbOutcomes, TypeOK

\* A step of worker w that is confined to its job and keeps the queue as it is.
WorkerStepOn(w) ==
    /\ worker[w].pc # "idle"
    /\ worker'[w].job = worker[w].job
    /\ worker'[w].made = worker[w].made
    /\ \A v \in Workers \ {w} : worker'[v] = worker[v]
    /\ \A i \in Jobs \ {worker[w].job} : row'[i] = row[i] /\ routes'[i] = routes[i]
    /\ api' = api
    /\ queue' = queue

LEMMA WorkerStepKeepsContract ==
    ASSUME ContractInv, HeldInv', NEW w \in Workers, WorkerStepOn(w),
           RowInContract(row'[worker[w].job], routes'[worker[w].job]),
           RowOfWorker(w)'
    PROVE  ContractInv'
<1> DEFINE j == worker[w].job
<1>1. /\ j \in Jobs /\ queue[j].state = "active" /\ api[j] \notin NotAdded
      /\ \A v \in Workers : worker[v].pc # "idle" /\ worker[v].job = j => v = w
      /\ TypeOK /\ TypeOK'
  BY Alone DEF ContractInv, HeldInv, QueueInv, WorkerStepOn
<1>2. RowsInContract'
  BY <1>1 DEF ContractInv, RowsInContract, WorkerStepOn
<1>3. ASSUME NEW i \in Jobs PROVE RowOfRequest(i)'
  <2>1. CASE i = j
    BY <1>1, <2>1 DEF RowOfRequest, WorkerStepOn, NotAdded, BeforeAdd
  <2>2. CASE i # j
    BY <1>1, <2>2 DEF ContractInv, RowOfRequest, WorkerStepOn, Open
  <2> QED
    BY <2>1, <2>2
<1>4. ASSUME NEW v \in Workers PROVE RowOfWorker(v)'
  <2>1. CASE v = w
    BY <2>1
  <2>2. CASE v # w /\ worker[v].pc = "idle"
    BY <2>2 DEF RowOfWorker, WorkerStepOn
  <2>3. CASE v # w /\ worker[v].pc # "idle"
    <3>1. worker'[v] = worker[v] /\ row'[worker[v].job] = row[worker[v].job]
      BY <1>1, <2>3 DEF WorkerStepOn, TypeOK
    <3>2. RowOfWorker(v)
      BY DEF ContractInv
    <3> QED
      BY <3>1, <3>2 DEF RowOfWorker, Open, IsFinalAttempt
  <2> QED
    BY <2>1, <2>2, <2>3
<1> QED
  BY <1>2, <1>3, <1>4 DEF ContractInv

\* A step of the request for j while BullMQ does not know j.
RequestStepOn(j) ==
    /\ api[j] \in NotAdded
    /\ \A i \in Jobs \ {j} : /\ row'[i] = row[i]
                              /\ api'[i] = api[i]
                              /\ queue'[i] = queue[i]
    /\ routes' = routes
    /\ worker' = worker

LEMMA RequestStepKeepsContract ==
    ASSUME ContractInv, HeldInv', NEW j \in Jobs, RequestStepOn(j),
           RowInContract(row'[j], routes[j]), RowOfRequest(j)'
    PROVE  ContractInv'
<1>1. /\ TypeOK /\ TypeOK'
      /\ \A v \in Workers : worker[v].pc # "idle" => worker[v].job \in Jobs \ {j}
  BY Alone DEF ContractInv, HeldInv, QueueInv, RequestStepOn
<1>2. RowsInContract'
  BY DEF ContractInv, RowsInContract, RequestStepOn
<1>3. ASSUME NEW i \in Jobs \ {j} PROVE RowOfRequest(i)'
  BY DEF ContractInv, RowOfRequest, RequestStepOn, Open
<1>4. ASSUME NEW v \in Workers PROVE RowOfWorker(v)'
  <2>1. CASE worker[v].pc = "idle"
    BY <2>1 DEF RowOfWorker, RequestStepOn
  <2>2. CASE worker[v].pc # "idle"
    <3>1. worker'[v] = worker[v] /\ row'[worker[v].job] = row[worker[v].job]
      BY <1>1, <2>2 DEF RequestStepOn
    <3>2. RowOfWorker(v)
      BY DEF ContractInv
    <3> QED
      BY <3>1, <3>2 DEF RowOfWorker, Open, IsFinalAttempt
  <2> QED
    BY <2>1, <2>2
<1> QED
  BY <1>2, <1>3, <1>4 DEF ContractInv

-----------------------------------------------------------------------------
(* The invariant is preserved, and every step is a step of the contract    *)

LEMMA ContractInvStep == ContractInv /\ [Next]_vars => ContractInv'
<1> SUFFICES ASSUME ContractInv, [Next]_vars PROVE ContractInv'
  OBVIOUS
<1>0. /\ HeldInv /\ HeldInv' /\ TypeOK /\ TypeOK' /\ ReliableOnly
      /\ \A w \in Workers : RowOfWorker(w)
      /\ \A j \in Jobs : RowOfRequest(j) /\ RowInContract(row[j], routes[j])
  BY HeldInvStep DEF ContractInv, HeldInv, QueueInv, RowsInContract
<1>1. ASSUME NEW j \in Jobs, NEW o \in DbOutcomes, CreateJob(j, o) PROVE ContractInv'
  <2>1. /\ row[j] = NoRow /\ api[j] = "idle" /\ queue[j].state = "none"
    BY <1>0, <1>1
       DEF CreateJob, RowOfRequest, HeldInv, RejectedIsNotQueued, NotAdded, BeforeAdd
  <2>2. /\ o = "ok" => row'[j] = CreatedRow /\ api'[j] = "add"
        /\ o # "ok" => row'[j] = row[j] /\ api'[j] = "errored"
    BY <1>0, <1>1, Written DEF CreateJob, ApiGoto, TypeOK
  <2>3. RequestStepOn(j)
    BY <1>0, <1>1, <2>1, Written
       DEF CreateJob, ApiGoto, RequestStepOn, TypeOK, NotAdded, BeforeAdd
  <2>4. RowInContract(row'[j], routes[j])
    BY <1>0, <2>1, <2>2 DEF RowInContract, CreatedRow, NoRow
  <2>5. RowOfRequest(j)'
    BY <1>1, <2>1, <2>2 DEF CreateJob, RowOfRequest, CreatedRow
  <2> QED
    BY <1>0, <2>3, <2>4, <2>5, RequestStepKeepsContract
<1>2. ASSUME NEW j \in Jobs, QueueAdd(j) PROVE ContractInv'
  <2>1. /\ api[j] = "add" /\ api'[j] = "sayQueued" /\ row' = row
        /\ row[j].status = "queued"
    BY <1>0, <1>2, OutcomesWhenReliable DEF QueueAdd, ApiGoto, RowOfRequest, TypeOK
  <2>2. RequestStepOn(j)
    BY <1>0, <1>2, <2>1 DEF QueueAdd, ApiGoto, RequestStepOn, TypeOK, NotAdded, BeforeAdd
  <2>3. RowOfRequest(j)'
    BY <2>1 DEF RowOfRequest, Open
  <2> QED
    BY <1>0, <2>1, <2>2, <2>3, RequestStepKeepsContract
<1>3. ASSUME NEW j \in Jobs, QueueAddRefused(j) PROVE ContractInv'
  <2>1. /\ api[j] = "add" /\ api'[j] = "fail" /\ row' = row /\ queue' = queue
        /\ row[j].status = "queued"
    BY <1>0, <1>3 DEF QueueAddRefused, ApiGoto, RowOfRequest, TypeOK
  <2>2. RequestStepOn(j)
    BY <1>0, <1>3, <2>1
       DEF QueueAddRefused, ApiGoto, RequestStepOn, TypeOK, NotAdded, BeforeAdd
  <2>3. RowOfRequest(j)'
    BY <1>0, <2>1 DEF RowOfRequest, Open
  <2> QED
    BY <1>0, <2>1, <2>2, <2>3, RequestStepKeepsContract
<1>4. ASSUME NEW j \in Jobs, NEW o \in DbOutcomes, FailEnqueue(j, o) PROVE ContractInv'
  <2>1. /\ row[j].status = "queued" /\ api[j] = "fail" /\ queue[j].state = "none"
        /\ queue' = queue
    BY <1>0, <1>4
       DEF FailEnqueue, RowOfRequest, HeldInv, RejectedIsNotQueued, NotAdded, BeforeAdd
  <2>2. /\ row'[j] = row[j] \/ row'[j] = FailedRow(row[j], "enqueue")
        /\ api'[j] \in {"sayFailed", "errored"}
    BY <1>0, <1>4, Written DEF FailEnqueue, ApiGoto, TypeOK
  <2>3. RequestStepOn(j)
    BY <1>0, <1>4, <2>1, Written
       DEF FailEnqueue, ApiGoto, RequestStepOn, TypeOK, NotAdded, BeforeAdd
  <2>4. RowInContract(row'[j], routes[j])
    <3>1. /\ row[j] \in RowType /\ row[j].status = "queued"
          /\ RowInContract(row[j], routes[j])
      BY <1>0, <2>1 DEF TypeOK, RowType
    <3> QED
      BY <2>2, <3>1 DEF RowInContract, FailedRow, RowType
  <2>5. RowOfRequest(j)'
    BY <2>1, <2>2 DEF RowOfRequest
  <2> QED
    BY <1>0, <2>3, <2>4, <2>5, RequestStepKeepsContract
\* Steps that touch neither a row nor a worker
<1>5. ASSUME UNCHANGED <<row, routes, worker>>, \A j \in Jobs : RowOfRequest(j)'
      PROVE  ContractInv'
  BY <1>0, <1>5
     DEF ContractInv, RowsInContract, RowOfWorker, IsFinalAttempt
<1>6. ASSUME NEW j \in Jobs, AnnounceFromApi(j) PROVE ContractInv'
  <2>1. ASSUME NEW i \in Jobs PROVE RowOfRequest(i)'
    BY <1>0, <1>6 DEF AnnounceFromApi, ApiGoto, RowOfRequest, TypeOK
  <2> QED
    BY <1>5, <1>6, <2>1 DEF AnnounceFromApi
<1>7. CASE ApiCrash
  <2>1. ASSUME NEW i \in Jobs PROVE RowOfRequest(i)'
    BY <1>0, <1>7 DEF ApiCrash, RowOfRequest, TypeOK
  <2> QED
    BY <1>5, <1>7, <2>1 DEF ApiCrash
<1>8. ASSUME NEW j \in Jobs, BackoffElapsed(j) PROVE ContractInv'
  <2>1. ASSUME NEW i \in Jobs PROVE RowOfRequest(i)'
    BY <1>0, <1>8 DEF BackoffElapsed, RowOfRequest, TypeOK
  <2> QED
    BY <1>5, <1>8, <2>1 DEF BackoffElapsed
<1>9. ASSUME NEW j \in Jobs PROVE ~StalledCheck(j)
  BY <1>0 DEF StalledCheck, HeldInv, LocksAreKept
<1>10. CASE RedisFails \/ RedisRecovers \/ UNCHANGED vars
  BY <1>0, <1>5, <1>10 DEF RedisFails, RedisRecovers, vars, RowOfRequest
<1>11. ASSUME NEW w \in Workers, NEW j \in Jobs, Fetch(w, j) PROVE ContractInv'
  <2>1. /\ queue[j].state = "waiting"
        /\ queue'[j].state = "active"
        /\ \A i \in Jobs \ {j} : queue'[i] = queue[i]
        /\ worker'[w].job = j /\ worker'[w].pc = "mark"
        /\ \A v \in Workers \ {w} : worker'[v] = worker[v]
        /\ row' = row /\ routes' = routes /\ api' = api
    BY <1>0, <1>11 DEF Fetch, TypeOK
  <2>2. Open(row[j])
    BY <1>0, <2>1 DEF RowOfRequest
  <2>3. ASSUME NEW v \in Workers PROVE RowOfWorker(v)'
    <3>1. CASE v = w
      BY <2>1, <2>2, <3>1 DEF RowOfWorker
    <3>2. CASE v # w
      BY <1>0, <2>1, <3>2 DEF RowOfWorker, IsFinalAttempt
    <3> QED
      BY <3>1, <3>2
  <2>4. ASSUME NEW i \in Jobs PROVE RowOfRequest(i)'
    BY <1>0, <2>1 DEF RowOfRequest
  <2> QED
    BY <1>0, <2>1, <2>3, <2>4 DEF ContractInv, RowsInContract
<1>12. ASSUME NEW w \in Workers, NEW o \in DbOutcomes, MarkProcessing(w, o)
       PROVE  ContractInv'
  <2> DEFINE j == worker[w].job
  <2>1. j \in Jobs /\ Open(row[j]) /\ row[j] \in RowType
    BY <1>0, <1>12 DEF MarkProcessing, RowOfWorker, TypeOK, RowType
  <2>2. /\ o = "ok" => row'[j] = ProcessingRow(row[j]) /\ worker'[w].pc = "sayProcessing"
        /\ o # "ok" => row'[j] = row[j] /\ worker'[w].pc = "caught"
        /\ worker'[w].job = j
    BY <1>0, <1>12, <2>1, Written DEF MarkProcessing, Proceed, WorkerGoto, TypeOK
  <2>3. WorkerStepOn(w)
    BY <1>0, <1>12, <2>1, Written
       DEF MarkProcessing, Proceed, WorkerGoto, WorkerStepOn, TypeOK
  <2>4. /\ o = "ok" => row'[j].status = "processing" /\ row'[j].reason = "none"
        /\ row'[j].status \in {"queued", "processing"}
    BY <2>1, <2>2 DEF ProcessingRow, RowType, Open
  <2>5. RowInContract(row'[j], routes'[j])
    BY <1>0, <1>12, <2>1, <2>2, <2>4 DEF MarkProcessing, RowInContract, Open
  <2>6. RowOfWorker(w)'
    BY <2>2, <2>4 DEF RowOfWorker, Open
  <2> QED
    BY <1>0, <2>3, <2>5, <2>6, WorkerStepKeepsContract
<1>13. ASSUME NEW w \in Workers, Compute(w) \/ CacheResult(w) PROVE ContractInv'
  <2> DEFINE j == worker[w].job
  <2>1. j \in Jobs /\ RowInContract(row[j], routes[j])
    BY <1>0, <1>13 DEF Compute, CacheResult, TypeOK
  <2>2. /\ WorkerStepOn(w) /\ row' = row /\ routes' = routes
        /\ \/ worker[w].pc = "compute" /\ worker'[w].pc \in {"complete", "caught"}
           \/ worker[w].pc = "cache" /\ worker'[w].pc = "sayCompleted"
    <3>1. CASE Compute(w)
      BY <1>0, <3>1 DEF Compute, WorkerGoto, WorkerStepOn, TypeOK
    <3>2. CASE CacheResult(w)
      BY <1>0, <3>2 DEF CacheResult, WorkerGoto, WorkerStepOn, TypeOK
    <3> QED
      BY <1>13, <3>1, <3>2
  <2>3. RowOfWorker(w)'
    BY <1>0, <2>2 DEF RowOfWorker, WorkerStepOn, Open
  <2> QED
    BY <1>0, <2>1, <2>2, <2>3, WorkerStepKeepsContract
<1>14. ASSUME NEW w \in Workers, NEW o \in DbOutcomes, CompleteJob(w, o)
       PROVE  ContractInv'
  <2> DEFINE j == worker[w].job
  <2>1. /\ j \in Jobs /\ row[j].status = "processing" /\ routes[j] = 0
        /\ RowInContract(row[j], routes[j])
    BY <1>0, <1>14 DEF CompleteJob, RowOfWorker, RowInContract, TypeOK
  <2>2. Write(j, CompletedRow(routes[j] + 1), o)
    BY <1>14 DEF CompleteJob
  <2>3. o \in {"ok", "dbRefused"}
    BY <1>0, <2>2, OutcomesWhenReliable DEF Write, DbOutcomes
  <2>4. /\ o = "ok" => row'[j] = CompletedRow(1) /\ routes'[j] = 1
                           /\ worker'[w].pc = "cache"
        /\ o # "ok" => row'[j] = row[j] /\ routes'[j] = 0 /\ worker'[w].pc = "caught"
        /\ worker'[w].job = j
    BY <1>0, <1>14, <2>1, <2>2, <2>3, Written DEF CompleteJob, TypeOK
  <2>5. WorkerStepOn(w)
    BY <1>0, <1>14, <2>1, <2>2, Written DEF CompleteJob, WorkerStepOn, TypeOK
  <2>6. RowInContract(row'[j], routes'[j])
    BY <2>1, <2>4 DEF RowInContract, CompletedRow
  <2>7. RowOfWorker(w)'
    BY <2>1, <2>4 DEF RowOfWorker, Open, CompletedRow
  <2> QED
    BY <1>0, <2>5, <2>6, <2>7, WorkerStepKeepsContract
<1>15. ASSUME NEW w \in Workers, NEW o \in DbOutcomes, RecordFailure(w, o)
       PROVE  ContractInv'
  <2> DEFINE j == worker[w].job
             r == IF IsFinalAttempt(w) THEN FailedRow(row[j], "attempt")
                                       ELSE QueuedRow(row[j])
  <2>1. /\ j \in Jobs /\ Open(row[j]) /\ row[j] \in RowType
        /\ RowInContract(row[j], routes[j])
    BY <1>0, <1>15 DEF RecordFailure, RowOfWorker, TypeOK, RowType
  <2>2. Write(j, r, o) /\ routes' = routes
    BY <1>15 DEF RecordFailure
  <2>3. WorkerStepOn(w)
    BY <1>0, <1>15, <2>1, <2>2, Written
       DEF RecordFailure, WorkerGoto, WorkerStepOn, TypeOK
  <2>4. /\ IsFinalAttempt(w)' <=> IsFinalAttempt(w)
        /\ worker'[w].job = j
    BY <2>3 DEF WorkerStepOn, IsFinalAttempt
  <2>5. CASE o # "ok"
    <3>1. row'[j] = row[j] /\ worker'[w].pc = "nack"
      BY <1>0, <1>15, <2>1, <2>2, <2>5, Written
         DEF RecordFailure, WorkerGoto, WorkerStepOn, TypeOK
    <3>2. RowOfWorker(w)'
      BY <2>1, <2>4, <3>1 DEF RowOfWorker, Open
    <3> QED
      BY <1>0, <2>1, <2>2, <2>3, <3>1, <3>2, WorkerStepKeepsContract
  <2>6. CASE o = "ok" /\ IsFinalAttempt(w)
    <3>1. row'[j] = FailedRow(row[j], "attempt") /\ worker'[w].pc = "sayFailed"
      BY <1>0, <1>15, <2>1, <2>2, <2>6, Written
         DEF RecordFailure, WorkerGoto, WorkerStepOn, TypeOK
    <3>2. row'[j].status = "failed" /\ row'[j].reason = "attempt"
      BY <2>1, <3>1 DEF FailedRow, RowType
    <3>3. RowOfWorker(w)'
      BY <2>4, <2>6, <3>1, <3>2 DEF RowOfWorker
    <3>4. RowInContract(row'[j], routes'[j])
      BY <2>1, <2>2, <3>2 DEF RowInContract, Open
    <3> QED
      BY <1>0, <2>3, <3>3, <3>4, WorkerStepKeepsContract
  <2>7. CASE o = "ok" /\ ~IsFinalAttempt(w)
    <3>1. row'[j] = QueuedRow(row[j]) /\ worker'[w].pc = "sayQueued"
      BY <1>0, <1>15, <2>1, <2>2, <2>7, Written
         DEF RecordFailure, WorkerGoto, WorkerStepOn, TypeOK
    <3>2. row'[j].status = "queued" /\ row'[j].reason = row[j].reason
      BY <2>1, <3>1 DEF QueuedRow, RowType
    <3>3. RowOfWorker(w)'
      BY <2>4, <2>7, <3>1, <3>2 DEF RowOfWorker
    <3>4. RowInContract(row'[j], routes'[j])
      BY <2>1, <2>2, <3>2 DEF RowInContract, Open
    <3> QED
      BY <1>0, <2>3, <3>3, <3>4, WorkerStepKeepsContract
  <2> QED
    BY <2>5, <2>6, <2>7
<1>16. ASSUME NEW w \in Workers, AnnounceFromWorker(w) PROVE ContractInv'
  <2>1. /\ worker[w].job \in Jobs
        /\ RowInContract(row[worker[w].job], routes[worker[w].job])
    BY <1>0, <1>16 DEF AnnounceFromWorker, TypeOK
  <2>2. /\ WorkerStepOn(w) /\ row' = row /\ routes' = routes
        /\ \/ worker[w].pc = "sayProcessing" /\ worker'[w].pc = "compute"
           \/ worker[w].pc = "sayCompleted" /\ worker'[w].pc = "ack"
           \/ worker[w].pc \in {"sayFailed", "sayQueued"} /\ worker'[w].pc = "nack"
    BY <1>0, <1>16 DEF AnnounceFromWorker, WorkerGoto, WorkerStepOn, TypeOK
  <2>3. RowOfWorker(w)'
    <3>1. RowOfWorker(w) /\ (IsFinalAttempt(w)' <=> IsFinalAttempt(w))
      BY <1>0, <2>2 DEF WorkerStepOn, IsFinalAttempt
    <3> QED
      BY <2>2, <3>1 DEF RowOfWorker, WorkerStepOn, Open
  <2> QED
    BY <1>0, <2>1, <2>2, <2>3, WorkerStepKeepsContract
<1>17. ASSUME NEW w \in Workers, Acknowledge(w) \/ Reject(w) PROVE ContractInv'
  <2> DEFINE j == worker[w].job
  <2>1. /\ j \in Jobs /\ queue[j].lock = w /\ api[j] \notin NotAdded
    BY <1>0, <1>17, Alone DEF Acknowledge, Reject
  <2>2. /\ row' = row /\ routes' = routes /\ api' = api
        /\ worker' = [worker EXCEPT ![w] = IdleWorker]
    BY <1>17 DEF Acknowledge, Reject
  <2>3. \A i \in Jobs \ {j} : queue'[i] = queue[i]
    <3>1. CASE Acknowledge(w)
      BY <1>0, <2>1, <3>1 DEF Acknowledge, TypeOK
    <3>2. CASE Reject(w)
      BY <1>0, <2>1, <3>2 DEF Reject, TypeOK
    <3> QED
      BY <1>17, <3>1, <3>2
  <2>4. queue'[j].state \in {"waiting", "delayed"} => Open(row[j])
    <3>1. CASE Acknowledge(w)
      BY <1>0, <2>1, <3>1 DEF Acknowledge, TypeOK
    <3>2. CASE Reject(w)
      BY <1>0, <2>1, <3>2 DEF Reject, TypeOK, RowOfWorker
    <3> QED
      BY <1>17, <3>1, <3>2
  <2>5. ASSUME NEW i \in Jobs PROVE RowOfRequest(i)'
    <3>1. CASE i = j
      BY <2>1, <2>2, <2>4, <3>1 DEF RowOfRequest, NotAdded, BeforeAdd
    <3>2. CASE i # j
      BY <1>0, <2>2, <2>3, <3>2 DEF RowOfRequest
    <3> QED
      BY <3>1, <3>2
  <2>6. ASSUME NEW v \in Workers PROVE RowOfWorker(v)'
    <3>1. CASE v = w
      BY <1>0, <2>2, <3>1 DEF RowOfWorker, IdleWorker, TypeOK
    <3>2. CASE v # w
      <4>1. worker'[v] = worker[v]
        BY <1>0, <2>2, <3>2 DEF TypeOK
      <4> QED
        BY <1>0, <2>2, <4>1 DEF RowOfWorker, IsFinalAttempt
    <3> QED
      BY <3>1, <3>2
  <2> QED
    BY <1>0, <2>2, <2>5, <2>6 DEF ContractInv, RowsInContract
<1> QED
  BY <1>0, <1>1, <1>2, <1>3, <1>4, <1>6, <1>7, <1>8, <1>9, <1>10, <1>11, <1>12, <1>13,
     <1>14, <1>15, <1>16, <1>17, OutcomesWhenReliable
     DEF Next, Silent, SilentApiStep, SilentWorkerStep

\* How the status of a row may change.
StatusMove(s, t) ==
    \/ s = "absent" /\ t = "queued"
    \/ s = "queued" /\ t \in {"processing", "failed"}
    \/ s = "processing" /\ t \in {"queued", "completed", "failed"}

LEMMA StatusWritten ==
    ASSUME NEW r \in RowType, NEW reason \in Reasons
    PROVE  /\ ProcessingRow(r).status = "processing"
           /\ QueuedRow(r).status = "queued"
           /\ FailedRow(r, reason).status = "failed"
<1>1. ProcessingRow(r).status = "processing"
  BY DEF ProcessingRow, RowType
<1>2. QueuedRow(r).status = "queued"
  BY DEF QueuedRow, RowType
<1>3. FailedRow(r, reason).status = "failed"
  BY DEF FailedRow, RowType
<1> QED
  BY <1>1, <1>2, <1>3

\* The step moves j, which is not terminal, and no other job.
Moves(j) ==
    /\ row[j].status \notin Terminal
    /\ \/ row'[j].status = row[j].status
       \/ StatusMove(row[j].status, row'[j].status)
    /\ \A i \in Jobs \ {j} : row'[i] = row[i] /\ routes'[i] = routes[i]

OneMoves == (row' = row /\ routes' = routes) \/ \E j \in Jobs : Moves(j)

\* A step changes at most one row, that of a job which is not terminal.
LEMMA OneRowMoves == ContractInv /\ [Next]_vars => OneMoves
<1> SUFFICES ASSUME ContractInv, [Next]_vars
             PROVE  OneMoves
  OBVIOUS
<1>0. /\ TypeOK /\ ReliableOnly /\ HeldInv
      /\ \A w \in Workers : RowOfWorker(w)
      /\ \A j \in Jobs : RowOfRequest(j) /\ row[j] \in RowType
  BY DEF ContractInv, HeldInv, QueueInv, TypeOK, RowType
<1>1. ASSUME NEW j \in Jobs, NEW o \in DbOutcomes, CreateJob(j, o) PROVE Moves(j)
  <2>1. row[j].status = "absent" /\ routes' = routes
    BY <1>0, <1>1 DEF CreateJob, RowOfRequest, NoRow
  <2>2. row'[j] = row[j] \/ row'[j].status = "queued"
    BY <1>0, <1>1, Written DEF CreateJob, CreatedRow
  <2>3. \A i \in Jobs \ {j} : row'[i] = row[i]
    BY <1>0, <1>1, Written DEF CreateJob
  <2> QED
    BY <2>1, <2>2, <2>3 DEF Moves, StatusMove, Terminal
<1>2. ASSUME NEW j \in Jobs, NEW o \in DbOutcomes, FailEnqueue(j, o) PROVE Moves(j)
  <2>1. row[j].status = "queued" /\ routes' = routes
    BY <1>0, <1>2 DEF FailEnqueue, RowOfRequest
  <2>2. row'[j] = row[j] \/ row'[j].status = "failed"
    <3>1. row'[j] = row[j] \/ row'[j] = FailedRow(row[j], "enqueue")
      BY <1>0, <1>2, Written DEF FailEnqueue
    <3> QED
      BY <1>0, <3>1, StatusWritten DEF Reasons
  <2>3. \A i \in Jobs \ {j} : row'[i] = row[i]
    BY <1>0, <1>2, Written DEF FailEnqueue
  <2> QED
    BY <2>1, <2>2, <2>3 DEF Moves, StatusMove, Terminal
<1>3. ASSUME NEW w \in Workers, NEW o \in DbOutcomes, MarkProcessing(w, o)
      PROVE  \E j \in Jobs : Moves(j)
  <2> DEFINE j == worker[w].job
  <2>1. j \in Jobs /\ Open(row[j]) /\ routes' = routes
    BY <1>0, <1>3 DEF MarkProcessing, RowOfWorker, TypeOK
  <2>2. row'[j] = row[j] \/ row'[j].status = "processing"
    <3>1. row'[j] = row[j] \/ row'[j] = ProcessingRow(row[j])
      BY <1>0, <1>3, <2>1, Written DEF MarkProcessing
    <3> QED
      BY <1>0, <2>1, <3>1, StatusWritten DEF Reasons
  <2>3. \A i \in Jobs \ {j} : row'[i] = row[i]
    BY <1>0, <1>3, <2>1, Written DEF MarkProcessing
  <2> QED
    BY <2>1, <2>2, <2>3 DEF Moves, StatusMove, Terminal, Open
<1>4. ASSUME NEW w \in Workers, NEW o \in DbOutcomes, CompleteJob(w, o)
      PROVE  \E j \in Jobs : Moves(j)
  <2> DEFINE j == worker[w].job
  <2>1. j \in Jobs /\ row[j].status = "processing"
    BY <1>0, <1>4 DEF CompleteJob, RowOfWorker, TypeOK
  <2>2. row'[j] = row[j] \/ row'[j].status = "completed"
    BY <1>0, <1>4, <2>1, Written DEF CompleteJob, CompletedRow
  <2>3. \A i \in Jobs \ {j} : row'[i] = row[i] /\ routes'[i] = routes[i]
    BY <1>0, <1>4, <2>1, Written DEF CompleteJob, TypeOK
  <2> QED
    BY <2>1, <2>2, <2>3 DEF Moves, StatusMove, Terminal
<1>5. ASSUME NEW w \in Workers, NEW o \in DbOutcomes, RecordFailure(w, o)
      PROVE  \E j \in Jobs : Moves(j)
  <2> DEFINE j == worker[w].job
  <2>1. j \in Jobs /\ Open(row[j]) /\ routes' = routes /\ row[j] \in RowType
    BY <1>0, <1>5 DEF RecordFailure, RowOfWorker, TypeOK, RowType
  <2>2. row'[j] = row[j] \/ row'[j].status \in {"failed", "queued"}
    <3>1. \/ row'[j] = row[j]
          \/ row'[j] = FailedRow(row[j], "attempt")
          \/ row'[j] = QueuedRow(row[j])
      BY <1>0, <1>5, <2>1, Written DEF RecordFailure
    <3> QED
      BY <1>0, <2>1, <3>1, StatusWritten DEF Reasons
  <2>3. \A i \in Jobs \ {j} : row'[i] = row[i]
    BY <1>0, <1>5, <2>1, Written DEF RecordFailure
  <2> QED
    BY <2>1, <2>2, <2>3 DEF Moves, StatusMove, Terminal, Open
<1>6. ASSUME NEW j \in Jobs,
             \/ QueueAdd(j) \/ QueueAddRefused(j) \/ AnnounceFromApi(j)
             \/ BackoffElapsed(j) \/ StalledCheck(j)
      PROVE  OneMoves
  BY <1>6 DEF OneMoves, QueueAdd, QueueAddRefused, AnnounceFromApi, BackoffElapsed, StalledCheck
<1>7. ASSUME NEW w \in Workers,
             \/ Compute(w) \/ CacheResult(w) \/ Acknowledge(w) \/ Reject(w)
             \/ AnnounceFromWorker(w) \/ LockExpires(w) \/ WorkerCrash(w)
      PROVE  OneMoves
  BY <1>7 DEF OneMoves, Compute, CacheResult, Acknowledge, Reject, AnnounceFromWorker,
              LockExpires, WorkerCrash
<1>8. ASSUME NEW w \in Workers, NEW j \in Jobs, Fetch(w, j)
      PROVE  OneMoves
  BY <1>8 DEF OneMoves, Fetch
<1>9. ASSUME ApiCrash \/ RedisFails \/ RedisRecovers \/ UNCHANGED vars
      PROVE  OneMoves
  BY <1>9 DEF OneMoves, ApiCrash, RedisFails, RedisRecovers, vars
<1>10. ASSUME NEW j \in Jobs, NEW o \in DbOutcomes, CreateJob(j, o) \/ FailEnqueue(j, o)
       PROVE  OneMoves
  BY <1>10, <1>1, <1>2 DEF OneMoves
<1>11. ASSUME NEW w \in Workers, NEW o \in DbOutcomes,
              MarkProcessing(w, o) \/ CompleteJob(w, o) \/ RecordFailure(w, o)
       PROVE  OneMoves
  BY <1>11, <1>3, <1>4, <1>5 DEF OneMoves
<1>12. CASE Next
  <2>1. CASE Silent
    BY <2>1, <1>6, <1>7, <1>8, <1>9, <1>10, <1>11 DEF Silent, SilentApiStep, SilentWorkerStep
  <2>2. CASE \E j \in Jobs : AnnounceFromApi(j)
    BY <2>2, <1>6
  <2>3. CASE \E w \in Workers : AnnounceFromWorker(w)
    BY <2>3, <1>7
  <2> QED
    BY <1>9, <1>12, <2>1, <2>2, <2>3 DEF Next
<1> QED
  BY <1>9, <1>12

\* A completed or failed job is final: its row never changes again and no
\* further route is saved for it.
THEOREM FinalWhenReliable == ReliableOnly /\ Spec => TerminalIsFinal
<1>1. ContractInv /\ [Next]_vars =>
        [\A j \in Jobs : row[j].status \in Terminal
            => row'[j] = row[j] /\ routes'[j] = routes[j]]_vars
  BY OneRowMoves DEF OneMoves, Moves
<1> QED
  BY <1>1, ContractInvInit, ContractInvStep, PTL DEF Spec, TerminalIsFinal

-----------------------------------------------------------------------------
(* The refinement                                                          *)

\* The state of the contract of a row that is in it depends on its status only.
StateOf(s) == CASE s = "completed" -> Contract!Completed
                [] s = "failed" -> Contract!Failed
                [] OTHER -> Contract!Open(s)

LEMMA StateByStatus ==
    ASSUME NEW r \in RowType, NEW n, RowInContract(r, n)
    PROVE  [status |-> r.status, saved |-> n,
            error |-> IF r.reason = "none" THEN "none" ELSE "given"] = StateOf(r.status)
  BY DEF StateOf, RowInContract, RowType, Statuses,
         Contract!Completed, Contract!Failed, Contract!Open

LEMMA RefinesInit == ReliableOnly /\ Init => Contract!Init
  BY DEF Init, NoRow, Contract!Init, Contract!Open

LEMMA RefinesStep ==
    ContractInv /\ ContractInv' /\ [Next]_vars
        => [Contract!Next]_([j \in Jobs |->
                [status |-> row[j].status,
                 saved |-> routes[j],
                 error |-> IF row[j].reason = "none" THEN "none" ELSE "given"]])
<1> SUFFICES ASSUME ContractInv, ContractInv', [Next]_vars
             PROVE  [Contract!Next]_([j \in Jobs |->
                        [status |-> row[j].status,
                         saved |-> routes[j],
                         error |-> IF row[j].reason = "none" THEN "none" ELSE "given"]])
  OBVIOUS
<1> DEFINE state == [j \in Jobs |->
                        [status |-> row[j].status,
                         saved |-> routes[j],
                         error |-> IF row[j].reason = "none" THEN "none" ELSE "given"]]
<1>1. state = [j \in Jobs |-> StateOf(row[j].status)]
  <2>1. \A j \in Jobs : row[j] \in RowType /\ RowInContract(row[j], routes[j])
    BY DEF ContractInv, RowsInContract, HeldInv, QueueInv, TypeOK, RowType
  <2> QED
    BY <2>1, StateByStatus
<1>2. state' = [j \in Jobs |-> StateOf(row'[j].status)]
  <2>1. \A j \in Jobs : row'[j] \in RowType /\ RowInContract(row'[j], routes'[j])
    BY DEF ContractInv, RowsInContract, HeldInv, QueueInv, TypeOK, RowType
  <2> QED
    BY <2>1, StateByStatus
<1>3. CASE row' = row /\ routes' = routes
  BY <1>3
<1>4. ASSUME NEW j \in Jobs,
             \/ row'[j].status = row[j].status
             \/ StatusMove(row[j].status, row'[j].status),
             \A i \in Jobs \ {j} : row'[i] = row[i]
      PROVE  [Contract!Next]_state
  <2>1. state' = [state EXCEPT ![j] = StateOf(row'[j].status)]
    <3> DEFINE before(i) == StateOf(row[i].status)
               after(i) == StateOf(row'[i].status)
    <3>1. \A i \in Jobs : i # j => after(i) = before(i)
      BY <1>4
    <3>2. state = [i \in Jobs |-> before(i)] /\ state' = [i \in Jobs |-> after(i)]
      BY <1>1, <1>2
    <3> HIDE DEF before, after, state
    <3>3. state' = [state EXCEPT ![j] = after(j)]
      BY <3>1, <3>2
    <3> QED
      BY <3>3 DEF after
  <2>2. state[j] = StateOf(row[j].status)
    BY <1>1
  <2>3. CASE row'[j].status = row[j].status
    <3>1. state' = state
      BY <1>1, <1>2, <1>4, <2>3
    <3> QED
      BY <3>1
  <2>4. CASE StatusMove(row[j].status, row'[j].status)
    <3> HIDE DEF state
    <3>1. Contract!Next
      BY <2>1, <2>2, <2>4 DEF state, StatusMove, StateOf, Contract!Next, Contract!Move,
         Contract!Submit, Contract!Start, Contract!GiveBack, Contract!Complete, Contract!Fail
    <3> QED
      BY <3>1
  <2> QED
    BY <1>4, <2>3, <2>4
<1> QED
  BY <1>3, <1>4, OneRowMoves DEF OneMoves, Moves

\* What clients see of the jobs is a behaviour of JobContract.
THEOREM ImplementsContract == ReliableOnly /\ Spec => ContractSpec
  BY ContractInvInit, ContractInvStep, RefinesInit, RefinesStep, PTL
     DEF Spec, ContractSpec, Contract!Spec

-----------------------------------------------------------------------------
(***************************************************************************)
(* What the workers report and what BullMQ keeps, against the rows.  Since *)
(* a terminal row is final, what was true of it when a step was reached    *)
(* is still true when the step is taken.                                   *)
(***************************************************************************)

LEMMA TerminalStays ==
    ASSUME ContractInv, [Next]_vars, NEW j \in Jobs, row[j].status \in Terminal
    PROVE  row'[j] = row[j]
  BY OneRowMoves DEF OneMoves, Moves

\* The row of a job that BullMQ has, but not as an active one, is left alone.
LEMMA WrittenWhileActive ==
    ASSUME ContractInv, [Next]_vars, NEW j \in Jobs, queue[j].state \notin {"none", "active"}
    PROVE  row'[j] = row[j]
<1>0. TypeOK /\ HeldInv
  BY DEF ContractInv, HeldInv, QueueInv
<1>1. CASE QuietStep
  <2>1. RowSteps(j)
    BY <1>0, <1>1, RowsAreWritten
  <2>2. \A w \in Workers : ~RunsOn(w, j)
    BY <1>0, Alone DEF RunsOn
  <2>3. \A o \in DbOutcomes : ~CreateJob(j, o) /\ ~FailEnqueue(j, o)
    BY <1>0 DEF CreateJob, FailEnqueue, HeldInv, RejectedIsNotQueued, NotAdded, BeforeAdd
  <2> QED
    BY <2>1, <2>2, <2>3 DEF RowSteps
<1>2. CASE QueueStep
  BY <1>0, <1>2, QueueStepsKeepRows
<1> QED
  BY <1>1, <1>2, StepCases

\* The row of a job that is given up: a refused statement may have left it open.
FailedOrRefused(j) ==
    row[j].status = "failed" \/ (Open(row[j]) /\ faultsLeft < MaxFaults)

\* What a worker needs to have right for what it will announce and reject.
Prepared(w) ==
    /\ worker[w].pc \in {"cache", "sayCompleted"} => worker[w].route = 1
    /\ worker[w].pc = "sayFailed" => row[worker[w].job].reason = "attempt"
    /\ worker[w].pc = "nack" /\ IsFinalAttempt(w) => FailedOrRefused(worker[w].job)

\* No step gives back a fault.
LEMMA FaultsAreSpent ==
    ASSUME TypeOK, [Next]_vars
    PROVE  faultsLeft' <= faultsLeft
<1> DEFINE Spent == faultsLeft' = faultsLeft \/ \E k \in AllFaults : Fault(k)
<1>1. ASSUME NEW j, NEW r, NEW o, Write(j, r, o) PROVE Spent
  BY <1>1, ConstantsAssumption DEF Write, Fault
<1>2. ASSUME NEW j \in Jobs, NEW o \in DbOutcomes, CreateJob(j, o) \/ FailEnqueue(j, o)
      PROVE  Spent
  BY <1>1, <1>2 DEF CreateJob, FailEnqueue
<1>3. ASSUME NEW w \in Workers, NEW o \in DbOutcomes,
             MarkProcessing(w, o) \/ CompleteJob(w, o) \/ RecordFailure(w, o)
      PROVE  Spent
  BY <1>1, <1>3 DEF MarkProcessing, CompleteJob, RecordFailure
<1>4. ASSUME NEW j \in Jobs, QueueAdd(j) PROVE Spent
  BY <1>4 DEF QueueAdd, AllFaults
<1>5. ASSUME ApiCrash \/ RedisFails PROVE Spent
  BY <1>5 DEF ApiCrash, RedisFails, AllFaults
<1>6. ASSUME NEW w \in Workers, LockExpires(w) \/ WorkerCrash(w) PROVE Spent
  BY <1>6 DEF LockExpires, WorkerCrash, AllFaults
<1>7. ASSUME faultsLeft' = faultsLeft PROVE Spent
  BY <1>7
<1> HIDE DEF Spent
<1>8. ASSUME QuietStep PROVE Spent
  <2>1. ASSUME NEW j \in Jobs, QueueAddRefused(j) \/ AnnounceFromApi(j) PROVE Spent
    BY <1>7, <2>1 DEF QueueAddRefused, AnnounceFromApi
  <2>2. ASSUME NEW w \in Workers, Compute(w) \/ CacheResult(w) \/ AnnounceFromWorker(w)
        PROVE  Spent
    BY <1>7, <2>2 DEF Compute, CacheResult, AnnounceFromWorker
  <2>3. ASSUME RedisRecovers \/ UNCHANGED vars PROVE Spent
    BY <1>7, <2>3 DEF RedisRecovers, vars
  <2> QED
    BY <1>2, <1>3, <1>5, <1>8, <2>1, <2>2, <2>3 DEF QuietStep
<1>9. ASSUME QueueStep PROVE Spent
  <2>1. ASSUME NEW j \in Jobs, BackoffElapsed(j) \/ StalledCheck(j) PROVE Spent
    BY <1>7, <2>1 DEF BackoffElapsed, StalledCheck
  <2>2. ASSUME NEW w \in Workers, NEW j \in Jobs, Fetch(w, j) PROVE Spent
    BY <1>7, <2>2 DEF Fetch
  <2>3. ASSUME NEW w \in Workers, Acknowledge(w) \/ Reject(w) PROVE Spent
    BY <1>7, <2>3 DEF Acknowledge, Reject
  <2> QED
    BY <1>4, <1>6, <1>9, <2>1, <2>2, <2>3 DEF QueueStep
<1>10. faultsLeft \in Nat
  BY ConstantsAssumption DEF TypeOK
<1> QED
  BY <1>8, <1>9, <1>10, StepCases DEF Spent, Fault

\* A row that is left alone is still failed, or a fault is still its excuse.
LEMMA FailedOrRefusedStays ==
    ASSUME TypeOK, [Next]_vars, NEW j \in Jobs, FailedOrRefused(j), row'[j] = row[j]
    PROVE  FailedOrRefused(j)'
<1>1. faultsLeft' <= faultsLeft /\ faultsLeft \in Nat /\ faultsLeft' \in Nat
  BY FaultsAreSpent, TypeStep, ConstantsAssumption DEF TypeOK
<1> QED
  BY <1>1, ConstantsAssumption DEF FailedOrRefused, Open

LEMMA SettledStep ==
    ASSUME ContractInv, SettledAgreement, [Next]_vars, \A w \in Workers : Prepared(w)
    PROVE  SettledAgreement'
<1> SUFFICES ASSUME NEW j \in Jobs
             PROVE  /\ queue'[j].state = "completed" => row'[j].status = "completed"
                    /\ queue'[j].state = "failed" => FailedOrRefused(j)'
  BY DEF SettledAgreement, FailedOrRefused, Open
<1>0. /\ TypeOK /\ HeldInv /\ QueueInv /\ ReliableOnly
      /\ \A w \in Workers : RowOfWorker(w)
  BY DEF ContractInv, HeldInv, QueueInv
<1>1. /\ queue[j].state = "completed" => row'[j].status = "completed"
      /\ queue[j].state = "failed" => FailedOrRefused(j)'
  BY <1>0, WrittenWhileActive, FailedOrRefusedStays
     DEF SettledAgreement, FailedOrRefused, Open
<1>2. CASE queue'[j].state = queue[j].state \/ queue'[j].state \notin {"completed", "failed"}
  BY <1>1, <1>2
<1>3. CASE QuietStep
  BY <1>0, <1>2, <1>3, QuietSteps
<1>4. ASSUME NEW i \in Jobs, QueueAdd(i) \/ BackoffElapsed(i)
      PROVE  queue'[j].state = queue[j].state \/ queue'[j].state \notin {"completed", "failed"}
  <2>1. CASE QueueAdd(i)
    BY <1>0, <2>1 DEF QueueAdd, TypeOK
  <2>2. CASE BackoffElapsed(i)
    BY <1>0, <2>2 DEF BackoffElapsed, TypeOK
  <2> QED
    BY <1>4, <2>1, <2>2
<1>5. ASSUME NEW i \in Jobs, StalledCheck(i) PROVE FALSE
  BY <1>0, <1>5 DEF StalledCheck, HeldInv, LocksAreKept
<1>6. ASSUME NEW w \in Workers, NEW i \in Jobs, Fetch(w, i)
      PROVE  queue'[j].state = queue[j].state \/ queue'[j].state \notin {"completed", "failed"}
  BY <1>0, <1>6 DEF Fetch, TypeOK
<1>7. ASSUME NEW w \in Workers, Acknowledge(w)
      PROVE  /\ queue'[j].state = "completed" => row'[j].status = "completed"
             /\ queue'[j].state = "failed" => FailedOrRefused(j)'
  <2>1. worker[w].job \in Jobs /\ row' = row /\ row[worker[w].job].status = "completed"
    BY <1>0, <1>7 DEF Acknowledge, RowOfWorker, TypeOK
  <2>2. CASE worker[w].job # j
    <3>1. queue'[j].state = queue[j].state
      BY <1>0, <1>7, <2>2 DEF Acknowledge, TypeOK
    <3> QED
      BY <1>1, <3>1
  <2>3. CASE worker[w].job = j
    <3>1. queue[j].lock = w
      BY <1>0, <1>7, <2>3, Alone DEF Acknowledge
    <3>2. queue'[j].state = "completed"
      BY <1>0, <1>7, <2>3, <3>1 DEF Acknowledge, TypeOK
    <3> QED
      BY <2>1, <2>3, <3>2
  <2> QED
    BY <2>2, <2>3
<1>8. ASSUME NEW w \in Workers, Reject(w)
      PROVE  /\ queue'[j].state = "completed" => row'[j].status = "completed"
             /\ queue'[j].state = "failed" => FailedOrRefused(j)'
  <2>1. /\ worker[w].job \in Jobs /\ row' = row /\ worker[w].pc = "nack"
    BY <1>0, <1>8 DEF Reject, TypeOK
  <2>2. CASE worker[w].job # j
    <3>1. queue'[j].state = queue[j].state
      BY <1>0, <1>8, <2>2 DEF Reject, TypeOK
    <3> QED
      BY <1>1, <3>1
  <2>3. CASE worker[w].job = j
    <3>1. queue[j].lock = w
      BY <1>0, <1>8, <2>3, Alone DEF Reject
    <3>2. queue'[j].state = IF IsFinalAttempt(w) THEN "failed" ELSE "delayed"
      BY <1>0, <1>8, <2>3, <3>1 DEF Reject, TypeOK
    <3>3. IsFinalAttempt(w) => FailedOrRefused(j)'
      BY <1>0, <2>1, <2>3, FailedOrRefusedStays DEF Prepared
    <3> QED
      BY <3>2, <3>3
  <2> QED
    BY <2>2, <2>3
<1> QED
  BY <1>0, <1>2, <1>3, <1>4, <1>5, <1>6, <1>7, <1>8, StepCases, OutcomesWhenReliable
     DEF QueueStep

\* While a worker only has to reject its job nobody writes the row.
LEMMA RejectingIsSilent ==
    ASSUME ContractInv, [Next]_vars, NEW w \in Workers, NEW j \in Jobs,
           RunsOn(w, j), worker[w].pc = "nack"
    PROVE  row'[j] = row[j]
<1>0. TypeOK /\ HeldInv
  BY DEF ContractInv, HeldInv, QueueInv
<1>1. /\ api[j] \notin NotAdded
      /\ \A v \in Workers : RunsOn(v, j) => v = w
  BY <1>0, Alone DEF RunsOn
<1>2. CASE QuietStep
  <2>1. RowSteps(j)
    BY <1>0, <1>2, RowsAreWritten
  <2>2. \A o \in DbOutcomes : ~CreateJob(j, o) /\ ~FailEnqueue(j, o)
    BY <1>1 DEF CreateJob, FailEnqueue, NotAdded, BeforeAdd
  <2>3. \A o \in DbOutcomes : ~MarkProcessing(w, o) /\ ~CompleteJob(w, o) /\ ~RecordFailure(w, o)
    BY DEF MarkProcessing, CompleteJob, RecordFailure
  <2> QED
    BY <1>1, <2>1, <2>2, <2>3 DEF RowSteps
<1>3. CASE QueueStep
  BY <1>0, <1>3, QueueStepsKeepRows
<1> QED
  BY <1>2, <1>3, StepCases

LEMMA PreparedStep ==
    ASSUME ContractInv, [Next]_vars, NEW w \in Workers, Prepared(w)
    PROVE  Prepared(w)'
<1>0. /\ TypeOK /\ HeldInv /\ ReliableOnly
      /\ \A v \in Workers : RowOfWorker(v)
      /\ \A j \in Jobs : RowInContract(row[j], routes[j])
      /\ \A j \in Jobs : row[j] \in RowType
  BY DEF ContractInv, RowsInContract, HeldInv, QueueInv, TypeOK, RowType
<1>1. CASE worker'[w] = worker[w]
  <2>1. ASSUME worker[w].pc = "sayFailed"
        PROVE  row'[worker[w].job] = row[worker[w].job]
    <3>1. worker[w].job \in Jobs /\ row[worker[w].job].status \in Terminal
      BY <1>0, <2>1 DEF RowOfWorker, Terminal, TypeOK
    <3> QED
      BY <3>1, TerminalStays
  <2>2. ASSUME worker[w].pc = "nack", FailedOrRefused(worker[w].job)
        PROVE  FailedOrRefused(worker[w].job)'
    <3>1. worker[w].job \in Jobs /\ RunsOn(w, worker[w].job)
      BY <1>0, <2>2 DEF RunsOn, TypeOK
    <3>2. row'[worker[w].job] = row[worker[w].job]
      BY <1>0, <1>1, <2>2, <3>1, RejectingIsSilent
    <3> QED
      BY <1>0, <1>1, <2>2, <3>1, <3>2, FailedOrRefusedStays DEF FailedOrRefused
  <2> QED
    BY <1>1, <2>1, <2>2 DEF Prepared, IsFinalAttempt, FailedOrRefused
<1>2. CASE worker'[w].pc \notin {"cache", "sayCompleted", "sayFailed", "nack"}
  BY <1>2 DEF Prepared
<1>3. ASSUME NEW i \in Jobs, NEW o \in DbOutcomes,
             \/ CreateJob(i, o) \/ FailEnqueue(i, o) \/ QueueAddRefused(i)
             \/ AnnounceFromApi(i) \/ QueueAdd(i) \/ BackoffElapsed(i) \/ StalledCheck(i)
      PROVE  worker'[w] = worker[w]
  BY <1>3 DEF CreateJob, FailEnqueue, QueueAddRefused, AnnounceFromApi, QueueAdd,
              BackoffElapsed, StalledCheck
<1>4. ASSUME ApiCrash \/ RedisFails \/ RedisRecovers \/ UNCHANGED vars
      PROVE  worker'[w] = worker[w]
  BY <1>4 DEF ApiCrash, RedisFails, RedisRecovers, vars
<1>5. ASSUME NEW v \in Workers, v # w, NEW o \in DbOutcomes,
             \/ MarkProcessing(v, o) \/ CompleteJob(v, o) \/ RecordFailure(v, o)
             \/ Compute(v) \/ CacheResult(v) \/ AnnounceFromWorker(v)
             \/ Acknowledge(v) \/ Reject(v)
      PROVE  worker'[w] = worker[w]
  BY <1>0, <1>5 DEF MarkProcessing, CompleteJob, RecordFailure, Compute, CacheResult,
              AnnounceFromWorker, Acknowledge, Reject, Proceed, WorkerGoto, TypeOK
<1>6. ASSUME NEW v \in Workers, NEW j \in Jobs, Fetch(v, j)
      PROVE  worker'[w] = worker[w] \/ worker'[w].pc = "mark"
  BY <1>0, <1>6 DEF Fetch, TypeOK
<1>7. ASSUME Acknowledge(w) \/ Reject(w) PROVE worker'[w].pc = "idle"
  BY <1>0, <1>7 DEF Acknowledge, Reject, IdleWorker, TypeOK
<1>8. ASSUME NEW o \in DbOutcomes, MarkProcessing(w, o)
      PROVE  worker'[w].pc \in {"sayProcessing", "caught"}
  BY <1>0, <1>8 DEF MarkProcessing, Proceed, WorkerGoto, TypeOK
<1>9. ASSUME Compute(w) PROVE worker'[w].pc \in {"complete", "caught"}
  BY <1>0, <1>9 DEF Compute, WorkerGoto, TypeOK
<1>10. ASSUME AnnounceFromWorker(w) PROVE Prepared(w)'
  <2>1. /\ worker'[w].job = worker[w].job /\ worker'[w].made = worker[w].made
        /\ row' = row /\ worker[w].job \in Jobs
        /\ \/ worker'[w].pc \in {"compute", "ack"}
           \/ worker'[w].pc = "nack" /\ worker[w].pc \in {"sayFailed", "sayQueued"}
    BY <1>0, <1>10 DEF AnnounceFromWorker, WorkerGoto, TypeOK
  <2>2. CASE worker'[w].pc = "nack"
    <3>1. IsFinalAttempt(w)' => row'[worker'[w].job].status = "failed"
      BY <1>0, <2>1, <2>2 DEF RowOfWorker, IsFinalAttempt
    <3> QED
      BY <2>2, <3>1 DEF Prepared, FailedOrRefused
  <2> QED
    BY <1>2, <2>1, <2>2
<1>11. ASSUME NEW o \in DbOutcomes, CompleteJob(w, o) PROVE Prepared(w)'
  <2>1. worker[w].job \in Jobs /\ routes[worker[w].job] = 0
    BY <1>0, <1>11 DEF CompleteJob, RowOfWorker, RowInContract, TypeOK
  <2>2. worker'[w].pc = "caught" \/ (worker'[w].pc = "cache" /\ worker'[w].route = 1)
    BY <1>0, <1>11, <2>1 DEF CompleteJob, TypeOK
  <2> QED
    BY <2>2 DEF Prepared
<1>12. ASSUME CacheResult(w) PROVE Prepared(w)'
  <2>1. worker[w].route = 1
    BY <1>12 DEF CacheResult, Prepared
  <2>2. worker'[w].pc = "sayCompleted" /\ worker'[w].route = worker[w].route
    BY <1>0, <1>12 DEF CacheResult, WorkerGoto, TypeOK
  <2> QED
    BY <2>1, <2>2 DEF Prepared
<1>13. ASSUME NEW o \in DbOutcomes, RecordFailure(w, o) PROVE Prepared(w)'
  <2>1. worker[w].job \in Jobs /\ row[worker[w].job] \in RowType
    BY <1>0, <1>13 DEF RecordFailure, TypeOK
  <2>2. /\ worker'[w].pc \in {"nack", "sayFailed", "sayQueued"}
        /\ worker'[w].job = worker[w].job
    BY <1>0, <1>13 DEF RecordFailure, WorkerGoto, TypeOK
  <2>3. ASSUME worker'[w].pc = "sayFailed"
        PROVE  row'[worker[w].job].reason = "attempt"
    <3>1. o = "ok" /\ IsFinalAttempt(w)
      BY <1>0, <1>13, <2>3 DEF RecordFailure, WorkerGoto, TypeOK
    <3>2. row'[worker[w].job] = FailedRow(row[worker[w].job], "attempt")
      BY <1>0, <1>13, <2>1, <3>1, Written DEF RecordFailure
    <3> QED
      BY <2>1, <3>2 DEF FailedRow, RowType
  <2>4. ASSUME worker'[w].pc = "nack"
        PROVE  FailedOrRefused(worker[w].job)'
    <3>1. o # "ok"
      BY <1>0, <1>13, <2>4 DEF RecordFailure, WorkerGoto, TypeOK
    <3>2. row'[worker[w].job] = row[worker[w].job] /\ Fault(o)
      BY <1>0, <1>13, <2>1, <3>1, Written DEF RecordFailure, Write
    <3>3. faultsLeft' < MaxFaults
      BY <1>0, <3>2, ConstantsAssumption DEF Fault, TypeOK
    <3>4. Open(row[worker[w].job])
      BY <1>0, <1>13 DEF RecordFailure, RowOfWorker
    <3> QED
      BY <2>2, <3>2, <3>3, <3>4 DEF FailedOrRefused, Open
  <2> QED
    BY <2>2, <2>3, <2>4 DEF Prepared, FailedOrRefused
<1>14. CASE QuietStep
  BY <1>1, <1>2, <1>3, <1>4, <1>5, <1>8, <1>9, <1>10, <1>11, <1>12, <1>13, <1>14
     DEF QuietStep, DbOutcomes
<1>15. CASE QueueStep
  BY <1>0, <1>1, <1>2, <1>3, <1>5, <1>6, <1>7, <1>15, OutcomesWhenReliable
     DEF QueueStep, DbOutcomes
<1> QED
  BY <1>14, <1>15, StepCases

AnnounceInv ==
    /\ ContractInv /\ ResultIntegrity
    /\ SettledAgreement
    /\ \A w \in Workers : Prepared(w)

LEMMA AnnounceInvariance == ReliableOnly /\ Spec => []AnnounceInv
<1>1. Init => SettledAgreement /\ \A w \in Workers : Prepared(w)
  BY DEF Init, NotQueued, IdleWorker, SettledAgreement, Prepared
<1>2. /\ ContractInv /\ SettledAgreement /\ (\A w \in Workers : Prepared(w)) /\ [Next]_vars
      => SettledAgreement' /\ (\A w \in Workers : Prepared(w))'
  BY SettledStep, PreparedStep
<1> QED
  BY <1>1, <1>2, ContractInvInit, ContractInvStep, ResultsAreSound, PTL DEF Spec, AnnounceInv

\* What is announced is what the row says.
THEOREM AnnouncesTheRow == ReliableOnly /\ Spec => []AnnouncementIsTrue
<1>1. AnnounceInv => AnnouncementIsTrue
  <2> SUFFICES ASSUME AnnounceInv, NEW w \in Workers,
                      worker[w].pc \in {"sayProcessing", "sayCompleted", "sayFailed", "sayQueued"}
               PROVE  /\ row[WorkerAnnouncement(w).job].status = WorkerAnnouncement(w).status
                      /\ row[WorkerAnnouncement(w).job].route = WorkerAnnouncement(w).route
                      /\ WorkerAnnouncement(w).reason # "none" =>
                             row[WorkerAnnouncement(w).job].reason = WorkerAnnouncement(w).reason
    BY DEF AnnouncementIsTrue
  <2> DEFINE j == worker[w].job
  <2>1. /\ j \in Jobs /\ row[j] \in RowType /\ routes[j] \in Nat
        /\ RowOfWorker(w) /\ Prepared(w) /\ RowInContract(row[j], routes[j])
    BY DEF AnnounceInv, ContractInv, RowsInContract, HeldInv, QueueInv, TypeOK, RowType
  <2>2. /\ row[j].route \in Nat /\ row[j].route <= routes[j]
        /\ row[j].status = "completed" => row[j].route > 0
    BY <2>1 DEF AnnounceInv, ResultIntegrity, RowType
  <2>3. CASE worker[w].pc = "sayProcessing"
    <3>1. row[j].status = "processing" /\ row[j].route = 0
      BY <2>1, <2>2, <2>3 DEF RowOfWorker, RowInContract
    <3> QED
      BY <2>3, <3>1 DEF WorkerAnnouncement, Event
  <2>4. CASE worker[w].pc = "sayCompleted"
    <3>1. row[j].status = "completed" /\ row[j].route = 1 /\ worker[w].route = 1
      BY <2>1, <2>2, <2>4 DEF RowOfWorker, RowInContract, Prepared
    <3> QED
      BY <2>4, <3>1 DEF WorkerAnnouncement, Event
  <2>5. CASE worker[w].pc = "sayFailed"
    <3>1. row[j].status = "failed" /\ row[j].route = 0 /\ row[j].reason = "attempt"
      BY <2>1, <2>2, <2>5 DEF RowOfWorker, RowInContract, Prepared
    <3> QED
      BY <2>5, <3>1 DEF WorkerAnnouncement, Event
  <2>6. CASE worker[w].pc = "sayQueued"
    <3>1. row[j].status = "queued" /\ row[j].route = 0
      BY <2>1, <2>2, <2>6 DEF RowOfWorker, RowInContract
    <3> QED
      BY <2>6, <3>1 DEF WorkerAnnouncement, Event
  <2> QED
    BY <2>3, <2>4, <2>5, <2>6
<1> QED
  BY <1>1, AnnounceInvariance, PTL

\* BullMQ's final sets and the rows never contradict each other.
THEOREM SettlesInAgreement == ReliableOnly /\ Spec => []SettledAgreement
<1>1. AnnounceInv => SettledAgreement
  BY DEF AnnounceInv
<1> QED
  BY <1>1, AnnounceInvariance, PTL
=============================================================================
