---------------------------- MODULE JobContract ----------------------------
(***************************************************************************)
(* What the job API promises about one optimization job, whatever happens  *)
(* behind it: the row of table jobs moves queued -> processing ->          *)
(* completed | failed, goes back to queued between two attempts, and once  *)
(* it is completed (with exactly one saved route) or failed (with an error *)
(* reason) it never changes again.  OptimizationJobs is shown to implement *)
(* this specification when no process crashes and no reply is lost.        *)
(***************************************************************************)
EXTENDS Naturals

CONSTANT Jobs   \* identifiers of submitted jobs

VARIABLE state  \* state[j]: the contractual state of job j

(***************************************************************************)
(* The states a client can observe through GET /api/jobs/:job_id; absent   *)
(* is the 404 before the row exists.  A completed job owns one saved route *)
(* and a failed one carries its reason: the two are part of the state.     *)
(***************************************************************************)
ContractStates == { [status |-> s, saved |-> 0, error |-> "none"] :
                        s \in {"absent", "queued", "processing"} }
                  \cup { [status |-> "completed", saved |-> 1, error |-> "none"],
                         [status |-> "failed", saved |-> 0, error |-> "given"] }

Open(s) == [status |-> s, saved |-> 0, error |-> "none"]
Completed == [status |-> "completed", saved |-> 1, error |-> "none"]
Failed == [status |-> "failed", saved |-> 0, error |-> "given"]

Init == state = [j \in Jobs |-> Open("absent")]

Move(j, from, to) == /\ state[j] = from
                     /\ state' = [state EXCEPT ![j] = to]

Submit(j)   == Move(j, Open("absent"), Open("queued"))
Start(j)    == Move(j, Open("queued"), Open("processing"))
GiveBack(j) == Move(j, Open("processing"), Open("queued"))
Complete(j) == Move(j, Open("processing"), Completed)
Fail(j)     == \/ Move(j, Open("queued"), Failed)
               \/ Move(j, Open("processing"), Failed)

Next == \E j \in Jobs :
            Submit(j) \/ Start(j) \/ GiveBack(j) \/ Complete(j) \/ Fail(j)

Spec == Init /\ [][Next]_state
=============================================================================
