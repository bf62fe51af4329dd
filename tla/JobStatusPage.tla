---------------------------- MODULE JobStatusPage ----------------------------
(***************************************************************************)
(* The Job Status page of the frontend (features/job-status), together     *)
(* with the Route Builder page, which it follows and precedes, and with    *)
(* what both see of the backend: jobs that settle and their saved routes.  *)
(*                                                                         *)
(* A lookup starts a poll and ends no other one, so that polls of several  *)
(* jobs may write the same signals.  A saved route has the id of its job.  *)
(***************************************************************************)
EXTENDS RouteBuilder

CONSTANTS
    JobIds, NoJob,
    MaxRepeats      \* bound: runs of a job after its end, see JobRepeats

VARIABLES
    jobs,       \* jobs of the backend: [status, request, saved, repeats]
    polls,      \* pollJobUntilComplete under way: [id, step]
    job,        \* the answer that is shown: [id, status] or NoJob
    watching,   \* the signal loading of this component
    opening     \* the route that loadRoute waits for, or NoJob

jobPage == <<polls, job, watching, opening>>
vars == <<builderVars, jobs, jobPage>>

Terminal == {"completed", "failed"}

\* saved: a run of it has saved a route.
Job(status, request) == [status |-> status, request |-> request, saved |-> FALSE, repeats |-> 0]

Init ==
    /\ BuilderInit
    /\ jobs = [j \in JobIds |-> Job("absent", NoRequest)]
    /\ polls = <<>> /\ job = NoJob /\ watching = FALSE /\ opening = NoJob

-----------------------------------------------------------------------------
(* The backend                                                             *)

\* A request is accepted as a job (OptimizationJobs).
Enqueue(j) ==
    /\ jobs[j].status = "absent"
    /\ jobs' = [jobs EXCEPT ![j] = Job("queued", submission.request)]

JobMoves(j) ==
    /\ \/ jobs[j].status = "queued" /\ jobs' = [jobs EXCEPT ![j].status = "processing"]
       \/ /\ jobs[j].status = "processing"
          /\ \E status \in {"queued", "failed"} : jobs' = [jobs EXCEPT ![j].status = status]
       \/ /\ jobs[j].status = "processing"
          /\ jobs' = [jobs EXCEPT ![j].status = "completed", ![j].saved = TRUE]
    /\ UNCHANGED <<builderVars, jobPage>>

\* A worker that dies before BullMQ has heard of the end leaves the job to
\* another one, which marks it as processing again (TerminalIsFinal).
JobRepeats(j) ==
    /\ jobs[j].status \in Terminal /\ jobs[j].repeats < MaxRepeats
    /\ jobs' = [jobs EXCEPT ![j].status = "processing", ![j].repeats = @ + 1]
    /\ UNCHANGED <<builderVars, jobPage>>

-----------------------------------------------------------------------------
(* lookup() and its polls                                                  *)

LookupOf(j) ==
    /\ watching' = TRUE /\ job' = NoJob
    /\ polls' = Append(polls, [id |-> j, step |-> "asked"])

\* The page is opened with the id of the job that was queued.
JobQueued(j) ==
    /\ JobAnswered /\ Enqueue(j)
    /\ LookupOf(j)
    /\ UNCHANGED opening

\* An id is typed, with the button disabled while watching, or the browser
\* goes back or forward to the address of a job that was queued.
LookUp(j) ==
    /\ page = "jobs" /\ inputs < MaxInputs /\ inputs' = inputs + 1
    /\ ~ watching \/ jobs[j].status # "absent"
    /\ LookupOf(j)
    /\ UNCHANGED <<page, routeState, searchState, pageState, jobs, opening>>

\* The server reads the row.
PollRead(k) ==
    /\ polls[k].step = "asked"
    /\ polls' = [polls EXCEPT ![k].step = jobs[polls[k].id].status]
    /\ UNCHANGED <<builderVars, jobs, job, watching, opening>>

PollAnsweredExclusive(k) ==
    LET status == polls[k].step IN
    /\ status \in {"queued", "processing"} \cup Terminal
    /\ IF status \in Terminal THEN polls' = RemoveAt(polls, k) /\ UNCHANGED <<job, watching>>
       ELSE /\ polls' = [polls EXCEPT ![k].step = "timer"]
            /\ job' = [id |-> polls[k].id, status |-> status]
            /\ watching' = TRUE
    /\ UNCHANGED <<builderVars, jobs, opening>>

\* The answer is shown, and the poll ends with a terminal one.
PollAnswered(k) ==
    LET status == polls[k].step IN
    /\ status \in {"queued", "processing"} \cup Terminal
    /\ job' = [id |-> polls[k].id, status |-> status]
    /\ watching' = (status \notin Terminal)
    /\ polls' = IF status \in Terminal THEN RemoveAt(polls, k)
                ELSE [polls EXCEPT ![k].step = "timer"]
    /\ UNCHANGED <<builderVars, jobs, opening>>

\* The request fails, or there is no such job.
PollFailed(k) ==
    /\ polls[k].step # "timer"
    /\ polls' = RemoveAt(polls, k)
    /\ watching' = FALSE
    /\ UNCHANGED <<builderVars, jobs, job, opening>>

PollAgain(k) ==
    /\ polls[k].step = "timer"
    /\ polls' = [polls EXCEPT ![k].step = "asked"]
    /\ UNCHANGED <<builderVars, jobs, job, watching, opening>>

-----------------------------------------------------------------------------
(* loadRoute() and the way back                                            *)

ClosePage == polls' = <<>> /\ job' = NoJob /\ watching' = FALSE /\ opening' = NoJob

\* The button is disabled while a route is being opened.
OpenRoute(j) ==
    /\ page = "jobs" /\ inputs < MaxInputs /\ inputs' = inputs + 1
    /\ opening = NoJob /\ opening' = j
    /\ UNCHANGED <<page, routeState, searchState, pageState, jobs, polls, job, watching>>

RouteOpened ==
    /\ opening # NoJob /\ jobs[opening].saved
    /\ LoadSavedRoute(jobs[opening].request)
    /\ page' = "builder" /\ ClosePage
    /\ UNCHANGED <<searchState, pageState, inputs, jobs>>

OpeningFailed ==
    /\ opening # NoJob /\ opening' = NoJob
    /\ UNCHANGED <<builderVars, jobs, polls, job, watching>>

LeaveJobs ==
    /\ page = "jobs" /\ inputs < MaxInputs /\ inputs' = inputs + 1
    /\ page' = "builder" /\ ClosePage
    /\ UNCHANGED <<routeState, searchState, pageState, jobs>>

-----------------------------------------------------------------------------
PollEvent(k) == PollRead(k) \/ PollAnswered(k) \/ PollFailed(k) \/ PollAgain(k)

Next ==
    \/ (BuilderInput \/ SearchEvent \/ SubmissionEvent \/ MapEvent \/ LeaveBuilder)
       /\ UNCHANGED <<jobs, jobPage>>
    \/ \E j \in JobIds : JobQueued(j) \/ JobMoves(j) \/ JobRepeats(j) \/ LookUp(j) \/ OpenRoute(j)
    \/ \E k \in DOMAIN polls : PollEvent(k)
    \/ RouteOpened
    \/ OpeningFailed
    \/ LeaveJobs

Spec == Init /\ [][Next]_vars

\* Requests are answered and timers fire; the user may stop at any time.  Jobs
\* settle: that is assumed, and true unless the database refuses the end of a
\* job that BullMQ gives up (GivenUpIsFailed), whose page goes on watching.
FairSpec ==
    /\ Spec
    /\ WF_vars(SearchEvent /\ UNCHANGED <<jobs, jobPage>>)
    /\ WF_vars(\E k \in DOMAIN polls : PollEvent(k))
    /\ \A j \in JobIds : WF_vars(JobMoves(j)) /\ SF_vars(JobMoves(j) /\ jobs'[j].status \in Terminal)

-----------------------------------------------------------------------------
JobPageTypeOK ==
    /\ BuilderTypeOK
    /\ page # "jobs" => polls = <<>> /\ ~ watching /\ opening = NoJob

\* Although polls overwrite each other's answers and flag, the page does not
\* go on watching when all of them have ended.
WatchEnds == watching ~> ~ watching
=============================================================================
