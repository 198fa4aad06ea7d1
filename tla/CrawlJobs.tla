------------------------------ MODULE CrawlJobs ------------------------------
(***************************************************************************)
(* Crawl jobs: the crawl_jobs table (jobs.py) and the tasks that run them   *)
(* (IngestService, services/ingest.py).                                     *)
(*                                                                         *)
(* The table is read and written synchronously on the event loop, so the    *)
(* steps of a coroutine between two awaits are one action.  The awaits are  *)
(* the semaphore, the crawl itself and _emit_job, which hands the loop to   *)
(* everybody else while the row has been written and the task or the        *)
(* request has not gone on.                                                *)
(***************************************************************************)
EXTENDS Naturals, FiniteSets

CONSTANTS
    Job,               \* job identifiers: each is used for one row only
    NoJob,             \* the job of a task slot that is not used
    Url,               \* the addresses users ask to crawl
    NoUrl,             \* the address of a job not created yet
    Task,              \* slots for the coroutines of _run_job
    NoTask,            \* a job with no entry in _running
    Concurrency,       \* job_concurrency: the semaphore of the jobs
    MaxAttempts,       \* max_attempts: automatic resumptions of a job
    MaxEvents,         \* bound on what users and faults do to the service
    StoreMayFail       \* TRUE: a call of the job store may raise

ASSUME JobsAssumption ==
    /\ NoJob \notin Job
    /\ NoUrl \notin Url
    /\ NoTask \notin Task
    /\ Concurrency \in Nat \ {0}
    /\ MaxAttempts \in Nat \ {0}
    /\ MaxEvents \in Nat
    /\ StoreMayFail \in BOOLEAN

VARIABLES
    status,            \* status[j]: the status column, "absent" when there is no row
    attempts,          \* attempts[j]: the attempts column
    url,               \* url[j]: the url column
    aged,              \* jobs created longer ago than QUEUED_RETENTION_DAYS
    request,           \* request[j]: the API call that is about to start j
    task,              \* task[t]: the job and the phase of a _run_job coroutine
    running,           \* running[j]: the entry of j in IngestService._running
    runs,              \* runs[j]: how often j was run since a user asked for it (history)
    lost,              \* jobs whose start was refused, or whose row could not be written (history)
    events             \* how many bounded events have happened

table   == <<status, attempts, url, aged>>
memory  == <<request, task, running>>
history == <<runs, lost>>
vars == <<table, memory, history, events>>

Active   == {"queued", "running"}
Finished == {"done", "error"}

\* The phases of _run_job, one per await:
\*   spawned   created, has not read its row
\*   waiting   waits for the semaphore
\*   announce  the row says running, in _emit_job
\*   crawl     in the crawl
\*   final     the row says done or error, in the last _emit_job
Phase == {"spawned", "waiting", "announce", "crawl", "final"}

NoTaskAt == [job |-> NoJob, phase |-> "free"]

TypeOK ==
    /\ status \in [Job -> Active \cup Finished \cup {"absent"}]
    /\ attempts \in [Job -> 0..MaxAttempts]
    /\ url \in [Job -> Url \cup {NoUrl}]
    /\ aged \subseteq Job
    /\ request \in [Job -> {"none", "created", "retrying"}]
    /\ task \in [Task -> {NoTaskAt} \cup [job : Job, phase : Phase]]
    /\ running \in [Job -> Task \cup {NoTask}]
    /\ runs \in [Job -> Nat]
    /\ lost \subseteq Job
    /\ events \in 0..MaxEvents

Init ==
    /\ status = [j \in Job |-> "absent"]
    /\ attempts = [j \in Job |-> 0]
    /\ url = [j \in Job |-> NoUrl]
    /\ aged = {}
    /\ request = [j \in Job |-> "none"]
    /\ task = [t \in Task |-> NoTaskAt]
    /\ running = [j \in Job |-> NoTask]
    /\ runs = [j \in Job |-> 0]
    /\ lost = {}
    /\ events = 0

Event ==
    /\ events < MaxEvents
    /\ events' = events + 1

\* JobStore.update(j, status=s): no row, no effect.
Update(j, s) == status' = [status EXCEPT ![j] = IF @ = "absent" THEN @ ELSE s]

-----------------------------------------------------------------------------
(***************************************************************************)
(* The API.                                                                *)
(***************************************************************************)

\* JobStore.find_active_by_url.
ActiveFor(u) == {j \in Job : url[j] = u /\ status[j] \in Active}

\* JobStore.create: the row of a new identifier.
Created(j, u) ==
    /\ url[j] = NoUrl
    /\ status' = [status EXCEPT ![j] = "queued"]
    /\ url' = [url EXCEPT ![j] = u]

\* ingest_url: no job of that address is active, so a row is inserted.
Submit(j, u) ==
    /\ Event
    /\ ActiveFor(u) = {}
    /\ Created(j, u)
    /\ request' = [request EXCEPT ![j] = "created"]
    /\ UNCHANGED <<attempts, aged, task, running, history>>

\* retry_job: a row that is not active goes back to queued.  (A store that raises after it
\* has committed the row, when the answer is read back, is left out.)
Retry(j) ==
    /\ Event
    /\ status[j] \in Finished
    /\ status' = [status EXCEPT ![j] = "queued"]
    /\ attempts' = [attempts EXCEPT ![j] = 0]
    /\ request' = [request EXCEPT ![j] = "retrying"]
    /\ runs' = [runs EXCEPT ![j] = 0]
    /\ lost' = lost \ {j}
    /\ UNCHANGED <<url, aged, task, running>>

\* start_job spawns a task unless _running has one for this job.
Spawn(j, t) ==
    /\ task[t].phase = "free"
    /\ task' = [task EXCEPT ![t] = [job |-> j, phase |-> "spawned"]]
    /\ running' = [running EXCEPT ![j] = t]

\* _emit_job has returned: both calls go on with start_job.
StartJob(j) ==
    /\ request[j] # "none"
    /\ request' = [request EXCEPT ![j] = "none"]
    /\ \/ /\ running[j] = NoTask
          /\ \E t \in Task : Spawn(j, t)
          /\ UNCHANGED lost
       \/ /\ running[j] # NoTask
          /\ lost' = lost \cup {j}
          /\ UNCHANGED <<task, running>>
    /\ UNCHANGED <<table, runs, events>>

-----------------------------------------------------------------------------
(***************************************************************************)
(* _run_job.                                                               *)
(***************************************************************************)

\* _running.pop, and the coroutine is gone.
Return(t) ==
    /\ task' = [task EXCEPT ![t] = NoTaskAt]
    /\ running' = [running EXCEPT ![task[t].job] = NoTask]

Goes(t, p) == task' = [task EXCEPT ![t].phase = p] /\ UNCHANGED running

\* The row is read: nothing to do if it is gone, or running already.
Begin(t) ==
    /\ task[t].phase = "spawned"
    /\ IF status[task[t].job] \in {"absent", "running"} THEN Return(t) ELSE Goes(t, "waiting")
    /\ UNCHANGED <<table, request, history, events>>

HasSlot == {t \in Task : task[t].phase \in {"announce", "crawl", "final"}}

\* The semaphore is free: the row says running from now on.
Acquire(t) ==
    /\ task[t].phase = "waiting"
    /\ Cardinality(HasSlot) < Concurrency
    /\ Update(task[t].job, "running")
    /\ runs' = [runs EXCEPT ![task[t].job] = @ + 1]
    /\ Goes(t, "announce")
    /\ UNCHANGED <<attempts, url, aged, request, lost, events>>

Announced(t) ==
    /\ task[t].phase = "announce"
    /\ Goes(t, "crawl")
    /\ UNCHANGED <<table, request, history, events>>

\* The crawl ended, or raised: the row gets its final status.
Finish(t, s) ==
    /\ task[t].phase = "crawl"
    /\ Update(task[t].job, s)
    /\ Goes(t, "final")
    /\ UNCHANGED <<attempts, url, aged, request, history, events>>

End(t) ==
    /\ task[t].phase = "final"
    /\ Return(t)
    /\ UNCHANGED <<table, request, history, events>>

\* A read or write of the row outside the crawl raises: _running is cleaned up, the row
\* stays as it is.
Die(t) ==
    /\ StoreMayFail
    /\ Event
    /\ task[t].phase \in {"spawned", "waiting", "crawl"}
    /\ lost' = lost \cup {task[t].job}
    /\ Return(t)
    /\ UNCHANGED <<table, request, runs>>

-----------------------------------------------------------------------------
(***************************************************************************)
(* Restarts and retention.                                                 *)
(***************************************************************************)

\* Mutants: only the rows that say running are claimed, or only those that say queued.
Resumed_RunningOnly(st) == {j \in Job : st[j] = "running" /\ attempts[j] < MaxAttempts}
Resumed_QueuedOnly(st)  == {j \in Job : st[j] = "queued" /\ attempts[j] < MaxAttempts}

\* claim_resumable on rows with statuses st: the jobs it queues again, those it fails.
Resumed(st) == {j \in Job : st[j] \in Active /\ attempts[j] < MaxAttempts}
GivenUp(st) == {j \in Job : st[j] \in Active /\ attempts[j] >= MaxAttempts}

\* Mutant: an attempt is counted only for a job that was running.
Counted_RunningOnly(st) ==
    [j \in Job |-> IF j \in Resumed(st) /\ st[j] = "running" THEN attempts[j] + 1 ELSE attempts[j]]

\* Every job claimed has used one more of its attempts, even if it never ran.
Counted(st) == [j \in Job |-> IF j \in Resumed(st) THEN attempts[j] + 1 ELSE attempts[j]]

\* resume_pending at startup: every job claimed gets a task.
Boot(st) ==
    /\ status' = [j \in Job |-> IF j \in Resumed(st) THEN "queued"
                                ELSE IF j \in GivenUp(st) THEN "error" ELSE st[j]]
    /\ attempts' = Counted(st)
    /\ lost' = lost \ Resumed(st)
    /\ \E slot \in [Resumed(st) -> Task] :
          /\ \A i, j \in Resumed(st) : slot[i] = slot[j] => i = j
          /\ running' = [j \in Job |-> IF j \in Resumed(st) THEN slot[j] ELSE NoTask]
          /\ task' = [t \in Task |->
                         IF \E j \in Resumed(st) : slot[j] = t
                         THEN [job |-> CHOOSE j \in Resumed(st) : slot[j] = t, phase |-> "spawned"]
                         ELSE NoTaskAt]

\* claim_resumable raises: nothing is resumed.
BootFails(st) ==
    /\ StoreMayFail
    /\ status' = st
    /\ task' = [t \in Task |-> NoTaskAt]
    /\ running' = [j \in Job |-> NoTask]
    /\ lost' = lost \cup {j \in Job : st[j] \in Active}
    /\ UNCHANGED attempts

\* Mutant: the handler stands around the whole coroutine.
Interrupted_Anywhere == {task[t].job : t \in {u \in Task : task[u].phase # "free"}}

Interrupted == {task[t].job : t \in {u \in Task : task[u].phase = "crawl"}}

\* shutdown(): the tasks are cancelled; only the crawl has a handler, which writes queued.
Stopped ==
    [j \in Job |-> IF j \in Interrupted /\ status[j] # "absent" THEN "queued" ELSE status[j]]

\* The process is killed, or is stopped in order, and starts again.
Restart ==
    /\ Event
    /\ request' = [j \in Job |-> "none"]
    /\ \E st \in {status, Stopped} : Boot(st) \/ BootFails(st)
    /\ UNCHANGED <<url, aged, runs>>

\* Seven days go by.
Age(j) ==
    /\ Event
    /\ url[j] # NoUrl
    /\ j \notin aged
    /\ aged' = aged \cup {j}
    /\ UNCHANGED <<status, attempts, url, memory, history>>

\* JobStore.prune: finished jobs beyond the newest MAX_JOBS (any subset of the jobs
\* modelled) and queued ones created too long ago are deleted.
Prune(old) ==
    /\ Event
    /\ \A j \in old : status[j] \in Finished
    /\ status' = [j \in Job |-> IF j \in old \/ (j \in aged /\ status[j] = "queued")
                                THEN "absent" ELSE status[j]]
    /\ status' # status
    /\ UNCHANGED <<attempts, url, aged, memory, history>>

-----------------------------------------------------------------------------
TaskStep(t) ==
    \/ Begin(t) \/ Acquire(t) \/ Announced(t) \/ End(t) \/ Die(t)
    \/ \E s \in Finished : Finish(t, s)

Next ==
    \/ \E j \in Job :
          \/ Retry(j) \/ StartJob(j) \/ Age(j)
          \/ \E u \in Url : Submit(j, u)
    \/ \E t \in Task : TaskStep(t)
    \/ \E old \in SUBSET Job : Prune(old)
    \/ Restart

Spec == Init /\ [][Next]_vars

(***************************************************************************)
(* Fairness.  Coroutines that can go on do, and a crawl ends: the crawler   *)
(* has a limit of pages and a timeout on each.  None of users and faults.   *)
(***************************************************************************)
TaskMoves(t) ==
    \/ Begin(t) \/ Acquire(t) \/ Announced(t) \/ End(t)
    \/ \E s \in Finished : Finish(t, s)

Fairness ==
    /\ \A j \in Job : WF_vars(StartJob(j))
    /\ \A t \in Task : WF_vars(TaskMoves(t))

FairSpec == Spec /\ Fairness

-----------------------------------------------------------------------------
(***************************************************************************)
(* What must be true.                                                      *)
(***************************************************************************)

\* Whoever will still move the row of j.
Owned(j) ==
    \/ request[j] # "none"
    \/ \E t \in Task : task[t].job = j /\ task[t].phase \in {"spawned", "waiting", "announce", "crawl"}

\* A row that is queued or running has a task that will run it to its end, or a request
\* about to start one, across retries, restarts, pruning and failures: the only ways to
\* lose one are a start that was refused and a store that raised (_run_job, retry_job,
\* resume_pending).
ActiveOwned ==
    \A j \in Job : status[j] \in Active => Owned(j) \/ j \in lost

\* No job is ever run by two tasks at a time, whatever is retried and resumed
\* (start_job: "the same job is not started twice").
OneTaskPerJob ==
    \A t, u \in Task : task[t].job = task[u].job /\ task[t].job # NoJob => t = u

\* A job that keeps taking the service down is not resumed for ever: since the user last
\* asked for it, it has been run at most once more than claim_resumable allows.
RunsBounded == \A j \in Job : runs[j] <= MaxAttempts + 1

\* The final status of a job is never overwritten, by a task that ends late, by a shutdown
\* or at startup: only a retry takes it back, and only prune deletes it.
FinishedStays ==
    [][\A j \in Job : status[j] \in Finished =>
          \/ status'[j] \in {status[j], "absent"}
          \/ status'[j] = "queued" /\ request'[j] = "retrying"]_vars

\* A job that says running ends, even if the service is restarted meanwhile.
RunningEnds ==
    \A j \in Job : (status[j] = "running") ~> (status[j] # "running" \/ j \in lost)

\* retry_job, services/ingest.py:352, answers "queued again", and a second retry (line 339)
\* "still in progress": a job that is queued will run, unless it is deleted.
QueuedRuns ==
    \A j \in Job : (status[j] = "queued") ~> (status[j] # "queued")

=============================================================================
