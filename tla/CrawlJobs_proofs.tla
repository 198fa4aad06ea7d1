-------------------------- MODULE CrawlJobs_proofs --------------------------
(***************************************************************************)
(* Theorems about CrawlJobs, for any number of jobs, addresses and task     *)
(* slots, any limit of attempts and any concurrency.                       *)
(***************************************************************************)
EXTENDS CrawlJobs, TLAPS

\* The groups of variables are only names for tuples.
USE DEF table, memory, history

-----------------------------------------------------------------------------
(***************************************************************************)
(* Types.                                                                  *)
(***************************************************************************)

\* What a restart leaves in the table and in memory has its type.
LEMMA BootTypes ==
    ASSUME TypeOK, NEW st \in [Job -> Active \cup Finished \cup {"absent"}],
           Boot(st) \/ BootFails(st)
    PROVE  /\ status' \in [Job -> Active \cup Finished \cup {"absent"}]
           /\ attempts' \in [Job -> 0..MaxAttempts]
           /\ task' \in [Task -> {NoTaskAt} \cup [job : Job, phase : Phase]]
           /\ running' \in [Job -> Task \cup {NoTask}]
           /\ lost' \subseteq Job
<1> USE JobsAssumption DEF TypeOK, Active, Finished, Phase, NoTaskAt
<1>1. CASE BootFails(st)
  BY <1>1 DEF BootFails
<1>2. CASE Boot(st)
  <2>1. attempts' \in [Job -> 0..MaxAttempts]
    BY <1>2 DEF Boot, Counted, Resumed
  <2>2. /\ status' \in [Job -> Active \cup Finished \cup {"absent"}]
        /\ lost' \subseteq Job
    BY <1>2 DEF Boot
  <2>3. PICK slot \in [Resumed(st) -> Task] :
          /\ running' = [j \in Job |-> IF j \in Resumed(st) THEN slot[j] ELSE NoTask]
          /\ task' = [t \in Task |->
                         IF \E j \in Resumed(st) : slot[j] = t
                         THEN [job |-> CHOOSE j \in Resumed(st) : slot[j] = t, phase |-> "spawned"]
                         ELSE NoTaskAt]
    BY <1>2 DEF Boot
  <2>4. \A t \in Task : (\E j \in Resumed(st) : slot[j] = t)
                           => (CHOOSE j \in Resumed(st) : slot[j] = t) \in Job
    BY DEF Resumed
  <2> QED BY <2>1, <2>2, <2>3, <2>4
<1> QED BY <1>1, <1>2

\* Every step keeps the types.
LEMMA StepTypes ==
    ASSUME TypeOK, Next
    PROVE  TypeOK'
<1> USE JobsAssumption DEF TypeOK, Active, Finished, Phase, NoTaskAt
<1>1. ASSUME NEW j \in Job, Retry(j) PROVE TypeOK'
  BY <1>1 DEF Retry, Event
<1>2. ASSUME NEW j \in Job, StartJob(j) PROVE TypeOK'
  BY <1>2 DEF StartJob, Spawn
<1>3. ASSUME NEW j \in Job, Age(j) PROVE TypeOK'
  BY <1>3 DEF Age, Event
<1>4. ASSUME NEW j \in Job, NEW u \in Url, Submit(j, u) PROVE TypeOK'
  BY <1>4 DEF Submit, Created, Event
<1>5. ASSUME NEW t \in Task, Begin(t) PROVE TypeOK'
  BY <1>5 DEF Begin, Return, Goes
<1>6. ASSUME NEW t \in Task, Acquire(t) PROVE TypeOK'
  BY <1>6 DEF Acquire, Goes, Update
<1>7. ASSUME NEW t \in Task, Announced(t) PROVE TypeOK'
  BY <1>7 DEF Announced, Goes
<1>8. ASSUME NEW t \in Task, NEW s \in Finished, Finish(t, s) PROVE TypeOK'
  BY <1>8 DEF Finish, Goes, Update
<1>9. ASSUME NEW t \in Task, End(t) PROVE TypeOK'
  BY <1>9 DEF End, Return
<1>10. ASSUME NEW t \in Task, Die(t) PROVE TypeOK'
  BY <1>10 DEF Die, Return, Event
<1>11. ASSUME NEW old \in SUBSET Job, Prune(old) PROVE TypeOK'
  BY <1>11 DEF Prune, Event
<1>12. CASE Restart
  <2>1. Stopped \in [Job -> Active \cup Finished \cup {"absent"}]
    BY DEF Stopped
  <2>2. PICK st \in {status, Stopped} : Boot(st) \/ BootFails(st)
    BY <1>12 DEF Restart
  <2>3. st \in [Job -> Active \cup Finished \cup {"absent"}]
    BY <2>1, <2>2
  <2> QED BY <1>12, <2>2, <2>3, BootTypes DEF Restart, Event
<1> QED
  BY <1>1, <1>2, <1>3, <1>4, <1>5, <1>6, <1>7, <1>8, <1>9, <1>10, <1>11, <1>12 DEF Next, TaskStep

\* The types of the table and of the tasks hold in every state.
THEOREM TypeCorrect == Spec => []TypeOK
<1>1. Init => TypeOK
  BY JobsAssumption DEF Init, TypeOK, Active, Finished, Phase, NoTaskAt
<1>2. TypeOK /\ [Next]_vars => TypeOK'
  <2> SUFFICES ASSUME TypeOK, [Next]_vars PROVE TypeOK'
    OBVIOUS
  <2>1. CASE Next
    BY <2>1, StepTypes
  <2>2. CASE UNCHANGED vars
    BY <2>2 DEF vars, TypeOK
  <2> QED BY <2>1, <2>2
<1> QED BY <1>1, <1>2, PTL DEF Spec

-----------------------------------------------------------------------------
(***************************************************************************)
(* The inductive invariant.                                                *)
(***************************************************************************)

\* A task in its slot is the one that _running has for its job.
Registered ==
    \A t \in Task : task[t].phase # "free" =>
        task[t].job \in Job /\ running[task[t].job] = t

\* The row of a job agrees with the phase of its task.
RowsFollowTasks ==
    \A t \in Task : LET j == task[t].job IN
        /\ task[t].phase \in {"spawned", "waiting"} =>
               status[j] \in {"queued", "absent"} /\ request[j] = "none"
        /\ task[t].phase \in {"announce", "crawl"} =>
               status[j] \in {"running", "absent"} /\ request[j] = "none"
        /\ task[t].phase = "final" => status[j] # "running"

\* A job about to be started is queued, or has been pruned meanwhile.
RequestsQueue == \A j \in Job : request[j] # "none" => status[j] \in {"queued", "absent"}

\* A job identifier that has not been used leaves no trace.
FreshJobs ==
    \A j \in Job : url[j] = NoUrl =>
        status[j] = "absent" /\ request[j] = "none" /\ running[j] = NoTask

\* Each run since the user asked for the job, but the first, used up an attempt, and so
\* will the next one.
RunsCounted ==
    /\ \A j \in Job : runs[j] <= attempts[j] + 1
    /\ \A j \in Job : request[j] # "none" \/ url[j] = NoUrl => runs[j] <= attempts[j]
    /\ \A t \in Task : task[t].phase \in {"spawned", "waiting"} =>
           runs[task[t].job] <= attempts[task[t].job]

JobsInv ==
    /\ TypeOK /\ Registered /\ RowsFollowTasks /\ RequestsQueue /\ FreshJobs
    /\ RunsCounted /\ ActiveOwned

\* The steps of the API and of retention keep the invariant.
LEMMA RequestsKeep ==
    ASSUME JobsInv, TypeOK', NEW j \in Job,
           Retry(j) \/ StartJob(j) \/ Age(j) \/ (\E u \in Url : Submit(j, u))
              \/ (\E old \in SUBSET Job : Prune(old))
    PROVE  JobsInv'
<1> USE JobsAssumption DEF JobsInv, TypeOK, Active, Finished, Phase, NoTaskAt
<1> USE DEF Registered, RowsFollowTasks, RequestsQueue, FreshJobs, RunsCounted, ActiveOwned, Owned
<1>1. CASE Retry(j)
  BY <1>1 DEF Retry, Event
<1>2. CASE StartJob(j)
  <2> USE <1>2 DEF StartJob
  <2>1. ASSUME NEW t \in Task, running[j] = NoTask, Spawn(j, t), UNCHANGED lost
        PROVE  JobsInv'
    <3> USE <2>1 DEF Spawn
    <3>1. status[j] \in {"queued", "absent"}
      OBVIOUS
    <3>2. \A u \in Task : task'[u] = IF u = t THEN [job |-> j, phase |-> "spawned"] ELSE task[u]
      OBVIOUS
    <3>3. Registered'
      BY <3>2
    <3>4. RowsFollowTasks'
      BY <3>1, <3>2
    <3>5. RequestsQueue' /\ FreshJobs'
      OBVIOUS
    <3>6. RunsCounted'
      BY <3>2
    <3>7. ActiveOwned'
      BY <3>2
    <3> QED BY <3>3, <3>4, <3>5, <3>6, <3>7
  <2>2. CASE running[j] # NoTask /\ lost' = lost \cup {j} /\ UNCHANGED <<task, running>>
    BY <2>2
  <2> QED BY <2>1, <2>2
<1>3. CASE Age(j)
  BY <1>3 DEF Age, Event
<1>4. ASSUME NEW u \in Url, Submit(j, u) PROVE JobsInv'
  BY <1>4 DEF Submit, Created, Event
<1>5. ASSUME NEW old \in SUBSET Job, Prune(old) PROVE JobsInv'
  BY <1>5 DEF Prune, Event
<1> QED BY <1>1, <1>2, <1>3, <1>4, <1>5

\* The steps of a task keep the invariant.
LEMMA TasksKeep ==
    ASSUME JobsInv, TypeOK', NEW t \in Task, TaskStep(t)
    PROVE  JobsInv'
<1> USE JobsAssumption DEF JobsInv, TypeOK, Active, Finished, Phase, NoTaskAt
<1> USE DEF Registered, RowsFollowTasks, RequestsQueue, FreshJobs, RunsCounted, ActiveOwned, Owned
<1>1. CASE Begin(t)
  BY <1>1 DEF Begin, Return, Goes
<1>2. CASE Acquire(t)
  BY <1>2 DEF Acquire, Goes, Update
<1>3. CASE Announced(t)
  BY <1>3 DEF Announced, Goes
<1>4. CASE End(t)
  BY <1>4 DEF End, Return
<1>5. CASE Die(t)
  BY <1>5 DEF Die, Return, Event
<1>6. ASSUME NEW s \in Finished, Finish(t, s) PROVE JobsInv'
  BY <1>6 DEF Finish, Goes, Update
<1> QED BY <1>1, <1>2, <1>3, <1>4, <1>5, <1>6 DEF TaskStep

\* A restart keeps the invariant: a job it resumes is queued, has used an attempt and has
\* a task of its own; a job it does not resume is final, or lost.
LEMMA BootKeeps ==
    ASSUME JobsInv, TypeOK', Restart
    PROVE  JobsInv'
<1> USE JobsAssumption DEF JobsInv, Active, Finished
<1>1. PICK st \in {status, Stopped} : Boot(st) \/ BootFails(st)
  BY DEF Restart
<1>2. request' = [j \in Job |-> "none"] /\ UNCHANGED <<url, aged, runs>>
  BY DEF Restart
<1>3. st \in [Job -> Active \cup Finished \cup {"absent"}]
  BY DEF Stopped, TypeOK
<1>4. \A j \in Job : url[j] = NoUrl => st[j] = "absent"
  BY DEF Stopped, FreshJobs
<1>5. CASE BootFails(st)
  <2>1. Registered' /\ RowsFollowTasks'
    BY <1>5 DEF BootFails, Registered, RowsFollowTasks, NoTaskAt
  <2>2. RequestsQueue'
    BY <1>2 DEF RequestsQueue
  <2>3. FreshJobs'
    BY <1>2, <1>4, <1>5 DEF BootFails, FreshJobs
  <2>4. RunsCounted'
    BY <1>2, <1>5 DEF BootFails, RunsCounted, NoTaskAt
  <2>5. ActiveOwned'
    BY <1>5 DEF BootFails, ActiveOwned
  <2> QED BY <2>1, <2>2, <2>3, <2>4, <2>5
<1>6. CASE Boot(st)
  <2> DEFINE R == Resumed(st)
  <2>1. PICK slot \in [R -> Task] :
          /\ \A i, j \in R : slot[i] = slot[j] => i = j
          /\ running' = [j \in Job |-> IF j \in R THEN slot[j] ELSE NoTask]
          /\ task' = [t \in Task |->
                         IF \E j \in R : slot[j] = t
                         THEN [job |-> CHOOSE j \in R : slot[j] = t, phase |-> "spawned"]
                         ELSE NoTaskAt]
    BY <1>6 DEF Boot
  <2>2. R \subseteq Job /\ \A j \in R : st[j] \in Active
    BY DEF Resumed
  <2>3. \A t \in Task : \/ task'[t] = NoTaskAt
                        \/ \E j \in R : slot[j] = t /\ task'[t] = [job |-> j, phase |-> "spawned"]
    BY <2>1
  <2>4. \A j \in R : task'[slot[j]] = [job |-> j, phase |-> "spawned"]
    BY <2>1, <2>3 DEF NoTaskAt
  <2>5. \A j \in Job : status'[j] = IF j \in R THEN "queued"
                                    ELSE IF j \in GivenUp(st) THEN "error" ELSE st[j]
    BY <1>6 DEF Boot
  <2>6. \A j \in Job : attempts'[j] = IF j \in R THEN attempts[j] + 1 ELSE attempts[j]
    BY <1>6 DEF Boot, Counted
  <2>7. Registered'
    BY <2>1, <2>2, <2>3 DEF Registered, NoTaskAt
  <2>8. RowsFollowTasks'
    <3> SUFFICES ASSUME NEW t \in Task, task'[t].phase # "free"
                 PROVE  /\ task'[t].phase = "spawned"
                        /\ status'[task'[t].job] = "queued"
                        /\ request'[task'[t].job] = "none"
      BY <2>3 DEF RowsFollowTasks, NoTaskAt
    <3>1. task'[t] # NoTaskAt
      BY DEF NoTaskAt
    <3>2. PICK j \in R : task'[t] = [job |-> j, phase |-> "spawned"]
      BY <2>3, <3>1, Zenon
    <3> QED BY <1>2, <2>2, <2>5, <3>2
  <2>9. RequestsQueue'
    BY <1>2 DEF RequestsQueue
  <2>10. FreshJobs'
    BY <1>2, <1>4, <2>1, <2>2, <2>5 DEF FreshJobs, GivenUp
  <2>11. RunsCounted'
    <3>1. \A j \in Job : runs'[j] <= attempts'[j] + 1
      BY <1>2, <2>6 DEF RunsCounted, TypeOK
    <3>2. \A j \in Job : url'[j] = NoUrl => runs'[j] <= attempts'[j]
      BY <1>2, <2>6 DEF RunsCounted, TypeOK
    <3>3. \A j \in R : runs'[j] <= attempts'[j]
      BY <1>2, <2>2, <2>6 DEF RunsCounted, TypeOK
    <3>4. ASSUME NEW t \in Task, task'[t].phase # "free"
          PROVE  runs'[task'[t].job] <= attempts'[task'[t].job]
      <4>1. task'[t] # NoTaskAt
        BY <3>4 DEF NoTaskAt
      <4>2. PICK j \in R : task'[t] = [job |-> j, phase |-> "spawned"]
        BY <2>3, <4>1, Zenon
      <4> QED BY <3>3, <4>2
    <3> QED BY <1>2, <3>1, <3>2, <3>4 DEF RunsCounted
  <2>12. ActiveOwned'
    <3>1. \A j \in Job : status'[j] \in Active => j \in R
      BY JobsAssumption, <1>3, <2>5 DEF Resumed, GivenUp, TypeOK
    <3>2. \A j \in R : Owned(j)'
      BY <2>1, <2>4 DEF Owned
    <3> QED BY <3>1, <3>2 DEF ActiveOwned
  <2> QED BY <2>7, <2>8, <2>9, <2>10, <2>11, <2>12
<1> QED BY <1>1, <1>5, <1>6

\* The invariant holds in every state.
LEMMA InvariantHolds == Spec => []JobsInv
<1>1. Init => JobsInv
  BY JobsAssumption DEF Init, JobsInv, TypeOK, Active, Finished, Phase, NoTaskAt, Registered,
     RowsFollowTasks, RequestsQueue, FreshJobs, RunsCounted, ActiveOwned
<1>2. JobsInv /\ [Next]_vars => JobsInv'
  <2> SUFFICES ASSUME JobsInv, [Next]_vars PROVE JobsInv'
    OBVIOUS
  <2>1. CASE Next
    <3>1. TypeOK'
      BY <2>1, StepTypes DEF JobsInv
    <3>2. ASSUME NEW j \in Job, Retry(j) \/ StartJob(j) \/ Age(j) \/ (\E u \in Url : Submit(j, u))
          PROVE  JobsInv'
      BY <3>1, <3>2, RequestsKeep
    <3>3. ASSUME NEW old \in SUBSET Job, Prune(old) PROVE JobsInv'
      <4>1. PICK j \in Job : TRUE
        BY <3>3 DEF Prune, JobsInv, TypeOK
      <4> QED BY <3>1, <3>3, <4>1, RequestsKeep
    <3>4. ASSUME NEW t \in Task, TaskStep(t) PROVE JobsInv'
      BY <3>1, <3>4, TasksKeep
    <3>5. CASE Restart
      BY <3>1, <3>5, BootKeeps
    <3> QED BY <2>1, <3>2, <3>3, <3>4, <3>5 DEF Next
  <2>2. CASE UNCHANGED vars
    BY <2>2 DEF vars, JobsInv, TypeOK, Registered, RowsFollowTasks, RequestsQueue, FreshJobs,
       RunsCounted, ActiveOwned, Owned
  <2> QED BY <2>1, <2>2
<1> QED BY <1>1, <1>2, PTL DEF Spec

-----------------------------------------------------------------------------
(***************************************************************************)
(* The theorems.                                                           *)
(***************************************************************************)

\* A row that is queued or running has somebody who will take it further, unless a start
\* was refused or the store raised.
THEOREM ActivesOwned == Spec => []ActiveOwned
<1> QED BY InvariantHolds, PTL DEF JobsInv

\* A job never has two tasks, however it was created, retried or resumed.
THEOREM SingleTask == Spec => []OneTaskPerJob
<1>1. JobsInv => OneTaskPerJob
  BY DEF JobsInv, Registered, OneTaskPerJob, TypeOK, Phase, NoTaskAt
<1> QED BY <1>1, InvariantHolds, PTL

\* Since the user last asked for it, a job has been run once and once more per attempt.
THEOREM BoundedRuns == Spec => []RunsBounded
<1>1. JobsInv => RunsBounded
  BY JobsAssumption DEF JobsInv, RunsCounted, RunsBounded, TypeOK
<1> QED BY <1>1, InvariantHolds, PTL

\* Only a retry takes a final status back, and only prune deletes it.
THEOREM FinalStays == Spec => FinishedStays
<1> DEFINE Stays(j) == status[j] \in Finished =>
                          \/ status'[j] \in {status[j], "absent"}
                          \/ status'[j] = "queued" /\ request'[j] = "retrying"
<1>1. JobsInv /\ [Next]_vars => [\A j \in Job : Stays(j)]_vars
  <2> SUFFICES ASSUME JobsInv, Next, NEW j \in Job PROVE Stays(j)
    BY DEF vars
  <2> USE DEF JobsInv, TypeOK, Active, Finished
  <2>1. ASSUME NEW i \in Job, Retry(i) \/ StartJob(i) \/ Age(i) \/ (\E u \in Url : Submit(i, u))
        PROVE  Stays(j)
    BY <2>1 DEF Retry, StartJob, Age, Submit, Created, FreshJobs
  <2>2. ASSUME NEW t \in Task, TaskStep(t) PROVE Stays(j)
    BY <2>2 DEF TaskStep, Begin, Acquire, Announced, End, Die, Finish, Update, RowsFollowTasks
  <2>3. ASSUME NEW old \in SUBSET Job, Prune(old) PROVE Stays(j)
    BY <2>3 DEF Prune
  <2>4. CASE Restart
    <3>1. PICK st \in {status, Stopped} : Boot(st) \/ BootFails(st)
      BY <2>4 DEF Restart
    <3>2. status[j] \in Finished => st[j] = status[j]
      BY DEF Stopped, Interrupted, RowsFollowTasks
    <3> QED BY <3>1, <3>2 DEF Boot, BootFails, Resumed, GivenUp
  <2> QED BY <2>1, <2>2, <2>3, <2>4 DEF Next
<1> QED BY <1>1, InvariantHolds, PTL DEF Spec, FinishedStays

=============================================================================
