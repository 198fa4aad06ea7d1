---------------------------- MODULE ItemLifecycle ----------------------------
(***************************************************************************)
(* One row of the resource library and everybody who writes its status:    *)
(*   - DiscoveryTransitions, ClassificationTransitions and                  *)
(*     DownloadTransitions (transitions.py), the only writers of the store; *)
(*   - HarvestPipeline (pipeline.py): classification flows and download     *)
(*     batches, with their timeout and the sweep that follows it;           *)
(*   - QBitSyncLoop (qbit_sync.py), which writes what it polled;            *)
(*   - the user's actions (user_actions.py), restarts of the service, and   *)
(*     qBittorrent itself, where the user may do as they like.              *)
(*                                                                         *)
(* Every call of the store is awaited: with the SQLite adapter it runs in   *)
(* a worker thread (AsyncItemStore._invoke), so between a get and the       *)
(* update that relies on it every other actor may run.  Each store call is  *)
(* therefore an action of its own.  Where the code compares and writes in   *)
(* one SQL statement (update_if_status), so does the action.                *)
(***************************************************************************)
EXTENDS Naturals, FiniteSets

CONSTANTS
    Hash,              \* infohashes
    Batch,             \* slots for download requests: HarvestPipeline._download_items
    Flow,              \* slots for classification flows: HarvestPipeline._stream_classify
    Category,          \* categories the classifier or the user may choose
    NoCategory,        \* a row not classified yet
    Concurrency,       \* the semaphore of _download_items (3 in the code)
    MaxEvents,         \* bound on what users, qBittorrent and faults do to the service
    OrphanedWrites,    \* TRUE: a store call whose task is cancelled may still run later
    StoreMayFail       \* TRUE: a store call of a task, or of the recovery, may raise

ASSUME SlotsAssumption ==
    /\ NoCategory \notin Category
    /\ Concurrency \in Nat \ {0}
    /\ MaxEvents \in Nat
    /\ OrphanedWrites \in BOOLEAN
    /\ StoreMayFail \in BOOLEAN

VARIABLES
    status,            \* status[h]: the status column, "absent" when there is no row
    category,          \* category[h]: the category column
    held,              \* the hashes qBittorrent has held at some time (history)
    qb,                \* qb[h]: h's state in qBittorrent as the mapper reads it, or "gone"
    child,             \* child[b][h]: where the _download_single_item of h in batch b stands
    taskCategory,      \* taskCategory[b][h]: the category that task read
    expired,           \* batches whose wait_for has timed out
    late,              \* writes of cancelled tasks still running in a worker thread
    wire,              \* adds whose caller is gone but which may still reach qBittorrent
    adrift,            \* rows a fault left in adding with nobody to answer for them (history)
    flow,              \* flow[f][h]: where the classification of h by flow f stands
    auto,              \* flows whose rows go on to a download batch (auto_download)
    editing,           \* hashes whose category the user is changing by hand
    stranded,          \* rows a fault left in classifying with no flow (history)
    known,             \* the hashes in the qB client's cached snapshot
    round,             \* where the sync loop stands
    snap,              \* the snapshot this round polled
    plan,              \* plan[h]: what this round will write to h's row, or "keep"
    events             \* how many bounded events have happened

\* models.TaskStatus.  "skipped" is declared there and written by no code path.
Status == {"pending", "classifying", "adding", "queued", "downloading",
           "paused", "success", "error"}
Row == Status \cup {"absent"}

\* What TorrentStatusMapper.map makes of a torrent's state.
Mapped == {"queued", "downloading", "paused", "success", "error"}

\* Mutant: rows in error are not looked at, as before they were added to the list.
SyncActive_NoError == {"adding", "queued", "downloading", "paused"}

\* qbit_sync._SYNC_ACTIVE_STATUSES: the rows a sync round looks at.
SyncActive == {"adding", "queued", "downloading", "paused", "error"}

\* The statuses a download may be submitted from, and a category edited in.
Retryable == {"pending", "error"}

\* The phases of _download_single_item, one per await:
\*   new      about to read the row
\*   nocat    the row had no category: failed() is about to read the row
\*   ready    waits for the batch's semaphore
\*   admitted has the semaphore, waits for _submit_lock
\*   locked   submitting() holds the lock and is about to read the row
\*   marking  submitting() read pending or error, is about to write adding
\*   calling  adding is written, add_magnet is in flight
\*   accepted qBittorrent has the torrent, the answer has not come back
\*   ok       add_magnet returned True, submitted() is about to read the row
\*   queueing submitted() read adding, is about to write queued
\*   bad      add_magnet failed, failed() is about to read the row
\*   failing  failed() read a status that is not final, is about to write error
\*   done     the coroutine has returned
\*   sweep    the batch timed out and has not looked at this row yet
ChildPhase == {"none", "new", "nocat", "ready", "admitted", "locked", "marking",
               "calling", "accepted", "ok", "queueing", "bad", "failing",
               "done", "sweep"}

\* The phases in which a task, or the handler of its timeout, still has to leave adding.
Answerable == {"calling", "accepted", "ok", "queueing", "bad", "failing", "sweep"}

\* The phases of one row in a classification flow:
\*   found    added by this flow
\*   picked   read, started() is about to run
\*   claimed  started() has run
\*   verdict  the classifier answered, the classified() task is scheduled
\*   written  classified() has returned, the flow waits for the others
\*   botched  classified() raised: failed() gives the row back once all have returned
\*   rollback the classifier raised, the row is about to be given back
FlowPhase == {"none", "found", "picked", "claimed", "verdict", "written", "botched",
              "rollback"}

\* The phases in which a flow still has to take its row out of classifying.
InHands == {"claimed", "verdict", "botched", "rollback"}

RoundPhase == {"idle", "polled", "listed"}

LateWrite == [hash : Hash, to : Mapped \cup {"adding"}]

TypeOK ==
    /\ status \in [Hash -> Row]
    /\ category \in [Hash -> Category \cup {NoCategory}]
    /\ held \subseteq Hash
    /\ qb \in [Hash -> Mapped \cup {"gone"}]
    /\ child \in [Batch -> [Hash -> ChildPhase]]
    /\ taskCategory \in [Batch -> [Hash -> Category \cup {NoCategory}]]
    /\ expired \subseteq Batch
    /\ late \subseteq LateWrite
    /\ wire \subseteq Hash
    /\ adrift \subseteq Hash
    /\ flow \in [Flow -> [Hash -> FlowPhase]]
    /\ auto \subseteq Flow
    /\ editing \subseteq Hash
    /\ stranded \subseteq Hash
    /\ known \subseteq Hash
    /\ round \in RoundPhase
    /\ snap \in [Hash -> Mapped \cup {"gone", "removed"}]
    /\ plan \in [Hash -> Mapped \cup {"keep"}]
    /\ events \in 0..MaxEvents

library    == <<status, category>>
torrents   == <<held, qb>>
leftovers  == <<late, wire, adrift>>
downloads  == <<child, taskCategory, expired, leftovers>>
classifier == <<flow, auto, editing, stranded>>
sync       == <<known, round, snap, plan>>
vars == <<library, torrents, downloads, classifier, sync, events>>

NoRound ==
    /\ round' = "idle"
    /\ snap' = [h \in Hash |-> "gone"]
    /\ plan' = [h \in Hash |-> "keep"]

Init ==
    /\ status = [h \in Hash |-> "absent"]
    /\ category = [h \in Hash |-> NoCategory]
    /\ held = {}
    /\ qb = [h \in Hash |-> "gone"]
    /\ child = [b \in Batch |-> [h \in Hash |-> "none"]]
    /\ taskCategory = [b \in Batch |-> [h \in Hash |-> NoCategory]]
    /\ expired = {}
    /\ late = {}
    /\ wire = {}
    /\ adrift = {}
    /\ flow = [f \in Flow |-> [h \in Hash |-> "none"]]
    /\ auto = {}
    /\ editing = {}
    /\ stranded = {}
    /\ known = {}
    /\ round = "idle"
    /\ snap = [h \in Hash |-> "gone"]
    /\ plan = [h \in Hash |-> "keep"]
    /\ events = 0

\* Something the users, qBittorrent or a fault do: bounded in number.
Event ==
    /\ events < MaxEvents
    /\ events' = events + 1

(***************************************************************************)
(* The store: what its writes do to one row.                               *)
(***************************************************************************)

\* store.update(hash, status=s): writes whatever the row says, if there is one.
Write(h, s) ==
    status' = [status EXCEPT ![h] = IF @ = "absent" THEN @ ELSE s]

\* store.update_if_status(hash, from, status=s): compares and writes at once.
WriteIf(h, from, s) ==
    status' = [status EXCEPT ![h] = IF @ \in from THEN s ELSE @]

-----------------------------------------------------------------------------
(***************************************************************************)
(* Discovery and classification.                                           *)
(***************************************************************************)

Idle(f) == \A h \in Hash : flow[f][h] = "none"

\* DiscoveryTransitions.found: INSERT OR IGNORE, then the row belongs to the flow.
Found(f, h) ==
    /\ Event
    /\ \A g \in Hash : flow[f][g] \in {"none", "found"}
    /\ status[h] = "absent"
    /\ status' = [status EXCEPT ![h] = "pending"]
    /\ category' = [category EXCEPT ![h] = NoCategory]
    /\ flow' = [flow EXCEPT ![f][h] = "found"]
    /\ UNCHANGED <<torrents, downloads, auto, editing, stranded, sync>>

\* The crawl is over: the rows just added are read back and those still there are
\* classified.  With auto_download the ones already deleted stay on the list too.
Gather(f, a) ==
    /\ \E h \in Hash : flow[f][h] = "found"
    /\ auto' = IF a THEN auto \cup {f} ELSE auto
    /\ flow' = [flow EXCEPT ![f] =
                  [h \in Hash |-> IF flow[f][h] # "found" THEN "none"
                                  ELSE IF status[h] # "absent" THEN "picked"
                                  ELSE IF a THEN "written" ELSE "none"]]
    /\ UNCHANGED <<library, torrents, downloads, editing, stranded, sync, events>>

\* HarvestPipeline.reclassify: reads each row, keeps those not in a download.
Reclassify(f, S) ==
    /\ Event
    /\ Idle(f)
    /\ S # {}
    /\ \A h \in S : status[h] \in Retryable
    /\ flow' = [flow EXCEPT ![f] = [h \in Hash |-> IF h \in S THEN "picked" ELSE "none"]]
    /\ UNCHANGED <<library, torrents, downloads, auto, editing, stranded, sync>>

\* Mutant: the status is written back unconditionally, as it was before update_if_status.
Started_Unconditional(f, h) ==
    /\ flow[f][h] = "picked"
    /\ Write(h, "classifying")
    /\ flow' = [flow EXCEPT ![f][h] = "claimed"]
    /\ UNCHANGED <<category, torrents, downloads, auto, editing, stranded, sync, events>>

\* ClassificationTransitions.started.  A row it claims is this flow's from now on.
Started(f, h) ==
    /\ flow[f][h] = "picked"
    /\ WriteIf(h, Retryable, "classifying")
    /\ flow' = [flow EXCEPT ![f][h] = "claimed"]
    /\ stranded' = IF status[h] \in Retryable THEN stranded \ {h} ELSE stranded
    /\ UNCHANGED <<category, torrents, downloads, auto, editing, sync, events>>

\* It raises before its write: logged, and the flow goes on with the row.
StartedFails(f, h) ==
    /\ StoreMayFail
    /\ Event
    /\ flow[f][h] = "picked"
    /\ flow' = [flow EXCEPT ![f][h] = "claimed"]
    /\ UNCHANGED <<library, torrents, downloads, auto, editing, stranded, sync>>

AllClaimed(f) ==
    /\ \E h \in Hash : flow[f][h] = "claimed"
    /\ \A h \in Hash : flow[f][h] \in {"none", "written", "claimed"}

\* classify_stream_batch ran to its end: on_result spawned classified() for each row.
ClassifierAnswers(f) ==
    /\ AllClaimed(f)
    /\ flow' = [flow EXCEPT ![f] =
                  [h \in Hash |-> IF @[h] = "claimed" THEN "verdict" ELSE @[h]]]
    /\ UNCHANGED <<library, torrents, downloads, auto, editing, stranded, sync, events>>

\* Mutant: the exception leaves without giving the rows back.
ClassifierRaises_NoRollback(f) ==
    /\ Event
    /\ AllClaimed(f)
    /\ flow' = [flow EXCEPT ![f] = [h \in Hash |-> "none"]]
    /\ auto' = auto \ {f}
    /\ UNCHANGED <<library, torrents, downloads, editing, stranded, sync>>

\* It raised: the tasks spawned so far have not begun, all are cancelled.
ClassifierRaises(f) ==
    /\ Event
    /\ AllClaimed(f)
    /\ flow' = [flow EXCEPT ![f] =
                  [h \in Hash |-> IF @[h] = "claimed" THEN "rollback" ELSE "none"]]
    /\ auto' = auto \ {f}
    /\ UNCHANGED <<library, torrents, downloads, editing, stranded, sync>>

\* IngestService._classify_one, for a row of a crawl job: the classifier raised before
\* started(), so failed() finds no classifying row and changes nothing.
ClassifyOneFails(f, h) ==
    /\ Event
    /\ flow[f] = [g \in Hash |-> IF g = h THEN "found" ELSE "none"]
    /\ flow' = [flow EXCEPT ![f][h] = "none"]
    /\ UNCHANGED <<library, torrents, downloads, auto, editing, stranded, sync>>

\* What classified() writes: the category, if the row is still in classifying.
Verdict(h, c) ==
    /\ WriteIf(h, {"classifying"}, "pending")
    /\ category' = [category EXCEPT ![h] = IF status[h] = "classifying" THEN c ELSE @]

\* ClassificationTransitions.classified.
Classified(f, h, c) ==
    /\ flow[f][h] = "verdict"
    /\ Verdict(h, c)
    /\ flow' = [flow EXCEPT ![f][h] = "written"]
    /\ UNCHANGED <<torrents, downloads, auto, editing, stranded, sync, events>>

\* It raises, before its write or when it reads the row back.
ClassifiedRaises(f, h) ==
    /\ StoreMayFail
    /\ Event
    /\ flow[f][h] = "verdict"
    /\ UNCHANGED library \/ \E c \in Category : Verdict(h, c)
    /\ flow' = [flow EXCEPT ![f][h] = "botched"]
    /\ UNCHANGED <<torrents, downloads, auto, editing, stranded, sync>>

\* All classified() tasks of f have returned or raised.
AllReturned(f) ==
    \A h \in Hash : flow[f][h] \in {"none", "written", "botched"}

\* ClassificationTransitions.failed: the row goes back if it is still in classifying.
GiveBack(h) == WriteIf(h, {"classifying"}, "pending")

\* failed() for a row whose classified() raised.
BotchedBack(f, h) ==
    /\ AllReturned(f)
    /\ flow[f][h] = "botched"
    /\ GiveBack(h)
    /\ flow' = [flow EXCEPT ![f][h] = "written"]
    /\ UNCHANGED <<category, torrents, downloads, auto, editing, stranded, sync, events>>

\* Flow f ends where it stands, on an exception: the rows it holds stay as they are.
Abandon(f) ==
    /\ flow' = [flow EXCEPT ![f] = [h \in Hash |-> "none"]]
    /\ auto' = auto \ {f}
    /\ stranded' = stranded \cup
                     {h \in Hash : flow[f][h] \in InHands /\ status'[h] = "classifying"}

\* failed() raises too, before its write or after: nothing catches it, the rows after
\* this one are not given back, and with auto_download nothing is downloaded.
BotchedLost(f, h) ==
    /\ StoreMayFail
    /\ Event
    /\ AllReturned(f)
    /\ flow[f][h] = "botched"
    /\ UNCHANGED status \/ GiveBack(h)
    /\ Abandon(f)
    /\ UNCHANGED <<category, torrents, downloads, editing, sync>>

\* IngestService._classify_one: started() or classified() raises, which nothing catches
\* before the job does.  (A flow of one row stands for it; one of _stream_classify would
\* come to the same by way of BotchedLost.)
ClassifyOneBreaks(f, h) ==
    /\ StoreMayFail
    /\ Event
    /\ f \notin auto
    /\ flow[f][h] \in {"picked", "verdict"}
    /\ \A g \in Hash \ {h} : flow[f][g] = "none"
    /\ UNCHANGED status
    /\ Abandon(f)
    /\ UNCHANGED <<category, torrents, downloads, editing, sync>>

AllWritten(f) ==
    /\ ~ Idle(f)
    /\ \A h \in Hash : flow[f][h] \in {"none", "written"}

FlowEnds(f) ==
    /\ AllWritten(f)
    /\ f \notin auto
    /\ flow' = [flow EXCEPT ![f] = [h \in Hash |-> "none"]]
    /\ UNCHANGED <<library, torrents, downloads, auto, editing, stranded, sync, events>>

\* _rollback_unclassified: the row is read, and failed() called if it is in classifying.
RollBack(f, h) ==
    /\ flow[f][h] = "rollback"
    /\ GiveBack(h)
    /\ flow' = [flow EXCEPT ![f][h] = "none"]
    /\ UNCHANGED <<category, torrents, downloads, auto, editing, stranded, sync, events>>

\* failed() raises before its write: logged, and the rollback goes on with the next row.
RollBackFails(f, h) ==
    /\ StoreMayFail
    /\ Event
    /\ flow[f][h] = "rollback"
    /\ flow' = [flow EXCEPT ![f][h] = "none"]
    /\ stranded' = IF status[h] = "classifying" THEN stranded \cup {h} ELSE stranded
    /\ UNCHANGED <<library, torrents, downloads, auto, editing, sync>>

\* The read raises: it is outside the try, and the rest of the rollback does not happen.
RollBackAborts(f) ==
    /\ StoreMayFail
    /\ Event
    /\ \E h \in Hash : flow[f][h] = "rollback"
    /\ UNCHANGED status
    /\ Abandon(f)
    /\ UNCHANGED <<category, torrents, downloads, editing, sync>>

\* manually_classified reads the row ...
StartEdit(h) ==
    /\ Event
    /\ status[h] \in Retryable
    /\ editing' = editing \cup {h}
    /\ UNCHANGED <<library, torrents, downloads, flow, auto, stranded, sync>>

\* ... and writes the category, whatever the status is by then.
FinishEdit(h, c) ==
    /\ h \in editing
    /\ editing' = editing \ {h}
    /\ category' = [category EXCEPT ![h] = IF status[h] = "absent" THEN @ ELSE c]
    /\ UNCHANGED <<status, torrents, downloads, flow, auto, stranded, sync, events>>

-----------------------------------------------------------------------------
(***************************************************************************)
(* Download batches.                                                       *)
(***************************************************************************)

Unused(b) == \A h \in Hash : child[b][h] = "none"

\* UserActionExecutor.download: the precheck, then the batch is spawned.
Download(b, S) ==
    /\ Event
    /\ Unused(b)
    /\ S # {}
    /\ \A h \in S : status[h] \in Retryable
    /\ child' = [child EXCEPT ![b] = [h \in Hash |-> IF h \in S THEN "new" ELSE "none"]]
    /\ UNCHANGED <<library, torrents, taskCategory, expired, leftovers, classifier, sync>>

\* execute() and ingest() with auto_download start the batch with no precheck.
AutoDownload(f, b) ==
    /\ AllWritten(f)
    /\ f \in auto
    /\ Unused(b)
    /\ child' = [child EXCEPT ![b] =
                   [h \in Hash |-> IF flow[f][h] = "written" THEN "new" ELSE "none"]]
    /\ flow' = [flow EXCEPT ![f] = [h \in Hash |-> "none"]]
    /\ auto' = auto \ {f}
    /\ UNCHANGED <<library, torrents, taskCategory, expired, leftovers, editing,
                   stranded, sync, events>>

\* Some task has still to answer for h.
Owned(h) == \E b \in Batch : child[b][h] \in Answerable

\* Moves the task of h in batch b.
Step(b, h, p) == child' = [child EXCEPT ![b][h] = p]

\* The task reads its row; what it read is used until the end.
ReadRow(b, h) ==
    /\ child[b][h] = "new"
    /\ Step(b, h, IF status[h] = "absent" THEN "done"
                  ELSE IF category[h] = NoCategory THEN "nocat"
                  ELSE "ready")
    /\ taskCategory' = [taskCategory EXCEPT ![b][h] = category[h]]
    /\ UNCHANGED <<library, torrents, expired, leftovers, classifier, sync, events>>

\* The tasks of b that hold its semaphore.
InSlot(b) ==
    {h \in Hash : /\ child[b][h] \notin {"none", "new", "nocat", "ready", "done", "sweep"}
                  /\ taskCategory[b][h] # NoCategory}

Admit(b, h) ==
    /\ child[b][h] = "ready"
    /\ Cardinality(InSlot(b)) < Concurrency
    /\ Step(b, h, "admitted")
    /\ UNCHANGED <<library, torrents, taskCategory, expired, leftovers, classifier, sync, events>>

\* _submit_lock is one lock for the whole service.
LockFree == \A b \in Batch, h \in Hash : child[b][h] \notin {"locked", "marking"}

Lock(b, h) ==
    /\ child[b][h] = "admitted"
    /\ LockFree
    /\ Step(b, h, "locked")
    /\ UNCHANGED <<library, torrents, taskCategory, expired, leftovers, classifier, sync, events>>

\* submitting(): the read.
CheckRow(b, h) ==
    /\ child[b][h] = "locked"
    /\ Step(b, h, IF status[h] \in Retryable THEN "marking" ELSE "done")
    /\ UNCHANGED <<library, torrents, taskCategory, expired, leftovers, classifier, sync, events>>

\* submitting(): the write, not conditional on what was read.
MarkAdding(b, h) ==
    /\ child[b][h] = "marking"
    /\ Write(h, "adding")
    /\ Step(b, h, IF status[h] = "absent" THEN "done" ELSE "calling")
    /\ adrift' = adrift \ {h}
    /\ UNCHANGED <<category, torrents, taskCategory, expired, late, wire, classifier, sync, events>>

\* qBittorrent takes the magnet, or has it already ("already exists" is success).
QbAccepts(b, h, s) ==
    /\ child[b][h] = "calling"
    /\ qb' = [qb EXCEPT ![h] = IF @ = "gone" THEN s ELSE @]
    /\ held' = held \cup {h}
    /\ Step(b, h, "accepted")
    /\ UNCHANGED <<library, taskCategory, expired, leftovers, classifier, sync, events>>

\* Mutant: an answer is believed without asking qBittorrent for the torrent.
AddSucceeds_Unconfirmed(b, h) ==
    /\ child[b][h] \in {"calling", "accepted"}
    /\ Step(b, h, "ok")
    /\ UNCHANGED <<library, torrents, taskCategory, expired, leftovers, classifier, sync, events>>

\* add_magnet returns True: qBittorrent said 'Ok.' or counted the torrent among those
\* added, which is believed, or a lookup found it after a refusal or a lost answer.
AddSucceeds(b, h) ==
    /\ child[b][h] = "accepted"
    /\ Step(b, h, "ok")
    /\ UNCHANGED <<library, torrents, taskCategory, expired, leftovers, classifier, sync, events>>

\* add_magnet returns False or raises; qBittorrent may have the torrent all the same.
AddFails(b, h) ==
    /\ child[b][h] \in {"calling", "accepted"}
    /\ Step(b, h, "bad")
    /\ UNCHANGED <<library, torrents, taskCategory, expired, leftovers, classifier, sync, events>>

\* submitted(): the read ...
CheckAdding(b, h) ==
    /\ child[b][h] = "ok"
    /\ Step(b, h, IF status[h] = "adding" THEN "queueing" ELSE "done")
    /\ UNCHANGED <<library, torrents, taskCategory, expired, leftovers, classifier, sync, events>>

\* ... and the write.
MarkQueued(b, h) ==
    /\ child[b][h] = "queueing"
    /\ Write(h, "queued")
    /\ Step(b, h, "done")
    /\ UNCHANGED <<category, torrents, taskCategory, expired, leftovers, classifier, sync, events>>

\* DownloadTransitions.failed: the read ...
CheckFailed(b, h) ==
    /\ child[b][h] \in {"bad", "nocat"}
    /\ Step(b, h, IF status[h] \in {"absent", "success", "error"} THEN "done" ELSE "failing")
    /\ UNCHANGED <<library, torrents, taskCategory, expired, leftovers, classifier, sync, events>>

\* ... and the write.
MarkFailed(b, h) ==
    /\ child[b][h] = "failing"
    /\ Write(h, "error")
    /\ Step(b, h, "done")
    /\ UNCHANGED <<category, torrents, taskCategory, expired, leftovers, classifier, sync, events>>

\* The handler of b's timeout is between two rows.
Sweeping(b) == \A h \in Hash : child[b][h] \in {"none", "sweep", "done"}

\* A store call of the task raises before a failure is being recorded: it fails too.
TaskRaises(b, h) ==
    /\ StoreMayFail
    /\ Event
    /\ child[b][h] \in {"new", "locked", "marking", "ok", "queueing"}
    /\ Step(b, h, "bad")
    /\ UNCHANGED <<library, torrents, taskCategory, expired, leftovers, classifier, sync>>

\* It raises while the failure is recorded: logged, and the task ends.  (Without a
\* category failed() is called twice, and the two failures count as one here.)  In the
\* handler of a timeout nothing catches it, nor a read that raises there, and neither
\* this row nor those after it are seen to.
FailureLost(b, h) ==
    /\ StoreMayFail
    /\ Event
    /\ \/ child[b][h] \in {"bad", "nocat", "failing"}
       \/ Sweeping(b) /\ child[b][h] = "sweep"
    /\ child' = [child EXCEPT ![b] =
                   [g \in Hash |-> IF g = h \/ @[g] = "sweep" THEN "done" ELSE @[g]]]
    /\ adrift' = adrift \cup
                   {g \in Hash : status[g] = "adding" /\ Owned(g) /\ ~ Owned(g)'}
    /\ UNCHANGED <<library, torrents, taskCategory, expired, late, wire, classifier, sync>>

\* wait_for gives up: every task of the batch is cancelled where it stands.  A store
\* write already handed to a thread, and an add already sent, may still take effect.
Interrupted(b) ==
    LET writing(p, s) == {[hash |-> h, to |-> s] : h \in {g \in Hash : child[b][g] = p}}
    IN  writing("marking", "adding") \cup writing("queueing", "queued")
          \cup writing("failing", "error")

Unanswered(b) == {h \in Hash : child[b][h] = "calling"}

TimeOut(b) ==
    /\ b \notin expired
    /\ \E h \in Hash : child[b][h] \notin {"none", "done"}
    /\ child' = [child EXCEPT ![b] =
                   [h \in Hash |-> IF child[b][h] = "none" THEN "none" ELSE "sweep"]]
    /\ expired' = expired \cup {b}
    /\ \E L \in SUBSET Interrupted(b) :
          /\ OrphanedWrites \/ L = {}
          /\ late' = late \cup L
    /\ \E W \in SUBSET Unanswered(b) : wire' = wire \cup W
    /\ UNCHANGED <<library, torrents, taskCategory, adrift, classifier, sync, events>>

\* Mutant: the handler of the timeout forgets the rows whose add is in flight.
Sweep_PendingOnly(b, h) ==
    /\ child[b][h] = "sweep"
    /\ Sweeping(b)
    /\ Step(b, h, IF status[h] = "pending" THEN "bad" ELSE "done")
    /\ UNCHANGED <<library, torrents, taskCategory, expired, leftovers, classifier, sync, events>>

\* The handler of the timeout looks at every row of the batch, one after the other.
Sweep(b, h) ==
    /\ child[b][h] = "sweep"
    /\ Sweeping(b)
    /\ Step(b, h, IF status[h] \in {"pending", "adding"} THEN "bad" ELSE "done")
    /\ UNCHANGED <<library, torrents, taskCategory, expired, leftovers, classifier, sync, events>>

BatchEnds(b) ==
    /\ ~ Unused(b)
    /\ \A h \in Hash : child[b][h] \in {"none", "done"}
    /\ child' = [child EXCEPT ![b] = [h \in Hash |-> "none"]]
    /\ taskCategory' = [taskCategory EXCEPT ![b] = [h \in Hash |-> NoCategory]]
    /\ expired' = expired \ {b}
    /\ UNCHANGED <<library, torrents, leftovers, classifier, sync, events>>

\* A worker thread completes the write of a task that was cancelled: adding, perhaps,
\* after the sweep has recorded the failure and nobody looks at the row any more.
LateLands(w) ==
    /\ w \in late
    /\ Write(w.hash, w.to)
    /\ late' = late \ {w}
    /\ adrift' = IF w.to = "adding" /\ status[w.hash] # "absent" /\ ~ Owned(w.hash)
                 THEN adrift \cup {w.hash} ELSE adrift
    /\ UNCHANGED <<category, torrents, child, taskCategory, expired, wire, classifier, sync, events>>

\* qBittorrent receives an add nobody waits for any more, or never does.
WireDelivers(h, s) ==
    /\ h \in wire
    /\ wire' = wire \ {h}
    /\ qb' = [qb EXCEPT ![h] = IF @ = "gone" THEN s ELSE @]
    /\ held' = held \cup {h}
    /\ UNCHANGED <<library, child, taskCategory, expired, late, adrift, classifier, sync, events>>

WireLoses(h) ==
    /\ h \in wire
    /\ wire' = wire \ {h}
    /\ UNCHANGED <<library, torrents, child, taskCategory, expired, late, adrift, classifier, sync, events>>

-----------------------------------------------------------------------------
(***************************************************************************)
(* The sync loop.                                                          *)
(***************************************************************************)

Live == {h \in Hash : qb[h] # "gone"}

\* poll_torrent_snapshot_with_removed.  A full answer (rid lost, qBittorrent
\* restarted) replaces the cache and lists no removals.
Poll(full) ==
    /\ round = "idle"
    /\ round' = "polled"
    /\ snap' = [h \in Hash |-> IF h \in Live THEN qb[h]
                               ELSE IF h \in known /\ ~full THEN "removed"
                               ELSE "gone"]
    /\ known' = Live
    /\ UNCHANGED <<plan, library, torrents, downloads, classifier, events>>

\* reconcile_snapshot: what is written to a row that was listed with status s.
Reconciled(h, s) ==
    IF s \notin SyncActive \/ snap[h] = "gone" THEN "keep"
    ELSE IF snap[h] = "removed" THEN "error"
    ELSE IF s = snap[h] THEN "keep"
    ELSE snap[h]

\* store.list: the rows the round will reconcile are fixed here.
List ==
    /\ round = "polled"
    /\ round' = "listed"
    /\ plan' = [h \in Hash |-> Reconciled(h, status[h])]
    /\ UNCHANGED <<known, snap, library, torrents, downloads, classifier, events>>

\* status_changed or removed: the write, from what was listed.
Reconcile(h) ==
    /\ round = "listed"
    /\ plan[h] # "keep"
    /\ Write(h, plan[h])
    /\ plan' = [plan EXCEPT ![h] = "keep"]
    /\ UNCHANGED <<category, known, round, snap, torrents, downloads, classifier, events>>

\* The write raises: logged, and the round goes on with the next row.
ReconcileFails(h) ==
    /\ StoreMayFail
    /\ Event
    /\ round = "listed"
    /\ plan[h] # "keep"
    /\ plan' = [plan EXCEPT ![h] = "keep"]
    /\ UNCHANGED <<known, round, snap, library, torrents, downloads, classifier>>

RoundEnds ==
    /\ round = "listed"
    /\ \A h \in Hash : plan[h] = "keep"
    /\ NoRound
    /\ UNCHANGED <<known, library, torrents, downloads, classifier, events>>

\* store.list raises, or the 60 s limit cuts the round: what was polled is dropped,
\* except for a write already handed to a thread.
RoundAborts ==
    /\ Event
    /\ round # "idle"
    /\ NoRound
    /\ \/ UNCHANGED late
       \/ /\ OrphanedWrites
          /\ \E h \in Hash : plan[h] # "keep" /\ late' = late \cup {[hash |-> h, to |-> plan[h]]}
    /\ UNCHANGED <<known, library, torrents, child, taskCategory, expired, wire, adrift, classifier>>

-----------------------------------------------------------------------------
(***************************************************************************)
(* The user, qBittorrent, and restarts of the service.                     *)
(***************************************************************************)

\* DiscoveryTransitions.removed for one row, cleared for all.
Remove(S) ==
    /\ Event
    /\ \E h \in S : status[h] # "absent"
    /\ status' = [h \in Hash |-> IF h \in S THEN "absent" ELSE status[h]]
    /\ category' = [h \in Hash |-> IF h \in S THEN NoCategory ELSE category[h]]
    /\ UNCHANGED <<torrents, downloads, classifier, sync>>

\* A torrent changes state in qBittorrent, is added there by hand, or deleted.
QbMoves(h, s) ==
    /\ Event
    /\ qb[h] # s
    /\ qb' = [qb EXCEPT ![h] = s]
    /\ held' = held \cup {h}
    /\ UNCHANGED <<library, downloads, classifier, sync>>

QbDeletes(h) ==
    /\ Event
    /\ qb[h] # "gone"
    /\ qb' = [qb EXCEPT ![h] = "gone"]
    /\ UNCHANGED <<held, library, downloads, classifier, sync>>

\* Mutant: nothing is recovered at startup.
Recovered_Not(S) == status

\* recover_interrupted, at startup, once it has come to the rows in S.
Recovered(S) ==
    [h \in Hash |-> IF h \in S /\ status[h] = "adding" THEN "error" ELSE status[h]]

\* The process ends anywhere (crash, kill, shutdown, which cancels every task) and
\* starts again: rows are as stored, recover_interrupted runs before anybody else.  It
\* comes to every row unless the store raises, which is logged and forgotten (or there are
\* more than RECOVER_LIMIT, which counts as such a failure here).
Restart ==
    /\ Event
    /\ \E S \in SUBSET Hash :
          /\ StoreMayFail \/ S = Hash
          /\ status' = Recovered(S)
          /\ adrift' = {h \in Hash \ S : status[h] = "adding"}
    /\ \E W \in SUBSET UNION {Unanswered(b) : b \in Batch} : wire' = wire \cup W
    /\ child' = [b \in Batch |-> [h \in Hash |-> "none"]]
    /\ taskCategory' = [b \in Batch |-> [h \in Hash |-> NoCategory]]
    /\ expired' = {}
    /\ late' = {}
    /\ flow' = [f \in Flow |-> [h \in Hash |-> "none"]]
    /\ auto' = {}
    /\ editing' = {}
    /\ stranded' = stranded \cup {h \in Hash : status[h] = "classifying"}
    /\ known' = {}
    /\ NoRound
    /\ UNCHANGED <<category, torrents>>

-----------------------------------------------------------------------------
ChildStep(b, h) ==
    \/ ReadRow(b, h) \/ Admit(b, h) \/ Lock(b, h) \/ CheckRow(b, h) \/ MarkAdding(b, h)
    \/ \E s \in Mapped : QbAccepts(b, h, s)
    \/ AddSucceeds(b, h) \/ AddFails(b, h) \/ CheckAdding(b, h) \/ MarkQueued(b, h)
    \/ CheckFailed(b, h) \/ MarkFailed(b, h) \/ TaskRaises(b, h)
    \/ FailureLost(b, h) \/ Sweep(b, h)

BatchStep(b) ==
    \/ \E h \in Hash : ChildStep(b, h)
    \/ \E S \in SUBSET Hash : Download(b, S)
    \/ TimeOut(b) \/ BatchEnds(b)

FlowStep(f) ==
    \/ \E a \in BOOLEAN : Gather(f, a)
    \/ ClassifierAnswers(f) \/ ClassifierRaises(f) \/ RollBackAborts(f) \/ FlowEnds(f)
    \/ \E b \in Batch : AutoDownload(f, b)
    \/ \E S \in SUBSET Hash : Reclassify(f, S)
    \/ \E h \in Hash :
          \/ Found(f, h) \/ Started(f, h) \/ StartedFails(f, h)
          \/ ClassifyOneFails(f, h) \/ ClassifyOneBreaks(f, h)
          \/ ClassifiedRaises(f, h) \/ BotchedBack(f, h) \/ BotchedLost(f, h)
          \/ RollBack(f, h) \/ RollBackFails(f, h)
          \/ \E c \in Category : Classified(f, h, c)

SyncStep ==
    \/ \E full \in BOOLEAN : Poll(full)
    \/ List \/ RoundEnds \/ RoundAborts
    \/ \E h \in Hash : Reconcile(h) \/ ReconcileFails(h)

OutsideStep ==
    \/ \E h \in Hash :
          \/ StartEdit(h) \/ QbDeletes(h) \/ WireLoses(h)
          \/ \E c \in Category : FinishEdit(h, c)
          \/ \E s \in Mapped : QbMoves(h, s) \/ WireDelivers(h, s)
    \/ \E w \in LateWrite : LateLands(w)
    \/ \E S \in SUBSET Hash : Remove(S)
    \/ Restart

Next ==
    \/ \E b \in Batch : BatchStep(b)
    \/ \E f \in Flow : FlowStep(f)
    \/ SyncStep
    \/ OutsideStep

Spec == Init /\ [][Next]_vars

(***************************************************************************)
(* Fairness.  A coroutine that can go on does, so do the timer of a batch,  *)
(* a crawl, and the sync loop, which survives every exception of a round.   *)
(* Nothing is assumed of users, of qBittorrent (an add may never be         *)
(* answered), of faults and restarts.                                      *)
(***************************************************************************)
TaskMoves(b, h) ==
    \/ ReadRow(b, h) \/ Admit(b, h) \/ Lock(b, h) \/ CheckRow(b, h) \/ MarkAdding(b, h)
    \/ CheckAdding(b, h) \/ MarkQueued(b, h) \/ CheckFailed(b, h) \/ MarkFailed(b, h)
    \/ Sweep(b, h)

RowMoves(f, h) ==
    \/ Started(f, h) \/ BotchedBack(f, h) \/ RollBack(f, h)
    \/ \E c \in Category : Classified(f, h, c)

FlowMoves(f) ==
    \/ \E a \in BOOLEAN : Gather(f, a)
    \/ ClassifierAnswers(f) \/ FlowEnds(f)
    \/ \E b \in Batch : AutoDownload(f, b)

Fairness ==
    /\ \A b \in Batch, h \in Hash : WF_vars(TaskMoves(b, h))
    /\ \A b \in Batch : WF_vars(TimeOut(b)) /\ WF_vars(BatchEnds(b))
    /\ \A f \in Flow, h \in Hash : WF_vars(RowMoves(f, h))
    /\ \A f \in Flow : WF_vars(FlowMoves(f))
    /\ WF_vars(\E full \in BOOLEAN : Poll(full)) /\ WF_vars(List) /\ WF_vars(RoundEnds)
    /\ \A h \in Hash : WF_vars(Reconcile(h))

FairSpec == Spec /\ Fairness

-----------------------------------------------------------------------------
(***************************************************************************)
(* What must be true.                                                      *)
(***************************************************************************)

\* A status that says qBittorrent has the torrent is shown only for a hash that
\* qBittorrent has held at some time: neither an answer that was not confirmed nor a
\* stale round nor an orphaned write of a dead task may claim it (submitted(),
\* status_changed()).
ShownOnlyIfHeld ==
    \A h \in Hash : status[h] \in {"queued", "downloading", "paused", "success"} => h \in held

\* A row in classifying is in the hands of a flow that will take it out again, whatever
\* was deleted, found again, reclassified or edited meanwhile.  A fault strands one in
\* exactly these ways: a restart, a rollback the store refuses (_rollback_unclassified),
\* a classified() and the failed() after it that both raise (_stream_classify), and a
\* classified() that raises after started() in _classify_one, where nothing gives the
\* row back.  A stranded row that is claimed anew is as good as any other.
ClassifyingIsOwned ==
    \A h \in Hash : status[h] = "classifying" =>
        \/ \E f \in Flow : flow[f][h] \in InHands
        \/ h \in stranded

\* A row in adding has a task that will still change it, although sync rounds, deletions,
\* other batches and late writes write the same row.  A fault sets one adrift in exactly
\* these ways: a cancelled task's write of adding lands when everybody is done with the
\* row, the store raises while the failure is recorded, or at startup before the
\* recovery has come to the row (AsyncItemStore._invoke, _download_items,
\* recover_interrupted).
AddingIsOwned == \A h \in Hash : status[h] = "adding" => Owned(h) \/ h \in adrift

\* No row stays in adding but one that is adrift: the answer, the timeout of the batch, a
\* sync round or the recovery at startup takes it out, even if qBittorrent never answers
\* and the store fails now and then.
AddingEnds ==
    \A h \in Hash : (status[h] = "adding") ~> (status[h] # "adding" \/ h \in adrift)

\* The statuses that claim something about a torrent and may still change.
Unsettled == {"adding", "queued", "downloading", "paused", "error"}

\* Once a torrent's state stays the same, so does what the library shows of it: rounds
\* that worked from a stale list, failures recorded late and restarts are all repaired
\* (_SYNC_ACTIVE_STATUSES: a row in error heals in the next round).
TorrentShown ==
    \A h \in Hash, s \in Mapped :
        <>[](qb[h] = s) => <>[](status[h] \in Unsettled => status[h] = s)

\* What the library promises about the status it shows.
Contract == INSTANCE LibraryContract WITH Hash <- Hash, status <- status, held <- held

\* The service keeps the promise: every step of it is a step of the contract.
ImplementsContract == Contract!LibSpec

=============================================================================
