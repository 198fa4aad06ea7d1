# Magnet Harvester: TLA+ specifications

This directory holds formal specifications of Magnet Harvester (the Python
service under `src/magnet_harvester/`, the Mac agent under `src/mac_agent/` and the
web page under `src/static/`), the TLC configurations that model-check them, and
theorems about them checked by TLAPS. Line numbers refer to the repository the
specifications were written from. `PROJECT.json` is the index: which definition
models which lines, which property guards against which hazard, which mutation of
the code each property catches.

## 1. The system

The service collects magnet links, classifies them, hands them to qBittorrent and
shows their progress. It is one asyncio process; its state is an SQLite database,
a few in-memory tables, and whatever qBittorrent holds.

```
 Mac agent --HTTP--> IngestService --> crawl jobs --> MagnetCrawler   --> DiscoveryTransitions
 web page  --HTTP--> UserActionExecutor --> HarvestPipeline  -------> ClassificationTransitions --> ItemStore
                     QBitSyncLoop (timer) --------------------------->  DownloadTransitions                |
                                |                                              |                        events
                                v                                              v                           |
                            QBitClient  <--------------- add_magnet -----------+            MessageBus -> WebSocket -> page
                                | HTTP
                            qBittorrent
```

| Component | State | Operations | Interacts with | What makes it hard | What makes it correct |
|---|---|---|---|---|---|
| Item transitions (`transitions.py`) | `_submit_lock`; the rows are in the store | `found`, `started`, `classified`, `failed`, `manually_classified`, `submitting`, `submitted`, `failed`, `status_changed`, `removed`, `cleared`, `recover_interrupted` | the only writer of the store; emits events | each store call is awaited: read-check-write is not atomic, except where `update_if_status` compares in SQL | the status shown has a reason in qBittorrent; no row stays in a transient status |
| Harvest pipeline (`pipeline.py`) | background tasks, a semaphore per batch | `ingest`, `execute`, `reclassify`, `classify_and_download`, `_download_items`, timeout and sweep | crawler, classifier, transitions, client | cancellation in the middle of a write or of a request; batches of the same rows at once | every row in `adding` or `classifying` has somebody who will take it out |
| Download sync (`services/qbit_sync.py`) | task, backoff, fingerprints | poll, list, reconcile, write | client, store, transitions | works from a snapshot and a list that are old when it writes | what is shown becomes what qBittorrent says |
| User actions (`services/user_actions.py`) | none | download, reclassify, set category, delete, clear | pipeline, transitions | its prechecks are stale when the work starts | as for the pipeline |
| Item store (`store.py`) | the `items` table, one connection, a worker thread per call | add, update, `update_if_status`, remove, clear, list, counts | everybody | a cancelled caller does not stop the thread | conditional updates compare and write at once |
| Crawl jobs (`jobs.py`, `services/ingest.py`) | the `crawl_jobs` table, `_running`, a semaphore | submit, retry, start, run, finish, resume, shutdown, prune | crawler, transitions, classifier, bus | requests and the task of a previous run meet in `_emit_job`; restarts; retention | a row that says queued or running has one task, a finished one stays finished, resumption is bounded |
| Event ingestion (`services/ingest.py`) | the `ingest_events` table, a lock per event id | `handle_event` | jobs, store, Mac agent | retransmission, crash between effect and record, bounded table of locks | an event takes effect once and is always answered the same |
| qB snapshot (`qbit_client/sync_state.py`) | `rid`, cached torrents | poll, apply delta, compensate | transport | deltas, full updates, a failing compensating fetch | the cache is what qBittorrent said at `rid` |
| qB submission (`submitter.py`, `client.py`, `paths.py`) | a lock per category | `add_magnet`, `ensure_category` | transport | an answer that is lost, then confirmed by a lookup; lock table at its limit | one creation of a category; True only if qBittorrent said so or shows the torrent |
| qB transport (`_transport.py`) | session, login lock | request with retry, login | qBittorrent | concurrent 403s and logins | one login per lapse of the session |
| qB hot swap (`context/app_context.py`) | the current client and every reference to it | replace with validation, commit, rollback | pipeline, sync, observability, config | cancellation, timeout and exceptions at each step | all components use the same open client, the stored configuration is that client's |
| Bus and WebSocket (`bus.py`, `api/websocket.py`) | handlers, clients, buffered events | emit, deliver, connect, initialise, broadcast | every emitter, the page | a snapshot read in pages while events arrive; concurrent delivery | the page converges to the store |
| Web page (`static/item_state.js`, `app.js`) | items, version table | apply event, load | WebSocket, HTTP | events out of order | an older version never replaces a newer one |
| Classifier (`classifier/`) | rules, a bounded cache | classify, batch, reload | pipeline | a reload while a thread classifies | a cached answer is the one of the current rules |
| Crawler (`crawler.py`, `site_walker.py`) | a session task, a bounded queue, the walker's levels and the pages it has asked for | crawl, walk, rescue, time out, leave | jobs | a generator, its session and the fetches of a level run side by side, and each may end first | each magnet once, a true report, limits kept, nothing left running |
| Page fetching (`page_fetch.py`) | slots and times per host, one HTTP session, one browser | fetch, retry, escalate, close | walker | cancellation while a lock or a slot is held; several fetches open the session | one session and one browser in use, no worse page than HTTP gave, every fetch ends |
| Tasks and assembly (`bg_tasks.py`, `assembly.py`, `main.py`) | task registry | start, stop | all | the order of startup and shutdown | recovery before anybody else writes |
| Mac agent queue (`Core/AgentCore.swift`, `QueueStore.swift`) | the persistent queue, backoff | enqueue, flush, acknowledge | `/api/ingest` | lost answers, restarts, deduplication | nothing enqueued is lost; retransmission is harmless |
| Mac agent shell, HTTP API and authentication, queries and observability, configuration, deployment scripts | none that others depend on | | | | |

`PROJECT.json` `hazards` lists, per line, what can go wrong and is hard to reach with
a test, with the properties that would show it.

## 2. Plan

In order of importance. "Done" modules are described in section 3.

| # | Module | Subject | Status |
|---|---|---|---|
| 1 | `LibraryContract` | abstract: which changes of a status exist, what must hold of qBittorrent first | done |
| 2 | `ItemLifecycle` | every writer of a row: flows, batches, sync rounds, users, restarts; implements 1 | done |
| 3 | `ItemLifecycle_proofs` | types, ownership of `adding` and `classifying`, the claim about qBittorrent, refinement | done |
| 4 | `CrawlJobs` | the job table and its tasks | done |
| 5 | `CrawlJobs_proofs` | types, ownership, one task per job, bound on runs, final statuses | done |
| 6 | `QBitRuntime` | the hot swap: commit, rollback, cancellation and timeout at every await | done, proved |
| 7 | `EventLedger`, `EventDelivery` | abstract: what becomes of an event; Mac agent queue, lossy requests, `handle_event` with its locks and records; no entry lost, no effect twice | done, proved |
| 8 | `LiveView` | writers that announce, initialisation of a connection, buffered events, the page's version table and its refresh | done, proved |
| 9 | `TorrentMirror`, `QBitSnapshot` | abstract: a copy of qBittorrent's list; deltas, full answers, the fetch that completes a state | done, proved |
| 10 | `QBitSession` | login, 403, retries, cancellation, `ping`, `close` | done, proved |
| 11 | `QBitSubmission` | the base directory, the category and its locks, the add | done, proved |
| 12 | `CrawlStream`, `SiteCrawl` | abstract: what a crawl gives to its caller; generator, session, queue, walker | done, proved |
| 13 | `PageFetch` | slots, limiter, retries, browser, shared session | done, proved |
| 14 | `LocalClassifier` | the cache against the reload of the rules | done, proved |
| 15 | `JobCrawl` | 12 and 14 composed under a job, with the bus | done, proved |

Composition. `JobCrawl` extends `SiteCrawl` and takes `LocalClassifier` by `INSTANCE`: one job, its
crawl, its thread and its announcements are checked together. `ItemLifecycle` takes the classifier, the
crawler and the client as nondeterministic answers: `QBitSnapshot` and `QBitSubmission` are what stands
behind its `Poll` and its add. `CrawlJobs` has many jobs and their table, `JobCrawl` the inside of one; they
meet in `Announced`, `Finish` and `End`. `EventDelivery` joins the agent with the service over a lossy request, `LiveView`
the transitions' announcements with the broadcaster and the page.

Refinements, each by `INSTANCE ... WITH` and a `PROPERTY` of a run: `ItemLifecycle` implements
`LibraryContract`, `EventDelivery` implements `EventLedger`, `QBitSnapshot` implements `TorrentMirror`, `SiteCrawl`
implements `CrawlStream`.

The plan is carried out. What it leaves out is in section 8.

## 3. Modules and code

### LibraryContract

What an observer of the library may rely on: `status[h]` and the history `held` of
the hashes qBittorrent has held. A row appears as `pending` and disappears; only
classification writes `classifying`, from `pending` or `error`, and gives the row back
as `pending`; `queued`, `downloading`, `paused` and `success` are shown only for a
torrent qBittorrent has held.

### ItemLifecycle

State:

| Variable | Code |
|---|---|
| `status`, `category` | the columns of the row; "absent" is no row |
| `qb`, `held` | the torrent in qBittorrent as `TorrentStatusMapper` reads it; whether it was ever there |
| `child[b][h]`, `taskCategory` | the program counter of `_download_single_item` for `h` in batch `b`, and the category it read |
| `expired` | the batch's `wait_for` has fired |
| `late`, `wire` | store writes and add requests whose task was cancelled and which still take effect |
| `adrift` | history: rows a fault left in `adding` with nobody to answer for them |
| `flow[f][h]`, `auto` | the program counter of a row in a classification flow; whether the flow goes on to download |
| `editing` | `manually_classified` between its read and its write |
| `known`, `round`, `snap`, `plan` | the client's cached hashes; where the sync round stands; the snapshot it polled; what it decided to write |
| `stranded` | history: rows a fault left in `classifying` with no flow |

Every call of the store is one action, because `AsyncItemStore` runs it in a worker
thread and awaits it: `submitting()` is `CheckRow` then `MarkAdding` (under
`_submit_lock`, taken by `Lock`), `submitted()` is `CheckAdding` then `MarkQueued`,
`failed()` is `CheckFailed` then `MarkFailed`. `add_magnet` is `QbAccepts` (the torrent
is there), then `AddSucceeds`; or `AddFails`, also after acceptance. The timeout of a
batch (`TimeOut`) cancels each task where it stands; writes already handed to a thread
and requests already sent may still take effect (`LateLands`, `WireDelivers`); then
`Sweep` looks at each row. A sync round is `Poll`, `List`, one `Reconcile` per row that
differs, `RoundEnds`; it may be cut anywhere (`RoundAborts`).

A classification flow claims its rows (`Started`, or `StartedFails`: the exception is logged and the flow goes on), waits for the
classifier, writes each answer (`Classified`) and, for those whose write raised (`ClassifiedRaises`), calls `failed()` once all have
returned (`BotchedBack`). If that raises too, nothing catches it and the rows behind it are not seen to (`BotchedLost`). When the classifier
raises, `_rollback_unclassified` reads each row and gives it back (`RollBack`): a failing write is logged (`RollBackFails`), a failing
read ends the rollback (`RollBackAborts`). In a crawl job, `_classify_one` has no handler around `started()` and `classified()`
(`ClassifyOneBreaks`). With a restart these are the ways into `stranded`: `recover_interrupted` looks at `adding` only, so
deleting such a row is all that helps. The ways into `adrift` are a write of `adding` that lands when its batch is over
(`LateLands`), a store that raises while a failure is recorded (`FailureLost`; in the handler of a timeout that ends the sweep for the
rows after it as well), and one that raises before the recovery has come to the row (`Restart`).

Abstractions: hashes, categories, batches and flows are members of small sets. The
crawl is `Found`. Emitting an event changes no row and is left out; so is a failing
emission after the write of `queued`. A restart is one step: the recovery runs before
any other task. The limits on the rows recovered (1000) and listed (50000) are above
any instance. When a row had no category, `failed()` is called twice; two store
failures in a row then count as one. A store failure in the part of
`_download_single_item` that no `try` covers goes straight to the recording of the
failure, as `_download_items` does for exceptions that `gather` returns.

### CrawlJobs

| Variable | Code |
|---|---|
| `status`, `attempts`, `url` | columns of `crawl_jobs` |
| `aged` | created before `QUEUED_RETENTION_DAYS` |
| `request[j]` | `ingest_url` or `retry_job` between the write of the row and `start_job`, in `_emit_job` |
| `task[t]` | the program counter of a `_run_job` coroutine |
| `running[j]` | the entry in `IngestService._running` |
| `runs`, `lost` | history: runs since the user last asked; jobs whose start was refused or whose row could not be written |

The job store is synchronous, so what lies between two awaits is one action; the
awaits are the semaphore, the crawl and `_emit_job`. Progress counters, the message,
`finished_at` and what the crawl finds are left out here: no decision of the table depends on them. `JobCrawl` has
the body of a job.

### QBitRuntime

| Variable | Code |
|---|---|
| `used[d]` | the client in each field of `QBitReplacementTarget` |
| `created`, `closed` | the clients built, those whose transport is closed |
| `file`, `live` | whose configuration the file and `Settings` hold |
| `holder`, `step`, `new`, `old`, `outcome` | `transaction_lock` and the transaction under it |
| `req[r]` | a `PUT /api/config`: waiting, running, or its answer |
| `stuck`, `severed`, `orphaned` | history: components whose rollback failed, clients closed after a cancelled commit, clients nobody could close |

A client stands for its configuration. One action is what runs between two awaits:
the ping, the start of the commit (`wait_for` runs it in a task, which may be
cancelled before it begins), the lock of the sync loop in the commit and in the
rollback, the closing of either client. At each await the request may be cancelled;
the commit may also time out, and each component may refuse what it is given. `Refuse`
is a configuration that cannot be built. `replace_qbit`, which only tests call, is not
modelled.

### EventLedger

What agent and service promise together about the events, as one clerk would keep a book of them: what the agent
keeps (`val`, `kept`), what was in the stores (`taken`), what was created for an event (`made`) and its first
answer (`record`). An entry is let go of when its value was taken or is one to refuse (`Settle`); a row or a job is
created at most once, before the record (`Create`); the record is written once and names a value that is there or
refused (`Answer`). Two things break the rule and are named: a restart of the agent with an old file (`Reload`), and a
handler that was cut off (`CutOff`). There are no requests, locks or timeouts: `EventDelivery` implements it with `kept <- queue`
and the other variables as they are.

### EventDelivery

| Variable | Code |
|---|---|
| `queue`, `disk` | `QueueStore.entries` in memory and in `state.json` |
| `val[e]` | the value of an entry |
| `delayed`, `online`, `sending` | `nextAttemptAt` in the future, `state.online`, `inFlightSend` |
| `phase[r]`, `ev`, `body`, `reply` | a request: on its way, in `handle_event`, answered or broken |
| `lockOf`, `holder`, `lock` | `_event_locks`, who holds a lock, the lock a request holds or waits for |
| `library`, `active`, `record` | infohashes in the store, addresses with an active job, `ingest_events` |
| `made`, `taken`, `cut`, `forgotten` | history: effects per event, values that were there, events with a handler cut off, entries lost by a failed save |

The agent changes its state on one dispatch queue, so each handler is one action, with
its `save` at the end (the file is replaced as a whole, or stays as it was). The service's
actions lie between two awaits: `Arrive` is `_event_lock` and the acquisition of the lock,
`Wake` its late acquisition by a waiter; `Handle` runs to the first await of
`_handle_event_once`; `Lookup`, `Insert`, `Complete` and `Respond` are the rest. The release
of a lock and the run of the waiter are two steps, as in asyncio: in between the lock is
not locked. The network may lose a request or an answer; a timed-out request may still be
at work while the agent sends the event again.

Abstractions: a magnet is its infohash. Which entry of a full table is evicted is
chosen freely among those that may be (the code takes the oldest); with one entry the choice
is exact. Waiters may wake in any order. The agent's deduplication window only decides that a
captured value is ignored, and any capture may be. The agent drops an entry at any 400, 404 or 422; here only a value to refuse is
answered so (`Invalid`). The pause switch and the pruning of
`ingest_events` beyond 5000 rows are left out. A crawl is `JobEnds`; `CrawlJobs` has the rest.

### LiveView

| Variable | Code |
|---|---|
| `ver`, `born`, `clock` | `updated_at` and `created_at` of each row; the time |
| `job[w]` | a coroutine in a transition: its row, the events it still has to build, the event it has built and not yet emitted |
| `link` | `send_init_from_store` and `_finish_initialization`: the offset, the rows delivered, the buffer, the batch being sent; `_active_ws` is `open` |
| `frames` | what is on its way to the page |
| `shown[h]` | the page's item (`row`), its status (`status`) and its entry in `seenAt` (`seen`) |
| `load`, `due`, `greeted`, `wiping` | the `loadItems` that counts, the scheduled refresh, `wsWasConnected`, the page's own DELETE and who serves it |
| `intact`, `holes`, `had` | history: no delivered row was deleted since the reading began; which races have happened; the rows in the store since the load began |

A writer changes the row (`Insert`, `Change`, `Remove`, `Clear`), then reads it again for
each event (`Fetch`) and emits it (`Announce`): three awaits in which others act. The
broadcaster reads a page and sends it (`ReadPage`), then empties its buffer (`TakeBatch`,
`SendBatched`, `Activate`). The page applies frames (`Receive`, `Apply`) and loads the list
page by page (`StartLoad`, `ServeLoad`, `ReceiveLoad`).

The content of a row is its version, so that "the page shows the row" is an equation; the
partial events `classify_done` and `download_result` change the status only and carry a version
of their own (`Patch`). The page knows a version to the millisecond: `Ms` is a constant of the module, any
monotone map of time stamps.

Abstractions. One page is modelled, since the broadcaster keeps connections apart. Events go to the
broadcaster in the order of `emit`: the bus starts a delivery at each `emit`, and the broadcaster
takes the event before its first await. The bus's limits (32 deliveries, five seconds) are left out: the
broadcaster gives a send three seconds at most, so it stays below the second, and the first only
delays. The browser's clock agrees with the server's. A writer cancelled between write and event, and
a page that is reloaded, are not modelled.

### TorrentMirror and QBitSnapshot

| Variable | Code |
|---|---|
| `qb` | qBittorrent's torrents: a state and the rest of the fields |
| `sent`, `accepted`, `counter` | qBittorrent's side of `sync/maindata`: its last answer, the last one confirmed, the next rid |
| `snapshot`, `rid`, `pending` | `_torrent_snapshot`, `_maindata_rid`, `_state_pending` |
| `phase`, `removed` | where `poll()` stands and its local |
| `believed`, `excused`, `asked`, `unanswered` | history: what the caller has been shown, torrents that left without being reported, full fetches made for a missing state, those of them that raised |

A fetch is one step: a change of a torrent while the answer is on its way cannot be told from one after it
arrived. qBittorrent patches relative to the answer the client confirms and sends everything to a rid it does
not know; it does not use a rid twice, and its answers are well-formed. A full fetch that raises is counted
(`unanswered`), since it leaves no trace in `_state_pending` and the next poll makes it again. `TorrentMirror` says what the rest of
the service assumes: the copy is qBittorrent's list at one moment, but for a state that has not arrived.
`take_recently_removed`, which nothing calls, is left out.

### QBitSession

| Variable | Code |
|---|---|
| `pc[c]`, `kind[c]` | where a coroutine stands in `request`, `_login` or `ping`, and which of them it began |
| `attempt`, `authRetries`, `loginTry`, `force` | the loop variables and the argument of `_login` |
| `holder`, `authenticated`, `jar`, `client`, `closing` | `_auth_lock`, `_authenticated`, the cookie of the HTTP client, `_client`, `_closing` |
| `token[c]` | the cookie on its request |
| `answer`, `fresh`, `reason` | `_last_ping_result`, its age, `last_error` |
| `right` | whether qBittorrent wants the credentials of the configuration |

Each request, lock and pause is an await, at which the coroutine may be cancelled. A lapse of the session
makes the cookie stale at qBittorrent; 403 leads to a forced login unless somebody else has logged in meanwhile. The
counters of successes and failures are left out.

### QBitSubmission

| Variable | Code |
|---|---|
| `pc[a]`, `relative[a]`, `wanted[a]`, `attempt[a]` | an add in `add_magnet`, `get_base_save_path` or `ensure_category`; whether its path is relative, what it resolves to, the loop variable |
| `cached` | `_cached_default_path` |
| `table`, `made`, `lock`, `orphans` | `_category_locks`, its locks by generation, the one an add waits for or holds, and those evicted while somebody waited |
| `categories` | qBittorrent's categories and where they point |

A path is the base directory it lies under. Nobody deletes a category while adds run; users may move one. What
the answer to an add means for the row is the subject of `ItemLifecycle`.

### CrawlStream and SiteCrawl

`CrawlStream` is what `crawl()` gives to whoever reads it: each magnet once, errors as they happen, one report,
the last event, which counts what was given. After a timeout it may count more.

| Variable | Code |
|---|---|
| `reader`, `late` | where the generator `crawl()` stands; `timed_out_metrics` |
| `queue`, `at`, `out` | `events`; where `_run_crawl_session` stands; what it is to put |
| `found`, `errors`, `seen`, `page` | the metrics, the set of hashes, the page in hand |
| `walk`, `level`, `asked`, `running`, `todo`, `failed`, `good`, `browser` | `MagnetPageWalker.stream`: its stage, the level, `_seen`, fetches under way, `next_level`, failed and good pages of the level, `_browser_all` |
| `tries`, `told`, `complaints`, `report` | history: fetches per page, what the caller was given |

`Put` waits for room in the queue. A walker that breaks or is left behind keeps its fetches until the loop closes it (`Reap`).
A page answers at its own address; what a fetch comes to is decided when the walker takes it. The timeout
fires only when nothing is queued.

### PageFetch

| Variable | Code |
|---|---|
| `pc[f]`, `attempt[f]`, `last[f]`, `given[f]` | a fetch in `PageFetcher.fetch`, its HTTP attempts, what HTTP came to, what the caller gets |
| `http`, `half`, `browser` | whether `_http` and `_browser` are set; whether `_http_ctx` is a session whose opening was cut short |
| `sessions`, `browsers`, `cut` | what is really open; history: the openings cut short that left something open |

A page is the kind of what came; of what the caller is given it is kept whether it is content. The slot of a host, the limiter's lock and the two locks of the
openings are read off `pc`: who is inside holds them. An opening that raises or is cancelled leaves nothing, or something open
(`SessionCut`, `BrowserCut`): which of the two is up to the library that opens it. A session is entered in `_http_ctx` before it is opened, so
`close()` still finds it, unless the next opening has taken its place (`Enters`); a browser is entered only once it runs, so nobody finds
it. `close()` is called when no fetch runs, as the assembly does; with a fetch inside an opening, its session would outlive the closing.
The change of the event loop (`_loop_changed`), for tests, is left out.

### LocalClassifier and JobCrawl

| Variable | Code |
|---|---|
| `rules`, `clearing` | how often the rules were loaded; `reload_rules` between the rules and the cache |
| `cache`, `call` | `_cache`: by which rules each answer was made; what the worker thread computes |
| `run`, `left` | where `_run_job_inner` stands, and the subscribers of the event it waits for |
| `item`, `row` | the magnet in hand; status, reason, found and added of the row in `crawl_jobs` |
| `library[h]` | what the library has of a magnet; "other" is in somebody else's hands |
| `raced`, `inserted`, `excused` | history: names whose answer was under way at a reload; what this job added; what the user took out or the classifier raised at |

`Listen` is one step of the generator and what the job makes of it (`Hear`). A magnet is looked up
(`Look`), inserted (`Add`), classified in a thread (`Known`, or `Compute` and `Keep`), claimed (`Claim`), written (`Classify`)
and counted (`Counts`); between these awaits other flows insert, download or delete it. `_emit_job` waits for all subscribers
(`Handled`) or five seconds (`TimesOut`). An error has a reason, of which two are told apart: that a page has no magnet (`NoMagnet`), and
all others (`Error`). The row keeps the last one's (`Heard`), and shows it when the job ends without a magnet (`Reason`). A failing
library, or a crawler that fails to start, makes the job fail (`Raises`) and leaves the generator to the loop (`Leave`); a shutdown (`Cancel`) puts the row back to queued, while an insert already in a
thread may still take place. The events emitted inside `started` and `classified` are part of their steps: they change no row. Page
counts, times, the other reasons and the wording of errors are left out, so is the eviction from the cache; a job table that fails is in `CrawlJobs`.

## 4. Runs

| Run | Shows |
|---|---|
| `item_safety` | one row, two batches, two flows, every fault: `ShownOnlyIfHeld`, `ClassifyingIsOwned`, `AddingIsOwned`, and that the service implements `LibraryContract` |
| `item_liveness` | a batch and a flow, every fault: under fairness `AddingEnds`, `TorrentShown` |
| `jobs` | two jobs, one slot, retries, restarts, retention, store faults: `ActiveOwned`, `RunsBounded`, `FinishedStays`, `RunningEnds` |
| `jobs_queued` | violated: `QueuedRuns`, what the answers of `retry_job` say |
| `swap` | two swaps with faults and cancellations at every await: `Aligned`, `ServedByOpen`, `NothingLeaks`, `SettingsFollow`, `SwapEnds` |
| `delivery` | agent, network and service with losses, timeouts, faults and restarts of both: that they implement `EventLedger` (so that an event has one effect and one record), `NothingLost`, `AnswerTrue`, `Delivered` |
| `live` | two writers, a connection and a list load, one row per page: `Converged`, `SnapshotComplete` |
| `qb_snapshot` | two torrents, lost and failing answers, restarts of qBittorrent: `RemovalsTold`, `NoStorm`, and that the cache implements `TorrentMirror` |
| `qb_session` | two coroutines, lapses, faults, a changed password, cancellations, closing: `SentSigned`, `Recovers`, `RequestEnds` |
| `qb_submit` | three adds, two categories, a table of one lock: `BaseSettled`, `OneEditor`, `CategoryFirst` |
| `crawl` | a job, its crawl, its thread and the bus: `WalkBounded`, `NothingLost`, that the crawl implements `CrawlStream`, `CountsTrue`, `RowsClassified`, `CacheTrue`, `JobEnds` |
| `page` | three fetches of two hosts, an opening of each kind cut short: `OneOpen`, `NeverWorse`, and under fairness `FetchEnds` |

No run checks a type invariant: those of ten modules are theorems.

Bounds. `MaxEvents` (`MaxChanges` in `QBitSnapshot`) bounds what comes from outside (requests, torrents changing,
faults, restarts); steps of the service itself are not bounded. A row is found, given a
category and offered within one or two events, so three leave room for a fault, a
restart or a second writer in any phase: that is what each race here needs. Two batches
and two flows are the smallest number that may meet on a row; writes to different rows
meet only in the semaphore, the lock and the sweep; `AddingOwned` proves for any
number of rows what the run shows for one. `item_liveness` has one batch and one flow: with every fault on, that is what its time allows, and what
several batches do to a row is the subject of `AddingIsOwned`, which leaves a row in `adding` to somebody's next step or to `adrift`. Jobs: five events allow submit, retry, restart and ageing of one job with the other
waiting; `MaxAttempts = 1` reaches the limit with two restarts. Three task slots are one
more than the jobs need at a time, so that a second task for a job would find one (`SingleTask` is the theorem).
Swaps: three clients and two requests make the second swap start from what the first one
left, and wait for its lock; three events cut one transaction at its commit, its rollback and
its closing. Delivery: one captured and one posted event with two requests make every pair
meet (two of one event, two of different ones), and a table for one lock is full whenever they
do; three events leave room, after the capture, for two of loss, timeout, fault, deletion and
restart. Live view: three rows, one per page, make a
snapshot and a list of up to three pages; the store starts with any part of two of them, and the third sorts
before both, so that offsets shift. Three events are a connection, a load and a change, or a
connection and two changes that cross. `MCLiveView` does not follow states from which nothing is left to
check (no connection to come, or a race over and no snapshot being read): every property holds
there for good, because only a new connection could end it. `Converged` excludes the six races of `Holes`
by name; each is needed, since without it the run fails. `PageConverges` proves `Converged` for any number
of rows and events. `TwoPerMs` puts the second and third time stamps given after the
start into one millisecond, and the last one of the start and the first one after it into another.
Snapshot: five events among four polls leave room for a torrent that comes without its state, an answer
that is lost and a restart of qBittorrent. Session: two coroutines are one that logs in and one that finds out;
two events are a lapse and a fault, a cancellation or a new password. Submission: two adds share a
category and a third has another, so that a table of one lock must evict; with four adds one comes back after the eviction.
Crawl: a list of two pages is a level in which one fails and one does not, or both; one of the two leads to a
third page and to one more than may be followed, the other has two magnets and leads back to the root, so that a job ends with a magnet, with none because a page had none, or with
none because nothing came; a queue of two is full while the job is busy. Two events let a row
be taken and deleted, or the rules be reloaded twice. Pages: two fetches share the slot of a host and all three the session
and the browser; `MaxCut = 1` lets one opening of each kind leave something open, which another one then forgets. The theorems hold without these bounds.

`CHECK_DEADLOCK FALSE` everywhere but in `page`: with the bounded events used up and the work done, the
system rests. There a fetch can always begin.

Symmetry is used only in `item_safety` (batches and flows), `qb_snapshot` (torrents, values) and `qb_submit` (the two
adds of one category), which have no liveness property.

## 5. Fairness

A coroutine that can go on does so (the event loop runs every ready callback):
weak fairness for the steps of each task and flow, for the timer of each batch
(`asyncio.wait_for`), for the steps of the sync loop (its body catches every exception
of a round and waits at most its maximal backoff). Admission to the semaphore and the lock is
part of a task's fair steps: asyncio wakes waiters first in, first out. Crawls end: pages and
time per page are limited. Nothing is assumed of users, of qBittorrent (an add may
never be answered: `AddingEnds` then rests on the timeout), of faults and restarts.

For a swap: each await ends (a ping and a closing have timeouts, the sync loop's lock is waited for
under `wait_for`), and the lock is handed on in order, hence strong fairness for its acquisition.
Hanging in the rollback's wait for the same lock is a fault (`stuck`), not something fairness excludes.
For the delivery: the agent's timer runs every second, the service is weakly fair per
request, and strong fairness for `Send` of each entry says that a queue sorted by
`nextAttemptAt`, with one request at a time, serves every entry. Nothing is assumed of the network
except that its losses, like faults and restarts, are bounded; while the agent or the store never
gets to work, nothing is delivered.

For the session: a request on the wire is answered or times out, a pause ends, and the lock is handed on in
order (strong fairness for taking it). For the pages: every await ends, since each request, the browser's navigation
and the pauses have timeouts; the locks and slots are handed on in order. For a job and its crawl (`JobFairness`): only that
something of what is due in time happens, that is, the loop runs what is ready, timers fire, and calls of the library
and of the classifier end; nothing says that a fetch comes back, a page is searched to its end, or a
subscriber returns.


## 6. Proofs

`ItemLifecycle_proofs` (from `SlotsAssumption` only, for any sets and limits):

- `TypeCorrect`: `Spec => []TypeOK`.
- `AddingOwned`: `Spec => []AddingIsOwned`, with late writes, failing store calls and restarts. It is inductive as it stands
  (with `TypeOK`), because `adrift` names the rows these faults leave behind.
- `ClassifyingOwned`: `Spec => []ClassifyingIsOwned`, with the same faults. It is strengthened by `FlowStages`: a flow that still
  collects has no row beyond `found`, so the end of its crawl cannot drop a row it has claimed.
- `Implements`: `Spec => ImplementsContract`. Each action maps to a step of the contract or to
  a stutter, given the invariant `Evidence`: a task about to write `queued`, a round's
  snapshot and plan, and every late write of a status that is shown are already justified by `held`.
- `ShownHeld`: `[]ShownOnlyIfHeld`, from `Implements`, since the contract has it
  (`ContractShows`).

`CrawlJobs_proofs` (from `JobsAssumption`): `TypeCorrect`, `ActivesOwned`, `SingleTask`,
`BoundedRuns`, `FinalStays`. The inductive invariant `JobsInv` adds to the properties
that a task and its entry in `_running` point at each other, which status a row can have in each phase
of its task and each state of a request, that an unused job is fresh, and how
runs relate to attempts.

`Connections_proofs`, first part (`QBitRuntime`, from `SwapAssumption`): `TypeCorrect`, `AlwaysAligned`, `AlwaysServed`,
`NoLeak`, `SettingsMatch`. The four properties say nothing about the middle of a
transaction; the inductive invariant does: whom each component calls in each phase
(`Handed`), that the candidate is open until it is given up (`CandidateOpen`), which clients
are unaccounted for (`Accounted`), whose the settings are (`Settled`).

Second part (`PageFetch`, from `FetchAssumption`): `FetchTypeCorrect`, `OneIsOpen`, `NothingWorse`, `HostsSpared`, for any
fetches, hosts and limits. A session is opened, and a browser started, by one fetch at a time, and only while there is none in use (`OpensAlone`); what is open
besides is what openings that were cut short left, and `cut` counts them. A fetch at work has given nothing yet, and is only at the browser
after an address that was not admitted if HTTP was not tried first (`AtWork`); only its own step gives it something (`GivesOwn`), and that
step gives what HTTP got rather than a worse answer of the browser (`NothingWorse`, of each step).

`EventDelivery_proofs` (from `DeliveryAssumption`): `TypeCorrect`, `NeverLost`, `AtMostOnce`,
`AnswersTrue`, `RecordsKept`, `DeliveryImplementsLedger`, for any number of events, requests and locks and any size of the
table. The argument for `AtMostOnce`: as long as no handler of an event was cut off, who works on it
holds the very lock that the table has for it (`TableHolds`: a locked entry is not evicted), so nobody
else can work on it; an evicted lock can only be woken on by waiters who will find the record
(`FindsRecord`). Hence what was created is recorded or about to be (`Accounted`). Without "cut off" this
is false: see section 7. `NeverLost` rests on what answers and records say:
only a bad value is refused (`RefusedReply`), and accepted is only said of a value that was there (`TrueReply`).
`DeliveryImplementsLedger` needs all of it, and that a bad value never comes into a store (`GoodTaken`): `Handle`, `Insert` and `Lookup` are
`Create`, `Answer` or nothing, because the event has no record and nothing was created for it (`LedgerEnter`, `LedgerStep`); `Settled` is `Settle`
because the answer tells the truth about the value the entry has (`LedgerAgent`); everything else, but for captures, restarts and faults, the
ledger does not see (`Unseen`).

`LiveView_proofs` (from `LiveViewAssumption`): `TypeCorrect`, `SnapshotCorrect`, `PageConverges`. For `SnapshotCorrect`: the
reader compares two numbers, how many different rows it has sent and how many there are. They say what they should because, while no
delivered row is deleted, what was sent is a part of the store (`Sent`), and a part with as many
members as the whole is the whole. `TypeInv` adds that the clock moves only with counted events.

`PageConverges` is `Spec => []Converged`, for any rows, writers, page size, bounds and any monotone map `Ms` of time stamps to milliseconds.
`Converged` speaks of the one moment when all has arrived; the inductive invariant `ConvInv` says, at any moment and as long as no
race has happened, why it will be so:

- `Stream` is what is on its way to the page, in order: the frames sent, the part of the buffer being sent, and the buffer. The page
  refuses what is older than what it shows, and takes the rest, so of a row only the last frames matter. For a row at version
  `v`, a frame is `Decisive` if the page shows `v` after it, `Spoiling` if it may not show `v` although it did, `Ahead` if it makes the page refuse `v`.
  `Mended` says that whatever is amiss on the page, and whatever a frame on its way would put amiss, is followed by a frame that cures it.
  Its lemmas are about sequences only: what appending, inserting and taking the first frame do to it.
- `RowInv`: a row that is not there is waiting for the announcement of its removal, or mended to nothing (`Gone`). A row that is there is never
  overtaken for good (`Ranked`), and its version is owed by a writer who will read it again (`Owed`), on its way (`Streamed`), or
  in a part of the snapshot still to be read (`Expected`). The announcement moves it from the first to the second, the reading of a page from
  the third to the second. While a page is read its rows go before what the buffer has, so a snapshot may only help.
- What is read early and told late must not overtake: an event in a writer's hands and a row in a list that is being loaded are of the row's version
  or of an earlier millisecond (`HeldInv`, `LoadInv`). A removal in between is the race `ghost`, a second change in the millisecond `tied`.
- A list takes rows off the page. One of a single page has all rows but those stamped after the load began, which `reconcile` keeps. One of several pages
  has, with a row, all younger ones (`Closed`), because a page by age starts where the rows before it end; when it is as long as the total it is the
  whole store. This needs that no two rows were created at one time stamp (`Stamps`), also not by who has built an item and not yet added it.
- When nothing is on its way, nothing mends; so nothing is amiss (`QuietRow`).

`QBitClient_proofs`, first part (`QBitSnapshot`, from `SnapshotAssumption`): `SnapshotTypeCorrect`, `Implements`, `RemovalsAreTold`, `StormFree`, for any
torrents, values, faults and polls. What makes the cache a copy is an invariant about the other side: the rid
the client holds is that of an answer qBittorrent still remembers, or of none, and the snapshot is the
list sent under it; so a patch is only merged into the list it was made from. `StormFree` rests on `AskedInv`: a full fetch that
was answered is remembered in `pending` for as long as its state is missing, so only fetches that raise are made again.

Second part (`QBitSession`, from `SessionAssumption`): `TypeCorrect`, `LoginIsAlone`, `AlwaysSigned`, `Explained`, for any number of
coroutines and any limits. Who talks to the login endpoint holds the lock, and outside of it
`authenticated` means that the jar has the cookie of a login; a request is sent only in the step that has seen it.

`QBitSubmission_proofs` (from `SubmissionAssumption`): `TypeCorrect`, `OneAtWork`, `CategoryIsFirst`, `BaseIsOne`. Two adds in the
critical part of one category hold two of its locks; the older one left the table when somebody evicted it, which
only a lock with a waiter in transit allows (`orphans`).

`JobCrawl_proofs` (from `CrawlAssumption` and `JobCrawlAssumption`) is about a crawl and the job that reads it, for any site, any
limits of pages and depth, a queue of any size and any number of subscribers: `CrawlTypeCorrect`, `WalkIsBounded`, `NothingIsLost`,
`CrawlImplementsStream`, `CountsAreTrue`, `RowsAreClassified`, `CacheIsTrue`. `CrawlInvHolds` is proved for `Spec` of `SiteCrawl`, whoever
reads; `JobCrawls` shows that a job's crawl is such a crawl. The argument:

- Session, queue and caller are one sequence, `Pending == queue \o out`, the events to come: putting an event into the queue
  does not change it, the session only adds at its end, the caller is only given its first. `StreamInv` says of
  it that its magnets are new and, with those told, all that were seen; that the errors told and to come are those counted;
  that a report in it stands where nothing but the sentinel follows, and counts what will have been told by then. Hence
  each step is one of `CrawlStream` (`StreamStep`). It holds while somebody reads or the session runs (`Going`); after a
  cancellation events are thrown away, and nobody is told of them. After a timeout it is `LateInv` that bounds the report from below.
- The limit of the walker is on `asked`, which contains every page fetched (`WalkInv`). That a page is fetched again only if all
  of its level failed needs what each phase of the walk knows of the one before: in particular that a second level exists only if a page
  of the first came back.
- A page that is due and not searched is being fetched, being searched, or waits for its level (`LostInv`), unless an error was
  counted; when the report comes nothing is under way, so everything has been searched, and the sequence has been told to its end.
- The row counts by the place where the job stands (`JobInv`): what was told but for the magnet in hand, and what was inserted.
  `Shelved` follows each row through insert, claim and write, with whatever others may do to it between two of them.
- A job without a magnet says why. That it had errors or timed out is told before the report (`TimeoutTold`, `EndTold`); a session that found nothing
  and met no error has more to search (`QuietInv`), so a job that was told nothing has complaints; and an event or a row that says that a page
  had no magnet comes from a page that was fetched and is barren (`BarrenInv`, `RowBarren`).
- An answer under way is by the rules in force or by a name in `raced` (`Answering`).

Only model-checked: liveness under fairness (`AddingEnds`, `TorrentShown`, `RunningEnds`, `SwapEnds`, `Delivered`, `Recovers`,
`RequestEnds`, `FetchEnds`, `JobEnds`), which is out of reach of the prover; and the counterexample. Only proved, without a run:
`SingleTask` (no job has two tasks), `AtMostOnce` and `RecordsKept` (an event creates one thing and its record is not overwritten: `ImplementsLedger` says it too), `LoginIsAlone`, `Explained`, `HostsSpared` and the types.

## 7. Where code and documents differ

Shown by a run (`findings` in `PROJECT.json`):

- A retry during the last `_emit_job` of the previous run is refused by `start_job`, while the answer
  is "queued again"; the job waits for the next restart (`jobs_queued`).

Found while modelling:

- A write of `adding` runs in a thread that a cancellation does not stop (`store.py:169`), and may land after the sweep of its batch has
  recorded the failure: the row is in `adding` although nobody is adding it, which the docstring at `transitions.py:230` excludes. Unless
  qBittorrent has the torrent, only a restart takes it out. It is one of the rows in `adrift`.
- A browser whose `start()` raises or is cancelled is dropped without being closed (`page_fetch.py:241`), while
  `docs/specs/scrapling-crawler-migration.md:52` asks that it can be closed when a crawl is left early. A session cut short in its opening
  is overwritten by the next one in the same way (`page_fetch.py:231`). `OneOpen` counts both.
- A full fetch for a missing state that raises is made again at every poll: the hash is remembered only after the answer (`sync_state.py:77`),
  while the comment at `:45` says that no storm comes of a qBittorrent in trouble. `NoStorm` is what does hold.
- `failed()` can overwrite `success`: read and write are two awaited calls (`transitions.py:306` and `:313`), the
  comment at `:310` says that it does not.
- After a swap that was rolled back the file keeps the candidate's configuration: the old one is looked for in an
  attribute that `QBittorrentClient` does not have (`app_context.py:261`).
- With a full table of event locks, two handlers of one event may run side by side when a first one
  raised (`services/ingest.py:117`), against the comment at `:85`. The store's own uniqueness limits the harm: a
  second row is not created while the first is there, but the record may be overwritten.
- A refresh of a library with more than one page takes rows off the page that the server still has, when a
  row is added between two pages (`app.js:1592`; the comment at `item_state.js:87` expects otherwise).
- `_crawl_timeout` is called the limit of the whole round (`crawler.py:279`), but bounds the time
  between two events only: a crawl that keeps producing runs on (`Timeout`).
- After a timeout the `total` of the report counts magnets that were still in the queue and are never given to the caller (`Report`).
- `_classify_one` passes the message of a failed classification to `failed()`, which writes only rows in classifying; the row
  is still pending then, so the message is lost and the row stays unclassified (`ClassifierRaises`).
- A job stopped between insertion and classification finds its row as a duplicate when it is resumed, and does not classify it.
- `reload_rules` says that the cache is cleared first; the code clears it after the rules, which is the order that works
  (`Reload`, `Clear`). An answer under way in a thread is kept nevertheless, and served until the next reload (`raced`).
- The branches for 403, 429 and 503 as an HTTP error in `_retryable` and `_should_escalate` are not reached: these answers are
  classified as blocked before. The rate limiter counts from before the wait for the session's opening, and is not
  asked before the browser is used (`page_fetch.py:89`).

Limits that no document denies. Store calls that fail leave rows in `classifying` with no flow: in the rollback (`pipeline.py:337`
and `:340`), when `failed()` raises after `classified()` did (`pipeline.py:310-316`), or when `classified()` raises in `_classify_one`
(`ingest.py:540`). Nothing but deleting the row takes it out, also after a restart (`stranded` in `ItemLifecycle`). A swap cancelled while the old client is being closed ends with the new
client closed although every component calls it (`severed` in `QBitRuntime`); the next swap
repairs it. A connection whose send times out leaves `_active_ws` without being closed, and its pings are
still answered (`Drop` in `LiveView`). The races of `Holes`: above all, a removal forgets
the row's version, so an event read before it and delivered after it brings the row back until the next
load; and two changes of a row within a millisecond are the same version to the page.

Seen while reading: a row whose flow ended without a category stays `pending`, while `README.md:180` says
that it is classified automatically. `README.md` lists the item
statuses `classified` and `failed` (lines 181 and 185) and the job status `failed`
(line 155), which `models.TaskStatus` and `jobs.py` do not have.

## 8. Not modelled

Parsing of pages and names, the preparation of dynamic pages, and text matching of the rules: conversions of text without
state. The HTTP API as a translation layer; authentication; validation of addresses (a yes or no in `SiteCrawl`
and `PageFetch`); configuration and logging; queries, statistics and observability, on which nothing decides; the registry of background tasks,
which only shows them; the Mac agent's windows and installation; deployment scripts.

Left out of modelled parts, and named above: backoff and stop of the sync loop, limits far above any instance (50000
rows, 1000 recovered rows, 500 jobs, 5000 records, 1024 cached names), the in-memory store, the pause switch of the agent, a skew between
the clocks of browser and server, `replace_qbit`, `take_recently_removed` and `clear_cached_path`, which nothing in the service calls.

## 9. Running

```
tlc -config ItemSafety.cfg MCItemLifecycle.tla
tlapm ItemLifecycle_proofs.tla
```
