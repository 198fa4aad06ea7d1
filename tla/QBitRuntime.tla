----------------------------- MODULE QBitRuntime -----------------------------
(***************************************************************************)
(* The hot swap of the qBittorrent client (QBitRuntime,                     *)
(* context/app_context.py): a candidate is built and pinged, its            *)
(* configuration is stored, every component is given the new client, the    *)
(* old one is closed.  Each await may be cancelled; what has been handed     *)
(* over until then is taken back.                                          *)
(*                                                                         *)
(* What lies between two awaits is one action.  The awaits are the ping,    *)
(* the start of the commit (wait_for may run it in a task of its own), the  *)
(* lock of the sync loop, in the commit and in the rollback, and the        *)
(* closing of a client.                                                    *)
(***************************************************************************)
EXTENDS Naturals

CONSTANTS
    Client,            \* clients; each stands for its configuration, too
    First,             \* the client the service starts with
    NoClient,
    Request,           \* requests to replace the configuration (PUT /api/config)
    NoRequest,
    MaxEvents,         \* bound on cancellations and faults
    DependentsMayFail  \* TRUE: a component may refuse a client, or hang in its lock

ASSUME SwapAssumption ==
    /\ First \in Client
    /\ NoClient \notin Client
    /\ NoRequest \notin Request
    /\ MaxEvents \in Nat
    /\ DependentsMayFail \in BOOLEAN

VARIABLES
    used,              \* used[d]: the client that component d calls
    closed,            \* clients whose transport is closing or closed
    created,           \* clients that have been built
    file,              \* the client whose configuration the file holds
    live,              \* the client whose configuration Settings holds
    holder,            \* the request that holds transaction_lock
    step,              \* where its transaction stands
    new,               \* the candidate of the transaction
    old,               \* old_qbit of the transaction
    outcome,           \* what the transaction raises after its rollback
    req,               \* req[r]: where request r stands, at the end its answer
    stuck,             \* components the rollback could not restore (history)
    severed,           \* clients closed by a swap cancelled after its commit (history)
    orphaned,          \* clients whose closing was cancelled before it began (history)
    events             \* how many bounded events have happened

clients     == <<used, closed, created>>
config      == <<file, live>>
transaction == <<holder, step, new, old, outcome>>
history     == <<stuck, severed, orphaned>>
vars == <<clients, config, transaction, req, history, events>>

\* Who holds a client: the fields of QBitReplacementTarget.  The callback of the target
\* sets the field of the container in the same step as target.qbit.
Component == {"pipeline", "sync", "observability", "target"}

Answer == {"ok", "failed", "error", "cancelled"}

\* Where a transaction stands:
\*   ping     the candidate is being pinged
\*   commit   the configuration is stored, the commit has not begun
\*   sync     the pipeline has the new client, the sync loop's lock is awaited
\*   closing  everybody has the new client, the old one is being closed
\*   back     the pipeline is restored, the sync loop's lock is awaited again
\*   abandon  the candidate is being closed
Step == {"idle", "ping", "commit", "sync", "closing", "back", "abandon"}

TypeOK ==
    /\ used \in [Component -> Client]
    /\ closed \subseteq Client
    /\ created \subseteq Client
    /\ file \in Client
    /\ live \in Client
    /\ holder \in Request \cup {NoRequest}
    /\ step \in Step
    /\ new \in Client \cup {NoClient}
    /\ old \in Client \cup {NoClient}
    /\ outcome \in Answer
    /\ req \in [Request -> Answer \cup {"none", "waiting", "running"}]
    /\ stuck \subseteq Component
    /\ severed \subseteq Client
    /\ orphaned \subseteq Client
    /\ events \in 0..MaxEvents

Init ==
    /\ used = [d \in Component |-> First]
    /\ closed = {}
    /\ created = {First}
    /\ file = First
    /\ live = First
    /\ holder = NoRequest
    /\ step = "idle"
    /\ new = NoClient
    /\ old = NoClient
    /\ outcome = "error"
    /\ req = [r \in Request |-> "none"]
    /\ stuck = {}
    /\ severed = {}
    /\ orphaned = {}
    /\ events = 0

Event ==
    /\ events < MaxEvents
    /\ events' = events + 1

\* Mutant: the lock is not released.
End_KeepsLock(answer) ==
    /\ req' = [req EXCEPT ![holder] = answer]
    /\ step' = "idle"
    /\ new' = NoClient
    /\ old' = NoClient
    /\ UNCHANGED <<holder, outcome>>

\* The lock is released and the request answered.
End(answer) ==
    /\ req' = [req EXCEPT ![holder] = answer]
    /\ holder' = NoRequest
    /\ step' = "idle"
    /\ new' = NoClient
    /\ old' = NoClient
    /\ UNCHANGED outcome

Goes(s) ==
    /\ step' = s
    /\ UNCHANGED <<holder, new, old, req>>

-----------------------------------------------------------------------------
(***************************************************************************)
(* Validation.                                                             *)
(***************************************************************************)

Put(r) ==
    /\ req[r] = "none"
    /\ req' = [req EXCEPT ![r] = "waiting"]
    /\ UNCHANGED <<clients, config, transaction, history, events>>

\* The lock is taken and the candidate built.
Begin(r) ==
    /\ req[r] = "waiting"
    /\ holder = NoRequest
    /\ \E c \in Client \ created :
          /\ new' = c
          /\ created' = created \cup {c}
    /\ old' = used["target"]
    /\ holder' = r
    /\ step' = "ping"
    /\ req' = [req EXCEPT ![r] = "running"]
    /\ UNCHANGED <<used, closed, config, outcome, history, events>>

\* Cancelled while it waits for the lock.
WaitCancelled(r) ==
    /\ Event
    /\ req[r] = "waiting"
    /\ req' = [req EXCEPT ![r] = "cancelled"]
    /\ UNCHANGED <<clients, config, transaction, history>>

\* build_qbit_config refuses the values: nothing was touched.
Refuse(r) ==
    /\ req[r] = "waiting"
    /\ holder = NoRequest
    /\ req' = [req EXCEPT ![r] = "error"]
    /\ UNCHANGED <<clients, config, transaction, history, events>>

\* Mutant: the candidate is not closed.
Discard_Open(answer) ==
    /\ step = "ping"
    /\ End(answer)
    /\ UNCHANGED <<clients, config, history>>

\* The candidate is closed and the request ends.
Discard(answer) ==
    /\ step = "ping"
    /\ closed' = closed \cup {new}
    /\ End(answer)
    /\ UNCHANGED <<used, created, config, history>>

\* The ping says no; it is cancelled; the file cannot be written.
Unreachable  == Discard("failed") /\ UNCHANGED events
PingCancelled == Discard("cancelled") /\ Event
PersistFails == Discard("error") /\ Event

\* The ping says yes, and the configuration is written to the file.
Persist ==
    /\ step = "ping"
    /\ file' = new
    /\ Goes("commit")
    /\ UNCHANGED <<clients, live, outcome, history, events>>

-----------------------------------------------------------------------------
(***************************************************************************)
(* _commit_runtime.                                                        *)
(***************************************************************************)

\* Mutant: the old client is closed before its successor is in place.
CommitPipeline_CloseFirst ==
    /\ step = "commit"
    /\ used' = [used EXCEPT !["pipeline"] = new]
    /\ closed' = closed \cup {old}
    /\ Goes("sync")
    /\ UNCHANGED <<created, config, outcome, history, events>>

CommitPipeline ==
    /\ step = "commit"
    /\ used' = [used EXCEPT !["pipeline"] = new]
    /\ Goes("sync")
    /\ UNCHANGED <<closed, created, config, outcome, history, events>>

\* The sync loop takes the client; observability and the target follow without an await.
CommitRest ==
    /\ step = "sync"
    /\ used' = [d \in Component |-> new]
    /\ stuck' = {}
    /\ Goes("closing")
    /\ UNCHANGED <<closed, created, config, outcome, severed, orphaned, events>>

(***************************************************************************)
(* _rollback_runtime, from components that use u: the pipeline is restored  *)
(* before the first await.  A component that raises keeps its client.       *)
(***************************************************************************)
RollBack(u, answer) ==
    /\ \/ /\ used' = [u EXCEPT !["pipeline"] = old]
          /\ UNCHANGED stuck
       \/ /\ DependentsMayFail
          /\ used' = u
          /\ stuck' = stuck \cup {"pipeline"}
    /\ outcome' = answer
    /\ Goes("back")
    /\ UNCHANGED <<closed, created, config, severed, orphaned>>

\* The commit is cancelled where it waits.
CommitCancelled ==
    /\ Event
    /\ step = "commit" \/ (DependentsMayFail /\ step = "sync")
    /\ RollBack(used, "cancelled")

\* The 30 seconds of the commit are over: the sync loop's lock was not free.
CommitTimesOut ==
    /\ DependentsMayFail
    /\ step = "sync"
    /\ RollBack(used, "error")
    /\ UNCHANGED events

\* The pipeline, the sync loop or observability raises.
CommitRefused ==
    /\ DependentsMayFail
    /\ \/ step \in {"commit", "sync"} /\ RollBack(used, "error")
       \/ step = "sync" /\ RollBack([used EXCEPT !["sync"] = new], "error")
    /\ UNCHANGED events

\* Mutant: observability is not restored.
RollBackRest_Partly ==
    /\ step = "back"
    /\ used' = [used EXCEPT !["target"] = old]
    /\ Goes("abandon")
    /\ UNCHANGED <<closed, created, config, outcome, history, events>>

\* The sync loop and observability are restored, or raise; the target in any case.
RollBackRest ==
    /\ step = "back"
    /\ \E D \in SUBSET {"sync", "observability"} :
          /\ DependentsMayFail \/ D = {}
          /\ used' = [d \in Component |-> IF d \in D \cup {"pipeline"} THEN used[d] ELSE old]
          /\ stuck' = stuck \cup D
    /\ Goes("abandon")
    /\ UNCHANGED <<closed, created, config, outcome, severed, orphaned, events>>

\* Cancelled once more while it waits for the sync loop: nothing else is restored.
RollBackCancelled ==
    /\ Event
    /\ DependentsMayFail
    /\ step = "back"
    /\ stuck' = stuck \cup {"sync", "observability"}
    /\ outcome' = "cancelled"
    /\ Goes("abandon")
    /\ UNCHANGED <<clients, config, severed, orphaned>>

\* getattr(old_qbit, "config", None): QBittorrentClient keeps its configuration in _config
\* and has no attribute of that name.
StoredConfig(c) == NoClient

RestoreConfig ==
    IF StoredConfig(old) = NoClient THEN UNCHANGED config
    ELSE file' = StoredConfig(old) /\ live' = StoredConfig(old)

\* The candidate is closed, the configuration restored if it is known, the error raised.
Abandon ==
    /\ step = "abandon"
    /\ closed' = closed \cup {new}
    /\ RestoreConfig
    /\ End(outcome)
    /\ UNCHANGED <<used, created, history, events>>

\* Cancelled while the candidate is being closed.
AbandonCancelled ==
    /\ Event
    /\ step = "abandon"
    /\ closed' = closed \cup {new}
    /\ End("cancelled")
    /\ UNCHANGED <<used, created, config, history>>

\* Mutant: the settings in memory keep the old values.
CloseOld_NoCommit ==
    /\ step = "closing"
    /\ closed' = closed \cup {old}
    /\ End("ok")
    /\ UNCHANGED <<used, created, config, history, events>>

\* The old client is closed (or its closing takes longer than 10 seconds, or raises), and
\* commit_qbit_config makes the new values the ones in memory.
CloseOld ==
    /\ step = "closing"
    /\ closed' = closed \cup {old}
    /\ live' = new
    /\ End("ok")
    /\ UNCHANGED <<used, created, file, history, events>>

\* Cancelled while the old client is being closed, perhaps before that began: no handler
\* of _replace_runtime sees it, and replace_qbit_config closes the new client.
CloseOldCancelled ==
    /\ Event
    /\ step = "closing"
    /\ \/ closed' = closed \cup {old, new} /\ UNCHANGED orphaned
       \/ closed' = closed \cup {new} /\ orphaned' = orphaned \cup {old}
    /\ severed' = severed \cup {new}
    /\ RestoreConfig
    /\ End("cancelled")
    /\ UNCHANGED <<used, created, stuck>>

-----------------------------------------------------------------------------
Transaction ==
    \/ Unreachable \/ PingCancelled \/ PersistFails \/ Persist
    \/ CommitPipeline \/ CommitRest
    \/ CommitCancelled \/ CommitTimesOut \/ CommitRefused
    \/ RollBackRest \/ RollBackCancelled
    \/ Abandon \/ AbandonCancelled \/ CloseOld \/ CloseOldCancelled

Next ==
    \/ \E r \in Request : Put(r) \/ Begin(r) \/ Refuse(r) \/ WaitCancelled(r)
    \/ Transaction

Spec == Init /\ [][Next]_vars

(***************************************************************************)
(* Fairness.  A ping has timeouts, the locks are free soon, and a coroutine *)
(* that can go on does.                                                    *)
(***************************************************************************)
Fairness ==
    /\ \A r \in Request : SF_vars(Begin(r) \/ Refuse(r))
    /\ WF_vars(Unreachable \/ Persist)
    /\ WF_vars(CommitPipeline) /\ WF_vars(CommitRest \/ CommitTimesOut)
    /\ WF_vars(RollBackRest) /\ WF_vars(Abandon) /\ WF_vars(CloseOld)

FairSpec == Spec /\ Fairness

-----------------------------------------------------------------------------
(***************************************************************************)
(* What must be true.                                                      *)
(***************************************************************************)

\* Between transactions all components call the same client, whatever was refused, timed
\* out or was cancelled, except one that would not take its old client back
\* (_commit_runtime, _rollback_runtime).
Aligned == step = "idle" => \A d \in Component \ stuck : used[d] = used["target"]

\* No component is left with a closed client, not even while the swap is under way: the
\* old one is closed after everybody has left it, the candidate after everybody has been
\* taken back from it.  Only a swap cancelled after its commit severs its own client.
ServedByOpen == \A d \in Component \ stuck : used[d] \in closed => used[d] \in severed

\* Every client that was built and is not in use has been closed, on all the ways a
\* transaction can end; only the closing of the old one can be cancelled before it begins.
NothingLeaks ==
    step = "idle" => created \subseteq closed \cup orphaned \cup {used["target"]}

\* The settings in memory, which the settings page shows and the next candidate starts
\* from, are those of the client in use.
SettingsFollow == step = "idle" /\ used["target"] \notin severed => live = used["target"]

\* Every request is answered: no way through a transaction keeps the lock.
SwapEnds == \A r \in Request : (req[r] = "waiting") ~> (req[r] \in Answer)

=============================================================================
