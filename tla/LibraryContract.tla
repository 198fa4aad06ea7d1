--------------------------- MODULE LibraryContract ---------------------------
(***************************************************************************)
(* What the resource library promises about the status it shows for a      *)
(* magnet, seen from outside: which changes of status exist at all, and     *)
(* what must be true of qBittorrent before the library may claim that a     *)
(* torrent is there.  Tasks, locks, polling and restarts are not visible    *)
(* here; ItemLifecycle shows how the service keeps the promise.             *)
(***************************************************************************)
EXTENDS Naturals

CONSTANT Hash          \* the infohashes that may be entered in the library

VARIABLES
    status,            \* status[h]: what the library shows for h
    held               \* the hashes qBittorrent has held a torrent for

libVars == <<status, held>>

\* models.TaskStatus.  "skipped" is declared there and written by no code path.
Statuses == {"pending", "classifying", "adding", "queued", "downloading",
           "paused", "success", "error"}

\* The statuses that say: qBittorrent has this torrent and it is not broken.
Claimed == {"queued", "downloading", "paused", "success"}

LibInit ==
    /\ status = [h \in Hash |-> "absent"]
    /\ held = {}

\* qBittorrent takes a torrent in.
Hold(h) ==
    /\ held' = held \cup {h}
    /\ UNCHANGED status

\* A new magnet enters the library.
Enter(h) ==
    /\ status[h] = "absent"
    /\ status' = [status EXCEPT ![h] = "pending"]
    /\ UNCHANGED held

\* The user removes rows; the torrents in qBittorrent are not touched.
Forget(S) ==
    /\ status' = [h \in Hash |-> IF h \in S THEN "absent" ELSE status[h]]
    /\ UNCHANGED held

\* Classification takes a row only from rest, and returns it to rest.
TakeForClassification(h) ==
    /\ status[h] \in {"pending", "error"}
    /\ status' = [status EXCEPT ![h] = "classifying"]
    /\ UNCHANGED held

GiveBack(h) ==
    /\ status[h] = "classifying"
    /\ status' = [status EXCEPT ![h] = "pending"]
    /\ UNCHANGED held

\* A row that exists is offered to qBittorrent.
Offer(h) ==
    /\ status[h] # "absent"
    /\ status' = [status EXCEPT ![h] = "adding"]
    /\ UNCHANGED held

\* The library claims the torrent is in qBittorrent: only if it has been.
Claim(h) ==
    /\ status[h] # "absent"
    /\ h \in held
    /\ \E s \in Claimed : status' = [status EXCEPT ![h] = s]
    /\ UNCHANGED held

\* A failure is recorded, for one row or, at a restart, for several at once.
Fail(S) ==
    /\ \A h \in S : status[h] # "absent"
    /\ status' = [h \in Hash |-> IF h \in S THEN "error" ELSE status[h]]
    /\ UNCHANGED held

LibNext ==
    \/ \E h \in Hash :
          \/ Hold(h) \/ Enter(h) \/ TakeForClassification(h) \/ GiveBack(h)
          \/ Offer(h) \/ Claim(h)
    \/ \E S \in SUBSET Hash : Forget(S) \/ Fail(S)

LibSpec == LibInit /\ [][LibNext]_libVars

=============================================================================
