----------------------------- MODULE TorrentMirror -----------------------------
(***************************************************************************)
(* What the rest of the service may assume of the torrents a qB client     *)
(* caches (qbit_client/sync_state.py): the cache is qBittorrent's own      *)
(* list, taken at one moment. It may lack the state of a torrent ("not     *)
(* arrived yet", which TorrentStatusMapper leaves alone), but it shows no  *)
(* torrent that was gone, misses none that was there, and what it says of  *)
(* one was so.                                                             *)
(***************************************************************************)
CONSTANTS
    Hash,       \* the torrents
    Value,      \* values of a field of a torrent
    Absent,     \* no such torrent
    None        \* a field that has not arrived

VARIABLES
    qb,         \* qBittorrent's list
    mirror      \* the client's copy

\* What qBittorrent says of a torrent, and what a client may know of it.
Torrent == [state : Value, rest : Value]
Entry == [state : Value \cup {None}, rest : Value]

Nothing == [h \in Hash |-> Absent]

\* The copy m is right about the list q.
Agrees(m, q) ==
    \A h \in Hash :
        /\ m[h] = Absent <=> q[h] = Absent
        /\ m[h] # Absent => /\ m[h].rest = q[h].rest
                            /\ m[h].state \in {q[h].state, None}

MirrorInit ==
    /\ qb \in [Hash -> Torrent \cup {Absent}]
    /\ mirror = Nothing

\* Torrents come, go and change without anybody being told.
Drift ==
    /\ qb' \in [Hash -> Torrent \cup {Absent}]
    /\ UNCHANGED mirror

\* The copy is taken anew, from what is there now.
Refresh ==
    /\ mirror' \in [Hash -> Entry \cup {Absent}]
    /\ Agrees(mirror', qb)
    /\ UNCHANGED qb

MirrorNext == Drift \/ Refresh

MirrorSpec == MirrorInit /\ [][MirrorNext]_<<qb, mirror>>
=============================================================================
