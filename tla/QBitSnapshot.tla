----------------------------- MODULE QBitSnapshot -----------------------------
(***************************************************************************)
(* The incremental copy of qBittorrent's torrents (qbit_client/            *)
(* sync_state.py): each poll sends the rid of the last answer that was     *)
(* applied; qBittorrent answers with a patch relative to what it sent      *)
(* under that rid, or with everything. When a torrent turns up without its *)
(* state, the poll fetches everything once more.                           *)
(*                                                                         *)
(* A fetch is one step: qBittorrent answers and the client applies the     *)
(* answer. A change of a torrent while an answer is on its way cannot be   *)
(* told from one after it arrived. The sync loop is the only caller of     *)
(* poll, so polls do not overlap.                                          *)
(***************************************************************************)
EXTENDS Naturals

CONSTANTS
    Hash,           \* infohashes
    Value,          \* values of a field
    Absent,         \* no such torrent
    None,           \* a field that is not known, or not in a patch
    MaxChanges,      \* bound on changes of torrents, faults and restarts of qBittorrent
    MaxPolls        \* bound on polls

\* A torrent is its state and the rest of its fields; a patch has some of them.
Torrent == [state : Value, rest : Value]
Patch == [state : Value \cup {None}, rest : Value \cup {None}]

ASSUME SnapshotAssumption ==
    /\ None \notin Value
    /\ Absent \notin Patch
    /\ MaxChanges \in Nat
    /\ MaxPolls \in Nat

VARIABLES
    qb,         \* qBittorrent's torrents
    sent,       \* qBittorrent: its last answer, [rid, list]
    accepted,   \* qBittorrent: the last answer the client has confirmed
    counter,    \* qBittorrent: the rid of its next answer
    snapshot,   \* _torrent_snapshot
    rid,        \* _maindata_rid
    pending,    \* _state_pending
    phase,      \* where poll() stands: "idle", "first" fetch, "second" fetch
    removed,    \* poll(): the local of that name
    believed,   \* the torrents that the caller has been shown and not been told are gone
    excused,    \* history: torrents that left the snapshot without a removal being returned
    asked,      \* history: per torrent, the full fetches made for its missing state
    unanswered, \* history: how many of them raised
    changes,    \* changes, faults and restarts so far
    polls       \* polls so far

server == <<qb, sent, accepted, counter>>
cache == <<snapshot, rid, pending>>
history == <<believed, excused, asked, unanswered>>
snapshotVars == <<server, cache, phase, removed, history, changes, polls>>

Nothing == [h \in Hash |-> Absent]
Never == [rid |-> 0, list |-> Nothing]
In(m) == {h \in Hash : m[h] # Absent}

SnapshotInit ==
    /\ qb \in [Hash -> Torrent \cup {Absent}]
    /\ sent = Never /\ accepted = Never /\ counter = 1
    /\ snapshot = Nothing /\ rid = 0 /\ pending = {}
    /\ phase = "idle" /\ removed = {}
    /\ believed = {} /\ excused = {} /\ asked = [h \in Hash |-> 0]
    /\ unanswered = [h \in Hash |-> 0]
    /\ changes = 0 /\ polls = 0

-----------------------------------------------------------------------------
(* qBittorrent *)

\* A torrent is added, removed or changes.
Change(h) ==
    /\ changes < MaxChanges
    /\ changes' = changes + 1
    /\ \E t \in (Torrent \cup {Absent}) \ {qb[h]} : qb' = [qb EXCEPT ![h] = t]
    /\ UNCHANGED <<sent, accepted, counter, cache, phase, removed, history, polls>>

\* qBittorrent forgets the session (a restart, a new login): the next answer is a full one.
Forget ==
    /\ changes < MaxChanges
    /\ changes' = changes + 1
    /\ sent' = Never /\ accepted' = Never
    /\ UNCHANGED <<qb, counter, cache, phase, removed, history, polls>>

\* The answer it knows under rid r, if any.
Recalls(r) == r > 0 /\ r \in {sent.rid, accepted.rid}
Base(r) == IF r = sent.rid THEN sent ELSE accepted

\* The changed fields of a torrent; a torrent that is new is sent whole.
Difference(old, new) ==
    IF old = Absent THEN new
    ELSE [state |-> IF new.state = old.state THEN None ELSE new.state,
          rest |-> IF new.rest = old.rest THEN None ELSE new.rest]

\* The torrents that an answer to rid r mentions, and those it mentions for the first time.
Mentioned(r) ==
    {h \in In(qb) : ~Recalls(r) \/ Base(r).list[h] # qb[h]}
FirstTime(r) == {h \in Mentioned(r) : ~Recalls(r) \/ Base(r).list[h] = Absent}

\* The answer to rid r.  The entries in bare come without a state.
Answer(r, bare) ==
    [full |-> ~Recalls(r),
     torrents |-> [h \in Hash |->
        IF h \notin Mentioned(r) THEN Absent
        ELSE LET d == IF Recalls(r) THEN Difference(Base(r).list[h], qb[h]) ELSE qb[h]
             IN IF h \in bare THEN [d EXCEPT !.state = None] ELSE d],
     gone |-> IF Recalls(r) THEN In(Base(r).list) \ In(qb) ELSE {}]

\* What qBittorrent remembers once it has answered rid r.
Answered(r) ==
    /\ accepted' = IF Recalls(r) THEN Base(r) ELSE Never
    /\ sent' = [rid |-> counter, list |-> qb]
    /\ counter' = counter + 1
    /\ UNCHANGED qb

-----------------------------------------------------------------------------
(* The client *)

\* A patch that does not change what is already known.
Merged_KeepsOld(old, patch) == IF old = Absent THEN patch ELSE old

\* A patch changes the fields it has (setdefault(key, {}).update(info)).
Merged(old, patch) ==
    IF patch = Absent THEN old
    ELSE IF old = Absent THEN patch
    ELSE [state |-> IF patch.state = None THEN old.state ELSE patch.state,
          rest |-> IF patch.rest = None THEN old.rest ELSE patch.rest]

\* _apply, then _collect_removed: a full answer replaces the snapshot, a delta is merged;
\* then what is gone is taken out.
Applied(answer) ==
    [h \in Hash |->
        IF h \in answer.gone THEN Absent
        ELSE IF answer.full THEN answer.torrents[h]
        ELSE Merged(snapshot[h], answer.torrents[h])]

\* _missing_state_keys
Missing(m) == {h \in In(m) : m[h].state = None}

\* What an answer takes out of the snapshot without naming it as removed.
Dropped(answer) == In(snapshot) \ (In(Applied(answer)) \cup answer.gone)

\* What poll() returns as removed: the removals of both answers.
Told_SecondOnly(first, second) == second
Told(first, second) == first \cup second

\* poll() returns the snapshot m with the set gone: the caller looks at the snapshot first
\* (_reconcile_batch), and at the set for what is not in it.
Return(m, gone) ==
    /\ phase' = "idle"
    /\ removed' = {}
    /\ believed' = (believed \ gone) \cup In(m)

\* poll(): the first fetch is on its way.
Poll ==
    /\ phase = "idle" /\ polls < MaxPolls
    /\ phase' = "first"
    /\ polls' = polls + 1
    /\ UNCHANGED <<server, cache, removed, history, changes>>

\* Counts of full fetches: torrents that have a state in m, or are not in m, start again;
\* a fetch is made for those that have none and for which it was not tried yet.
Reset(m, count) == [h \in Hash |-> IF h \in Missing(m) THEN count[h] ELSE 0]
Counted(count) ==
    [h \in Hash |-> IF h \in Missing(snapshot) \ pending THEN count[h] + 1 ELSE count[h]]

\* A bare entry is an oddity of qBittorrent; it is counted as an event.
Bare(r, bare) ==
    /\ bare \subseteq FirstTime(r)
    /\ bare # {} => changes < MaxChanges
    /\ changes' = IF bare = {} THEN changes ELSE changes + 1

\* The first answer is applied.  A torrent without a state for which that has not been
\* tried yet needs a full answer; otherwise the poll is over.
FirstAnswer(bare) ==
    /\ phase = "first"
    /\ Bare(rid, bare)
    /\ Answered(rid)
    /\ rid' = counter
    /\ LET answer == Answer(rid, bare)
           m == Applied(answer)
           tried == pending \ answer.gone
       IN /\ snapshot' = m
          /\ excused' = (excused \cup Dropped(answer)) \ In(m)
          /\ asked' = Reset(m, asked)
          /\ unanswered' = Reset(m, unanswered)
          /\ IF Missing(m) \subseteq tried
             THEN /\ pending' = tried \cap Missing(m)
                  /\ Return(m, answer.gone)
             ELSE /\ pending' = tried
                  /\ phase' = "second"
                  /\ removed' = answer.gone
                  /\ UNCHANGED believed
    /\ UNCHANGED polls

\* What has been tried and still has no state is remembered, or every poll would try again.
StillPending_Forgets(m) == pending \cap Missing(m)
StillPending(m) == Missing(m)

\* The full answer is applied as well; what still lacks a state is remembered.
SecondAnswer(bare) ==
    /\ phase = "second"
    /\ Bare(0, bare)
    /\ Answered(0)
    /\ rid' = counter
    /\ LET answer == Answer(0, bare)
           m == Applied(answer)
       IN /\ snapshot' = m
          /\ excused' = (excused \cup Dropped(answer)) \ In(m)
          /\ asked' = Reset(m, Counted(asked))
          /\ unanswered' = Reset(m, unanswered)
          /\ pending' = StillPending(m)
          /\ Return(m, Told(removed, answer.gone))
    /\ UNCHANGED polls

\* An empty answer changes nothing: the snapshot is returned as it is.
EmptyAnswer ==
    /\ phase # "idle"
    /\ changes < MaxChanges
    /\ changes' = changes + 1
    /\ IF phase = "second"
       THEN pending' = StillPending(snapshot) /\ asked' = Counted(asked)
       ELSE UNCHANGED <<pending, asked>>
    /\ Return(snapshot, removed)
    /\ UNCHANGED <<server, snapshot, rid, excused, unanswered, polls>>

\* The fetch raises, or the poll is cancelled: what the first answer removed is not returned.
\* qBittorrent may have answered all the same.  A full fetch that raises leaves no trace in
\* _state_pending: the next poll asks for everything again, for as long as it raises.
FetchFails ==
    /\ phase # "idle"
    /\ changes < MaxChanges
    /\ changes' = changes + 1
    /\ \/ UNCHANGED server
       \/ Answered(IF phase = "first" THEN rid ELSE 0)
    /\ phase' = "idle"
    /\ removed' = {}
    /\ excused' = excused \cup removed
    /\ IF phase = "second"
       THEN asked' = Counted(asked) /\ unanswered' = Counted(unanswered)
       ELSE UNCHANGED <<asked, unanswered>>
    /\ UNCHANGED <<cache, believed, polls>>

SnapshotNext ==
    \/ \E h \in Hash : Change(h)
    \/ Forget
    \/ Poll
    \/ \E bare \in SUBSET Hash : FirstAnswer(bare) \/ SecondAnswer(bare)
    \/ EmptyAnswer
    \/ FetchFails

SnapshotSpec == SnapshotInit /\ [][SnapshotNext]_snapshotVars

-----------------------------------------------------------------------------

SnapshotTypeOK ==
    /\ qb \in [Hash -> Torrent \cup {Absent}]
    /\ {sent, accepted} \subseteq [rid : Nat, list : [Hash -> Torrent \cup {Absent}]]
    /\ counter \in Nat \ {0}
    /\ snapshot \in [Hash -> Patch \cup {Absent}]
    /\ rid \in Nat
    /\ phase \in {"idle", "first", "second"}
    /\ {pending, removed, believed, excused} \subseteq SUBSET Hash
    /\ {asked, unanswered} \subseteq [Hash -> Nat]
    /\ changes \in Nat /\ polls \in Nat

\* The cache is a copy of qBittorrent's list as it was at some answer: patches are merged into
\* the very list they are relative to, also after answers that were lost, polls that were
\* cut off between two fetches, and sessions that qBittorrent forgot.
Mirror == INSTANCE TorrentMirror WITH
    Hash <- Hash, Value <- Value, Absent <- Absent, None <- None,
    qb <- qb, mirror <- snapshot

ImplementsMirror == Mirror!MirrorSpec

\* A torrent that the caller has been shown and that is no longer in the snapshot has been
\* returned as removed, unless a full answer replaced the snapshot or the second fetch of
\* the poll failed: these two, and no others, leave rows in their last state for ever.
RemovalsTold ==
    phase = "idle" => believed \ In(snapshot) \subseteq excused

\* A torrent that has no state makes the client fetch everything once and, after each of
\* these fetches that raised, once more: an answer, however useless, is enough
\* (QBitSyncState.poll).
NoStorm == \A h \in Hash : asked[h] <= unanswered[h] + 1
=============================================================================
