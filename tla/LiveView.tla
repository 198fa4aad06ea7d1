------------------------------ MODULE LiveView ------------------------------
(***************************************************************************)
(* What a browser shows of the library: the writers that change a row and   *)
(* then announce it (transitions.py), the broadcaster with the snapshot it  *)
(* sends to a new connection (api/websocket.py), and the page, which        *)
(* applies frames (app.js, item_state.js) and now and then loads the whole  *)
(* list over HTTP (loadItems).                                              *)
(*                                                                         *)
(* The content of a row is its version, updated_at, which the store takes   *)
(* from a clock inside its lock; the page knows versions to the millisecond *)
(* only.  One page is modelled; the broadcaster keeps pages apart.  The     *)
(* clock of the browser agrees with the server's.                           *)
(***************************************************************************)
EXTENDS Naturals, FiniteSets, Sequences

CONSTANTS
    Row,               \* hashes; their order is the order of their names
    Stored,            \* the rows that may be in the store at the start
    Writer,            \* coroutines that change rows
    PageSize,          \* rows per page of a snapshot or a list (500 in the code)
    LoadCap,           \* loadItems reads at most this many rows (2000 in the code)
    Ms,                \* Ms[v]: the millisecond of time stamp v
    MaxEvents          \* bound on changes of the store, connections and loads

Version == 0 .. Cardinality(Stored) + MaxEvents

ASSUME LiveViewAssumption ==
    /\ Row \subseteq Nat \ {0} /\ IsFiniteSet(Row)
    /\ Stored \subseteq Row
    /\ PageSize \in Nat \ {0}
    /\ LoadCap \in Nat \ {0}
    /\ MaxEvents \in Nat
    /\ Ms \in [Version -> Nat]
    /\ \A v, w \in Version : v <= w => Ms[v] <= Ms[w]

VARIABLES
    ver,               \* ver[h]: updated_at of the row, 0 if there is none
    born,              \* born[h]: its created_at
    clock,             \* the last time stamp given
    job,               \* job[w]: what writer w is doing
    link,              \* the server's side of the connection
    frames,            \* frames on their way to the page
    shown,             \* shown[h]: the page's item and its entry in seenAt
    greeted,           \* wsWasConnected
    load,              \* the loadItems that counts (itemsRequestSeq)
    due,               \* a refresh is scheduled
    wiping,            \* the writers that serve the page's own DELETE
    holes,             \* which races have happened (history, see Holes)
    events             \* how many bounded events have happened

library == <<ver, born, clock>>
page == <<shown, greeted, load, due, wiping>>
vars == <<library, job, link, frames, page, holes, events>>

NoVersions == [h \in Row |-> 0]
Present == {h \in Row : ver[h] > 0}

\* The ways in which the page can come to differ from the store for good:
\*   gap      a row already sent was removed while a snapshot was being read
\*   ghost    a row was removed, and what had been read before is shown after
\*   swapped  a row was added again before its removal was announced
\*   shifted  a row was added while the list was being loaded
\*   wiped    the answer to the page's DELETE cleared a newer row
\*   tied     a row was changed again within the same millisecond
Holes == {"gap", "ghost", "swapped", "shifted", "wiped", "tied"}

ItemEvents == {"changed", "classified", "result"}
Removals == {"removed", "cleared"}

NoEvent == [type |-> "none", row |-> 0, at |-> 0, status |-> 0]
NoAnswer == [ready |-> FALSE, total |-> 0, rows |-> NoVersions]
NoLoad == [on |-> FALSE, since |-> 0, list |-> NoVersions, count |-> 0, total |-> 0,
           answer |-> NoAnswer]
Absent == [row |-> 0, status |-> 0, seen |-> 0]
Item(v) == IF v = 0 THEN Absent ELSE [row |-> v, status |-> v, seen |-> Ms[v]]

\* What a writer with nothing to do looks like.
Idle == [row |-> 0, todo |-> <<>>, wrote |-> 0, event |-> NoEvent]
Down == [state |-> "down", offset |-> 0, delivered |-> {}, first |-> TRUE,
         intact |-> TRUE, queue |-> <<>>, batch |-> <<>>]

Steps == {<<>>, <<"insert">>, <<"changed">>, <<"result">>, <<"classified", "changed">>,
          <<"changed", "result">>}
Event == [type : ItemEvents \cup Removals, row : Row \cup {0},
          at : Version, status : Version]
Snapshot == [type : {"init", "init_page", "init_done"}, rows : [Row -> Version]]
Answer == [ready : BOOLEAN, total : Nat, rows : [Row -> Version]]

Job == [row : Row \cup {0}, todo : Steps, wrote : Version, event : Event \cup {NoEvent}]
Link == [state : {"down", "reading", "draining", "open", "dropped"}, offset : Nat,
         delivered : SUBSET Row, first : BOOLEAN, intact : BOOLEAN,
         queue : Seq(Event), batch : Seq(Event)]
Shown == [row : Version, status : Version, seen : Nat]
Load == [on : BOOLEAN, since : Version, list : [Row -> Version], count : Nat, total : Nat,
         answer : Answer]

TypeOK ==
    /\ ver \in [Row -> Version]
    /\ born \in [Row -> Version]
    /\ clock \in Version
    /\ job \in [Writer -> Job]
    /\ link \in Link
    /\ frames \in Seq(Event \cup Snapshot)
    /\ shown \in [Row -> Shown]
    /\ load \in Load
    /\ greeted \in BOOLEAN /\ due \in BOOLEAN
    /\ wiping \subseteq Writer
    /\ holes \subseteq Holes
    /\ events \in 0 .. MaxEvents

Init ==
    /\ \E rows \in SUBSET Stored :
          ver = [h \in Row |-> IF h \in rows THEN Cardinality({g \in rows : g <= h}) ELSE 0]
    /\ born = ver
    /\ clock = Cardinality(Stored)
    /\ job = [w \in Writer |-> Idle]
    /\ link = Down
    /\ frames = <<>>
    /\ shown = [h \in Row |-> Absent]
    /\ load = NoLoad
    /\ greeted = FALSE /\ due = FALSE /\ wiping = {}
    /\ holes = {}
    /\ events = 0

-----------------------------------------------------------------------------
(* The store: one read of a page, with the total of the same moment. *)

\* How many rows come before h in the order of a read.
ByName == [h \in Row |-> Cardinality({g \in Present : g < h})]
ByAge == [h \in Row |-> Cardinality({g \in Present : born[g] > born[h]})]

PageOf(before, offset) == {h \in Present : before[h] \in offset .. offset + PageSize - 1}

Versions(rows) == [h \in Row |-> IF h \in rows THEN ver[h] ELSE 0]

-----------------------------------------------------------------------------
(* Writers. *)

Spend == events < MaxEvents /\ events' = events + 1

Settle(j) == IF j.todo = <<>> /\ j.event = NoEvent THEN Idle ELSE j

\* Somebody holds what was read of row h and has not shown it yet.
Held(h) ==
    \/ \E w \in Writer : job[w].event.type \in ItemEvents /\ job[w].event.row = h
    \/ load.on /\ (load.list[h] > 0 \/ load.answer.rows[h] > 0)

RemovalPending(h) ==
    \E w \in Writer : \/ job[w].event.type = "removed" /\ job[w].event.row = h
                      \/ job[w].event.type = "cleared"

\* The load has more than one page, or began no earlier than v was stamped.
Exposed(v) ==
    load.on /\ (Ms[v] <= Ms[load.since] \/ load.count > 0 \/ load.answer.total > PageSize)

\* A MagnetItem is built, with its time stamp, some time before it is added.
Discover(w, h) ==
    /\ job[w] = Idle
    /\ Spend
    /\ clock' = clock + 1
    /\ job' = [job EXCEPT ![w] = [Idle EXCEPT !.row = h, !.todo = <<"insert">>, !.wrote = clock + 1]]
    /\ UNCHANGED <<ver, born, link, frames, page, holes>>

\* DiscoveryTransitions.found: nothing is announced of a row that is there already.
Insert(w) ==
    LET h == job[w].row
        v == job[w].wrote
    IN  /\ job[w].todo = <<"insert">>
        /\ IF ver[h] > 0
           THEN /\ job' = [job EXCEPT ![w] = Idle]
                /\ UNCHANGED <<ver, born, holes>>
           ELSE /\ ver' = [ver EXCEPT ![h] = v]
                /\ born' = [born EXCEPT ![h] = v]
                /\ job' = [job EXCEPT ![w] = [Idle EXCEPT !.row = h, !.wrote = v,
                     !.event = [type |-> "changed", row |-> h, at |-> v, status |-> v]]]
                /\ holes' = holes \cup {x \in {"swapped"} : RemovalPending(h)}
                                  \cup {x \in {"shifted"} : Exposed(v)}
        /\ UNCHANGED <<clock, link, frames, page, events>>

\* What each kind of change announces, in order.
Announced == [update   |-> <<"changed">>,
              classify |-> <<"classified", "changed">>,
              download |-> <<"changed", "result">>]

Change(w, h, kind) ==
    /\ job[w] = Idle
    /\ ver[h] > 0
    /\ Spend
    /\ clock' = clock + 1
    /\ ver' = [ver EXCEPT ![h] = clock + 1]
    /\ job' = [job EXCEPT ![w] = [Idle EXCEPT !.row = h, !.todo = Announced[kind], !.wrote = clock + 1]]
    /\ holes' = holes \cup {x \in {"tied"} : Ms[clock + 1] = Ms[ver[h]]}
    /\ UNCHANGED <<born, link, frames, page>>

\* The row is read again before each event.  CLASSIFY_DONE carries the version
\* that was read and the outcome of the classification.
Fetch(w) ==
    LET h == job[w].row
        what == Head(job[w].todo)
        rest == Tail(job[w].todo)
        event == [type |-> what, row |-> h, at |-> ver[h],
                  status |-> IF what = "classified" THEN job[w].wrote ELSE ver[h]]
        found == [job[w] EXCEPT !.todo = rest, !.event = event]
        gone == [job[w] EXCEPT !.todo = IF what = "changed" THEN rest ELSE <<>>]
    IN  /\ job[w].event = NoEvent
        /\ job[w].todo \notin {<<>>, <<"insert">>}
        /\ job' = [job EXCEPT ![w] = Settle(IF ver[h] = 0 THEN gone ELSE found)]
        /\ UNCHANGED <<library, link, frames, page, holes, events>>

\* removed() of one row; the user's command.
Remove(w, h) ==
    /\ job[w] = Idle
    /\ ver[h] > 0
    /\ Spend
    /\ ver' = [ver EXCEPT ![h] = 0]
    /\ job' = [job EXCEPT ![w] = [Idle EXCEPT !.row = h,
         !.event = [type |-> "removed", row |-> h, at |-> 0, status |-> 0]]]
    /\ link' = [link EXCEPT !.intact = @ /\ h \notin link.delivered]
    /\ holes' = holes \cup {x \in {"gap"} : link.state = "reading" /\ h \in link.delivered}
                      \cup {x \in {"ghost"} : Held(h)}
    /\ UNCHANGED <<born, clock, frames, page>>

\* cleared(); own: the page asked for it and waits for the answer (clearAll).
Clear(w, own) ==
    /\ job[w] = Idle
    /\ own => wiping = {}
    /\ Spend
    /\ ver' = NoVersions
    /\ job' = [job EXCEPT ![w] = [Idle EXCEPT
         !.event = [type |-> "cleared", row |-> 0, at |-> 0, status |-> 0]]]
    /\ link' = [link EXCEPT !.intact = @ /\ link.delivered = {}]
    /\ holes' = holes \cup {x \in {"ghost"} : \E h \in Present : Held(h)}
    /\ wiping' = IF own THEN {w} ELSE wiping
    /\ UNCHANGED <<born, clock, frames, shown, greeted, load, due>>

\* MessageBus.emit and WSBroadcaster._on_event, up to the first await: the frame
\* goes to the buffer of a connection that is being initialised, or is sent.
Announce(w) ==
    /\ job[w].event # NoEvent
    /\ link' = IF link.state \in {"reading", "draining"}
               THEN [link EXCEPT !.queue = Append(@, job[w].event)]
               ELSE link
    /\ frames' = IF link.state = "open" THEN Append(frames, job[w].event) ELSE frames
    /\ job' = [job EXCEPT ![w] = Settle([@ EXCEPT !.event = NoEvent])]
    /\ UNCHANGED <<library, page, holes, events>>

-----------------------------------------------------------------------------
(* The broadcaster. *)

\* A new connection is registered before its snapshot is read; what the old one
\* still had on its way is lost.
Connect ==
    /\ link.state = "down"
    /\ Spend
    /\ link' = [Down EXCEPT !.state = "reading"]
    /\ frames' = <<>>
    /\ UNCHANGED <<library, job, page, holes>>

\* Mutant: the snapshot is not counted.
Complete_Uncounted(delivered) == TRUE

Complete(delivered) == Cardinality(delivered) >= Cardinality(Present)

\* One turn of the loop of send_init_from_store: a page is read and sent.  A
\* snapshot with too few rows is read again from the start; when there is nothing
\* to read, it fails and the connection is closed.
ReadPage ==
    LET rows == PageOf(ByName, link.offset)
        new == rows \ link.delivered
        delivered == link.delivered \cup rows
        offset == link.offset + Cardinality(rows)
        total == Cardinality(Present)
        complete == Complete(delivered)
        sent == CASE link.first -> <<[type |-> "init", rows |-> Versions(new)]>>
                  [] ~link.first /\ new # {} -> <<[type |-> "init_page", rows |-> Versions(new)]>>
                  [] OTHER -> <<>>
    IN  /\ link.state = "reading"
        /\ link' = CASE offset < total ->
                          [link EXCEPT !.offset = offset, !.delivered = delivered, !.first = FALSE]
                     [] offset >= total /\ complete ->
                          [link EXCEPT !.state = "draining", !.offset = offset,
                                       !.delivered = delivered, !.first = FALSE]
                     [] offset >= total /\ ~complete /\ rows = {} -> Down
                     [] OTHER ->
                          [link EXCEPT !.offset = 0, !.delivered = delivered, !.first = FALSE]
        /\ frames' = frames \o sent \o
             (IF offset >= total /\ complete
              THEN <<[type |-> "init_done", rows |-> NoVersions]>> ELSE <<>>)
        /\ UNCHANGED <<library, job, page, holes, events>>

\* _finish_initialization: the buffer is taken, sent frame by frame, and looked at
\* again; the connection joins _active_ws in the step that finds the buffer empty.
TakeBatch ==
    /\ link.state = "draining"
    /\ link.batch = <<>>
    /\ link.queue # <<>>
    /\ link' = [link EXCEPT !.batch = link.queue, !.queue = <<>>]
    /\ UNCHANGED <<library, job, frames, page, holes, events>>

SendBatched ==
    /\ link.state = "draining"
    /\ link.batch # <<>>
    /\ frames' = Append(frames, Head(link.batch))
    /\ link' = [link EXCEPT !.batch = Tail(@)]
    /\ UNCHANGED <<library, job, page, holes, events>>

\* A mutant: the buffer is not looked at again.
Activate_Early ==
    /\ link.state = "draining"
    /\ link.batch = <<>>
    /\ link' = [Down EXCEPT !.state = "open", !.first = FALSE]
    /\ UNCHANGED <<library, job, frames, page, holes, events>>

Activate ==
    /\ link.state = "draining"
    /\ link.batch = <<>> /\ link.queue = <<>>
    /\ link' = [Down EXCEPT !.state = "open", !.first = FALSE]
    /\ UNCHANGED <<library, job, frames, page, holes, events>>

\* A send takes longer than _SEND_TIMEOUT: the connection leaves _active_ws but is
\* not closed, and handle_connection goes on answering its pings.
Drop ==
    /\ link.state = "open"
    /\ frames # <<>>
    /\ link' = [link EXCEPT !.state = "dropped"]
    /\ UNCHANGED <<library, job, frames, page, holes, events>>

\* The network or the browser ends the connection: remove().
Disconnect ==
    /\ link.state # "down"
    /\ link' = Down
    /\ UNCHANGED <<library, job, frames, page, holes, events>>

-----------------------------------------------------------------------------
(* The page. *)

\* MagnetItemState.upsert.
Upsert(item, v) == IF Ms[v] < item.seen THEN item ELSE Item(v)

\* The handlers of classify_done and download_result: part of an item the page has.
Patch(item, e) ==
    IF item.row = 0 \/ Ms[e.at] < item.seen THEN item
    ELSE [item EXCEPT !.status = e.status, !.seen = Ms[e.at]]

Merge(rows) == [h \in Row |-> IF rows[h] > 0 THEN Upsert(shown[h], rows[h]) ELSE shown[h]]

Nothing == [h \in Row |-> Absent]

Apply(f) ==
    CASE f.type = "init" -> [h \in Row |-> Item(f.rows[h])]
      [] f.type = "init_page" -> Merge(f.rows)
      [] f.type = "init_done" -> shown
      [] f.type = "changed" -> [shown EXCEPT ![f.row] = Upsert(@, f.at)]
      [] f.type \in {"classified", "result"} -> [shown EXCEPT ![f.row] = Patch(@, f)]
      [] f.type = "removed" -> [shown EXCEPT ![f.row] = Absent]
      [] f.type = "cleared" -> Nothing

\* handleMsg; the first frame of a reconnection schedules a refresh.
Receive ==
    /\ frames # <<>>
    /\ frames' = Tail(frames)
    /\ shown' = Apply(Head(frames))
    /\ greeted' = (greeted \/ Head(frames).type = "init")
    /\ due' = (due \/ (greeted /\ Head(frames).type = "init"))
    /\ UNCHANGED <<library, job, link, load, wiping, holes, events>>

\* loadItems: at boot, after an upload or a crawl, when the tab is shown again,
\* after a reconnection.  Only the latest one counts.
StartLoad ==
    /\ Spend
    /\ load' = [NoLoad EXCEPT !.on = TRUE, !.since = clock]
    /\ due' = FALSE
    /\ UNCHANGED <<library, job, link, frames, shown, greeted, wiping, holes>>

ServeLoad ==
    /\ load.on
    /\ ~load.answer.ready
    /\ load' = [load EXCEPT !.answer = [ready |-> TRUE, total |-> Cardinality(Present),
                                        rows |-> Versions(PageOf(ByAge, load.count))]]
    /\ UNCHANGED <<library, job, link, frames, shown, greeted, due, wiping, holes, events>>

\* MagnetItemState.reconcile.
Reconcile(list, since) ==
    [h \in Row |-> IF list[h] > 0 THEN Upsert(shown[h], list[h])
                   ELSE IF shown[h].seen > Ms[since] THEN shown[h] ELSE Absent]

\* The next page is asked for until the total of the first answer, the cap or an
\* empty page; a list as long as the total counts as complete.
ReceiveLoad ==
    LET rows == {h \in Row : load.answer.rows[h] > 0}
        list == [h \in Row |-> IF h \in rows THEN load.answer.rows[h] ELSE load.list[h]]
        count == load.count + Cardinality(rows)
        total == IF load.count = 0 THEN load.answer.total ELSE load.total
    IN  /\ load.answer.ready
        /\ IF count < total /\ count < LoadCap /\ rows # {}
           THEN /\ load' = [load EXCEPT !.list = list, !.count = count, !.total = total,
                                        !.answer = NoAnswer]
                /\ UNCHANGED shown
           ELSE /\ load' = NoLoad
                /\ shown' = IF count >= total THEN Reconcile(list, load.since) ELSE Merge(list)
        /\ UNCHANGED <<library, job, link, frames, greeted, due, wiping, holes, events>>

FailLoad ==
    /\ load.on
    /\ load' = NoLoad
    /\ UNCHANGED <<library, job, link, frames, shown, greeted, due, wiping, holes, events>>

\* The answer to clearAll arrives: the page clears itself, whatever has come since.
ReceiveCleared ==
    /\ wiping # {}
    /\ \A w \in wiping : job[w].event.type # "cleared"
    /\ wiping' = {}
    /\ shown' = Nothing
    /\ holes' = holes \cup {x \in {"wiped"} : \E h \in Row : shown[h].row > 0 /\ ver[h] > 0}
    /\ UNCHANGED <<library, job, link, frames, greeted, load, due, events>>

\* The answer is an error, or is lost: the page says so and stays as it is.
FailCleared ==
    /\ wiping # {}
    /\ wiping' = {}
    /\ UNCHANGED <<library, job, link, frames, shown, greeted, load, due, holes, events>>

-----------------------------------------------------------------------------
Write(w) ==
    \/ \E h \in Row : Discover(w, h) \/ Remove(w, h)
    \/ \E h \in Row, kind \in DOMAIN Announced : Change(w, h, kind)
    \/ \E own \in BOOLEAN : Clear(w, own)
    \/ Insert(w)
    \/ Fetch(w)
    \/ Announce(w)

Serve == Connect \/ ReadPage \/ TakeBatch \/ SendBatched \/ Activate \/ Drop \/ Disconnect

Browse ==
    \/ Receive
    \/ StartLoad \/ ServeLoad \/ ReceiveLoad \/ FailLoad
    \/ ReceiveCleared \/ FailCleared

Next == (\E w \in Writer : Write(w)) \/ Serve \/ Browse

Spec == Init /\ [][Next]_vars

-----------------------------------------------------------------------------
Quiet ==
    /\ link.state = "open" /\ frames = <<>>
    /\ \A w \in Writer : job[w] = Idle
    /\ ~load.on /\ ~due /\ wiping = {}

\* When everything announced has arrived on a connection that is served, the page
\* shows the rows of the store at their versions and no others, unless one of the
\* races named in Holes has happened.
Converged == Quiet /\ holes = {} => \A h \in Row : shown[h] = Item(ver[h])

\* A snapshot none of whose rows was deleted meanwhile has every row of the store
\* when init_done is sent, however many rows were added between its pages.
SnapshotComplete ==
    [][link.state = "reading" /\ link'.state = "draining" /\ link.intact
        => Present \subseteq link'.delivered]_vars
=============================================================================
