--------------------------- MODULE LiveView_proofs ---------------------------
(***************************************************************************)
(* Proofs about LiveView, for any rows, writers, page size and bounds: the  *)
(* type invariant, that a snapshot is complete when it is declared so, and  *)
(* that the page converges to the store.                                    *)
(***************************************************************************)
EXTENDS LiveView, FiniteSetTheorems, SequenceTheorems, TLAPS

\* Type correctness made inductive: time stamps are given only by counted events, and
\* a writer with something left to do works on a row.
TypeInv ==
    /\ TypeOK
    /\ clock <= Cardinality(Stored) + events
    /\ \A w \in Writer : job[w].todo # <<>> => job[w].row \in Row

\* Sets of rows are finite, and a set of stored rows has at most all of them.
LEMMA Finite ==
    /\ IsFiniteSet(Row) /\ IsFiniteSet(Stored)
    /\ \A S \in SUBSET Row : IsFiniteSet(S) /\ Cardinality(S) \in Nat
    /\ \A T \in SUBSET Stored : Cardinality(T) \in 0 .. Cardinality(Stored)
<1>1. \A S \in SUBSET Row : IsFiniteSet(S) /\ Cardinality(S) \in Nat
  BY FS_Subset, FS_CardinalityType, LiveViewAssumption
<1>2. \A T \in SUBSET Stored : Cardinality(T) \in 0 .. Cardinality(Stored)
  <2> SUFFICES ASSUME NEW T \in SUBSET Stored
               PROVE  Cardinality(T) \in 0 .. Cardinality(Stored)
    OBVIOUS
  <2>1. IsFiniteSet(Stored) /\ Cardinality(Stored) \in Nat
    BY <1>1, LiveViewAssumption
  <2>2. Cardinality(T) <= Cardinality(Stored) /\ Cardinality(T) \in Nat
    BY <1>1, <2>1, FS_Subset, LiveViewAssumption
  <2> QED BY <2>1, <2>2
<1> QED BY <1>1, <1>2, LiveViewAssumption

\* Time stamps are numbers, and 0, no row, is among them.
LEMMA Counted ==
    /\ Cardinality(Stored) \in Nat
    /\ Version = 0 .. Cardinality(Stored) + MaxEvents
    /\ Version \subseteq Nat /\ 0 \in Version
    /\ MaxEvents \in Nat
    /\ Ms \in [Version -> Nat]
BY Finite, LiveViewAssumption DEF Version

\* Init: the rows of the store have the versions 1, 2, ... in their order.
LEMMA InitTypes == Init => TypeInv
<1> SUFFICES ASSUME Init PROVE TypeInv
  OBVIOUS
<1> USE Counted
<1>1. ver \in [Row -> Version]
  <2>1. PICK rows \in SUBSET Stored :
          ver = [h \in Row |-> IF h \in rows THEN Cardinality({g \in rows : g <= h}) ELSE 0]
    BY DEF Init
  <2>2. ASSUME NEW h \in Row
        PROVE  Cardinality({g \in rows : g <= h}) \in Version
    BY Finite
  <2> QED BY <2>1, <2>2
<1>2. clock \in Version /\ clock <= Cardinality(Stored) + events /\ events \in 0 .. MaxEvents
  BY DEF Init
<1>3. job \in [Writer -> Job] /\ \A w \in Writer : job[w].todo = <<>>
  BY DEF Init, Idle, Steps, Job
<1>4. link \in Link /\ frames \in Seq(Event \cup Snapshot)
  BY DEF Init, Down, Link
<1>5. shown \in [Row -> Shown]
  BY DEF Init, Absent, Shown
<1>6. load \in Load
  BY DEF Init, NoLoad, NoAnswer, NoVersions, Answer, Load
<1>7. born \in [Row -> Version] /\ holes \subseteq Holes
      /\ greeted \in BOOLEAN /\ due \in BOOLEAN /\ wiping \subseteq Writer
  BY <1>1, Zenon DEF Init
<1> QED BY <1>1, <1>2, <1>3, <1>4, <1>5, <1>6, <1>7 DEF TypeInv, TypeOK

-----------------------------------------------------------------------------
\* There is a time stamp for every counted event.
LEMMA SpendTypes ==
    ASSUME TypeInv, Spend
    PROVE  /\ events' \in 0 .. MaxEvents
           /\ clock + 1 \in Version
           /\ clock + 1 <= Cardinality(Stored) + events'
BY Counted DEF TypeInv, TypeOK, Spend, Version

\* An event that takes no time stamp leaves the clock within its bound.
LEMMA Clocked ==
    ASSUME TypeInv, Spend, clock' = clock
    PROVE  /\ events' \in 0 .. MaxEvents
           /\ clock' <= Cardinality(Stored) + events'
BY Counted DEF TypeInv, TypeOK, Spend, Version

\* After its first event a writer is left with steps it can do.
LEMMA StepsTypes ==
    ASSUME NEW s \in Steps \ {<<>>, <<"insert">>}
    PROVE  Head(s) \in ItemEvents /\ Tail(s) \in Steps
<1>1. CASE s = <<"changed">>
  BY <1>1 DEF Steps, ItemEvents
<1>2. CASE s = <<"result">>
  BY <1>2 DEF Steps, ItemEvents
<1>3. CASE s = <<"classified", "changed">>
  BY <1>3 DEF Steps, ItemEvents
<1>4. CASE s = <<"changed", "result">>
  BY <1>4 DEF Steps, ItemEvents
<1> QED BY <1>1, <1>2, <1>3, <1>4 DEF Steps

\* What a writer may be given to do.
Fit(j) == j \in Job /\ (j.todo # <<>> => j.row \in Row)

\* To do nothing is fit.
LEMMA IdleFit == Fit(Idle)
BY Counted DEF Idle, Fit, Job, Steps

\* Settle keeps a writer fit.
LEMMA SettleFit ==
    ASSUME NEW j, Fit(j)
    PROVE  Fit(Settle(j))
BY IdleFit DEF Settle

\* A step that gives one writer something fit keeps the jobs typed.
LEMMA JobsFit ==
    ASSUME TypeInv, NEW w \in Writer, NEW j, Fit(j), job' = [job EXCEPT ![w] = j]
    PROVE  /\ job' \in [Writer -> Job]
           /\ \A x \in Writer : job'[x].todo # <<>> => job'[x].row \in Row
BY DEF Fit, TypeInv, TypeOK

\* A writer has built an item to add.
LEMMA DiscoverTypes ==
    ASSUME TypeInv, NEW w \in Writer, NEW h \in Row, Discover(w, h)
    PROVE  TypeInv'
<1> DEFINE j == [Idle EXCEPT !.row = h, !.todo = <<"insert">>, !.wrote = clock + 1]
<1>1. Fit(j)
  BY SpendTypes DEF Discover, Idle, Job, Steps, Fit
<1>2. job' = [job EXCEPT ![w] = j]
  BY DEF Discover
<1> QED BY <1>1, <1>2, JobsFit, SpendTypes DEF Discover, TypeInv, TypeOK, page

\* An item is added, or found to be there already.
LEMMA InsertTypes ==
    ASSUME TypeInv, NEW w \in Writer, Insert(w)
    PROVE  TypeInv'
<1> DEFINE h == job[w].row
           v == job[w].wrote
           j == [Idle EXCEPT !.row = h, !.wrote = v,
                   !.event = [type |-> "changed", row |-> h, at |-> v, status |-> v]]
<1>1. h \in Row \cup {0} /\ v \in Version
  BY DEF TypeInv, TypeOK, Job
<1>2. Fit(Idle) /\ Fit(j)
  BY <1>1, IdleFit DEF Idle, Job, Steps, Event, ItemEvents, Fit
<1>3. job' = [job EXCEPT ![w] = Idle] \/ job' = [job EXCEPT ![w] = j]
  BY DEF Insert
<1>4. ver' \in [Row -> Version] /\ born' \in [Row -> Version]
  BY <1>1 DEF Insert, TypeInv, TypeOK
<1>5. holes' \subseteq Holes
  BY DEF Insert, TypeInv, TypeOK, Holes
<1> QED BY <1>2, <1>3, <1>4, <1>5, JobsFit DEF Insert, TypeInv, TypeOK, page

\* A row is changed.
LEMMA ChangeTypes ==
    ASSUME TypeInv, NEW w \in Writer, NEW h \in Row, NEW kind \in DOMAIN Announced,
           Change(w, h, kind)
    PROVE  TypeInv'
<1> DEFINE j == [Idle EXCEPT !.row = h, !.todo = Announced[kind], !.wrote = clock + 1]
<1>1. Announced[kind] \in Steps
  BY DEF Announced, Steps
<1>2. Fit(j)
  BY <1>1, SpendTypes DEF Change, Idle, Job, Fit
<1>3. job' = [job EXCEPT ![w] = j]
  BY DEF Change
<1>4. ver' \in [Row -> Version]
  BY SpendTypes DEF Change, TypeInv, TypeOK
<1> HIDE DEF j
<1>5. /\ job' \in [Writer -> Job]
      /\ \A x \in Writer : job'[x].todo # <<>> => job'[x].row \in Row
  BY <1>2, <1>3, JobsFit
<1>6. holes' \subseteq Holes
  BY DEF Change, TypeInv, TypeOK, Holes
<1> QED BY <1>4, <1>5, <1>6, SpendTypes DEF Change, TypeInv, TypeOK, page

\* The row is read again for the next event.
LEMMA FetchTypes ==
    ASSUME TypeInv, NEW w \in Writer, Fetch(w)
    PROVE  TypeInv'
<1> DEFINE h == job[w].row
           what == Head(job[w].todo)
           rest == Tail(job[w].todo)
           event == [type |-> what, row |-> h, at |-> ver[h],
                     status |-> IF what = "classified" THEN job[w].wrote ELSE ver[h]]
           found == [job[w] EXCEPT !.todo = rest, !.event = event]
           gone == [job[w] EXCEPT !.todo = IF what = "changed" THEN rest ELSE <<>>]
<1>1. job[w] \in Job /\ h \in Row
  BY DEF TypeInv, TypeOK, Fetch
<1>2. what \in ItemEvents /\ rest \in Steps /\ <<>> \in Steps
  <2>1. job[w].todo \in Steps \ {<<>>, <<"insert">>}
    BY <1>1 DEF Fetch, Job
  <2> QED BY <2>1, StepsTypes DEF Steps
<1>3. event \in Event
  BY <1>1, <1>2 DEF Event, Job, TypeInv, TypeOK
<1>4. Fit(found) /\ Fit(gone)
  BY <1>1, <1>2, <1>3 DEF Fit, Job
<1> DEFINE j == Settle(IF ver[h] = 0 THEN gone ELSE found)
<1>5. Fit(j)
  BY <1>4, SettleFit
<1>6. job' = [job EXCEPT ![w] = j]
  BY DEF Fetch
<1> HIDE DEF j
<1>7. /\ job' \in [Writer -> Job]
      /\ \A x \in Writer : job'[x].todo # <<>> => job'[x].row \in Row
  BY <1>5, <1>6, JobsFit
<1> QED BY <1>7 DEF Fetch, TypeInv, TypeOK, page, library

\* A row is removed.
LEMMA RemoveTypes ==
    ASSUME TypeInv, NEW w \in Writer, NEW h \in Row, Remove(w, h)
    PROVE  TypeInv'
<1> DEFINE j == [Idle EXCEPT !.row = h,
                   !.event = [type |-> "removed", row |-> h, at |-> 0, status |-> 0]]
<1>1. Fit(j)
  BY Counted DEF Idle, Job, Steps, Event, Removals, Fit
<1>2. job' = [job EXCEPT ![w] = j]
  BY DEF Remove
<1>3. ver' \in [Row -> Version]
  BY Counted DEF Remove, TypeInv, TypeOK
<1>4. link' \in Link
  BY DEF Remove, TypeInv, TypeOK, Link
<1>5. holes' \subseteq Holes
  BY DEF Remove, TypeInv, TypeOK, Holes
<1> HIDE DEF j
<1>6. /\ job' \in [Writer -> Job]
      /\ \A x \in Writer : job'[x].todo # <<>> => job'[x].row \in Row
  BY <1>1, <1>2, JobsFit
<1>7. clock' <= Cardinality(Stored) + events' /\ events' \in 0 .. MaxEvents
  BY Clocked DEF Remove
<1> QED BY <1>3, <1>4, <1>5, <1>6, <1>7 DEF Remove, TypeInv, TypeOK, page

\* All rows are removed.
LEMMA ClearTypes ==
    ASSUME TypeInv, NEW w \in Writer, NEW own \in BOOLEAN, Clear(w, own)
    PROVE  TypeInv'
<1> DEFINE j == [Idle EXCEPT
                   !.event = [type |-> "cleared", row |-> 0, at |-> 0, status |-> 0]]
<1>1. Fit(j)
  BY Counted DEF Idle, Job, Steps, Event, Removals, Fit
<1>2. job' = [job EXCEPT ![w] = j]
  BY DEF Clear
<1>3. ver' \in [Row -> Version]
  BY Counted DEF Clear, NoVersions
<1>4. link' \in Link
  BY DEF Clear, TypeInv, TypeOK, Link
<1>5. holes' \subseteq Holes
  BY DEF Clear, TypeInv, TypeOK, Holes
<1>6. wiping' \subseteq Writer
  BY DEF Clear, TypeInv, TypeOK
<1> HIDE DEF j
<1>7. /\ job' \in [Writer -> Job]
      /\ \A x \in Writer : job'[x].todo # <<>> => job'[x].row \in Row
  BY <1>1, <1>2, JobsFit
<1>8. clock' <= Cardinality(Stored) + events' /\ events' \in 0 .. MaxEvents
  BY Clocked DEF Clear
<1>9. load' \in Load
  BY DEF Clear, TypeInv, TypeOK, Load
<1> QED BY <1>3, <1>4, <1>5, <1>6, <1>7, <1>8, <1>9 DEF Clear, TypeInv, TypeOK

\* The event goes to the buffer of the connection, on its way, or nowhere.
LEMMA AnnounceTypes ==
    ASSUME TypeInv, NEW w \in Writer, Announce(w)
    PROVE  TypeInv'
<1> DEFINE j == Settle([job[w] EXCEPT !.event = NoEvent])
<1>1. job[w] \in Job /\ job[w].event \in Event
  BY DEF TypeInv, TypeOK, Announce, Job
<1>2. Fit([job[w] EXCEPT !.event = NoEvent])
  BY <1>1 DEF Fit, Job, TypeInv
<1>3. Fit(j)
  BY <1>2, SettleFit
<1>4. job' = [job EXCEPT ![w] = j]
  BY DEF Announce
<1> HIDE DEF j
<1>5. /\ job' \in [Writer -> Job]
      /\ \A x \in Writer : job'[x].todo # <<>> => job'[x].row \in Row
  BY <1>3, <1>4, JobsFit
<1>6. link' \in Link
  <2>1. link.queue \in Seq(Event)
    BY DEF TypeInv, TypeOK, Link
  <2>2. Append(link.queue, job[w].event) \in Seq(Event)
    BY <1>1, <2>1
  <2> QED BY <2>2 DEF Announce, TypeInv, TypeOK, Link
<1>7. frames' \in Seq(Event \cup Snapshot)
  BY <1>1 DEF Announce, TypeInv, TypeOK
<1> QED BY <1>5, <1>6, <1>7 DEF Announce, TypeInv, TypeOK, page, library

-----------------------------------------------------------------------------
\* What the broadcaster does changes only its side of the connection and the frames.
LEMMA ServedTypes ==
    ASSUME TypeInv, link' \in Link, frames' \in Seq(Event \cup Snapshot),
           UNCHANGED <<library, job, page, holes, events>>
    PROVE  TypeInv'
BY DEF TypeInv, TypeOK, library, page

\* A connection that is down is typed, and so are those it becomes.
LEMMA DownTypes ==
    /\ Down \in Link
    /\ [Down EXCEPT !.state = "reading"] \in Link
    /\ [Down EXCEPT !.state = "open", !.first = FALSE] \in Link
<1>1. <<>> \in Seq(Event) /\ {} \in SUBSET Row /\ 0 \in Nat
  OBVIOUS
<1>2. Down \in Link
  BY <1>1 DEF Down, Link
<1> QED BY <1>2 DEF Link

\* A new connection starts to be read for.
LEMMA ConnectTypes == TypeInv /\ Connect => TypeInv'
<1> SUFFICES ASSUME TypeInv, Connect PROVE TypeInv'
  OBVIOUS
<1>1. link' \in Link /\ frames' \in Seq(Event \cup Snapshot)
  BY DownTypes DEF Connect
<1>2. clock' <= Cardinality(Stored) + events' /\ events' \in 0 .. MaxEvents
  BY Clocked DEF Connect, library
<1> QED BY <1>1, <1>2 DEF Connect, TypeInv, TypeOK, library, page

\* A page of the snapshot is read: what is sent of it are rows and their versions.
LEMMA ReadPageTypes == TypeInv /\ ReadPage => TypeInv'
<1> SUFFICES ASSUME TypeInv, ReadPage PROVE TypeInv'
  OBVIOUS
<1> DEFINE rows == PageOf(ByName, link.offset)
           new == rows \ link.delivered
           delivered == link.delivered \cup rows
           offset == link.offset + Cardinality(rows)
           sent == CASE link.first -> <<[type |-> "init", rows |-> Versions(new)]>>
                     [] ~link.first /\ new # {} ->
                          <<[type |-> "init_page", rows |-> Versions(new)]>>
                     [] OTHER -> <<>>
           done == IF offset >= Cardinality(Present) /\ Complete(delivered)
                   THEN <<[type |-> "init_done", rows |-> NoVersions]>> ELSE <<>>
<1>1. link \in Link
  BY DEF TypeInv, TypeOK
<1>2. rows \subseteq Row
  BY DEF PageOf, Present
<1>3. delivered \in SUBSET Row /\ offset \in Nat
  BY <1>1, <1>2, Finite DEF Link
<1>4. Versions(new) \in [Row -> Version] /\ NoVersions \in [Row -> Version]
  BY Counted DEF Versions, NoVersions, TypeInv, TypeOK
<1>5. link' \in Link
  <2> HIDE DEF rows, delivered, offset
  <2>1. \/ link' = [link EXCEPT !.offset = offset, !.delivered = delivered, !.first = FALSE]
        \/ link' = [link EXCEPT !.state = "draining", !.offset = offset,
                                !.delivered = delivered, !.first = FALSE]
        \/ link' = Down
        \/ link' = [link EXCEPT !.offset = 0, !.delivered = delivered, !.first = FALSE]
    BY DEF ReadPage, rows, delivered, offset
  <2>2. [link EXCEPT !.offset = offset, !.delivered = delivered, !.first = FALSE] \in Link
    BY <1>1, <1>3 DEF Link
  <2>3. [link EXCEPT !.state = "draining", !.offset = offset,
                    !.delivered = delivered, !.first = FALSE] \in Link
    BY <1>1, <1>3 DEF Link
  <2>4. [link EXCEPT !.offset = 0, !.delivered = delivered, !.first = FALSE] \in Link
    BY <1>1, <1>3 DEF Link
  <2> QED BY <2>1, <2>2, <2>3, <2>4, DownTypes
<1>6. sent \in Seq(Event \cup Snapshot) /\ done \in Seq(Event \cup Snapshot)
  <2>1. /\ [type |-> "init", rows |-> Versions(new)] \in Event \cup Snapshot
        /\ [type |-> "init_page", rows |-> Versions(new)] \in Event \cup Snapshot
        /\ [type |-> "init_done", rows |-> NoVersions] \in Event \cup Snapshot
    BY <1>4 DEF Snapshot
  <2> DEFINE m1 == [type |-> "init", rows |-> Versions(new)]
             m2 == [type |-> "init_page", rows |-> Versions(new)]
             m3 == [type |-> "init_done", rows |-> NoVersions]
  <2>2. \/ sent = <<m1>> \/ sent = <<m2>> \/ sent = <<>>
    OBVIOUS
  <2>3. done = <<m3>> \/ done = <<>>
    OBVIOUS
  <2> HIDE DEF m1, m2, m3, sent, done
  <2>4. \A m \in Event \cup Snapshot : <<m>> \in Seq(Event \cup Snapshot)
    OBVIOUS
  <2>5. m1 \in Event \cup Snapshot /\ m2 \in Event \cup Snapshot /\ m3 \in Event \cup Snapshot
    BY <2>1 DEF m1, m2, m3
  <2>6. <<>> \in Seq(Event \cup Snapshot)
    OBVIOUS
  <2> QED BY <2>2, <2>3, <2>4, <2>5, <2>6
<1>7. frames' = frames \o sent \o done
  BY DEF ReadPage
<1> HIDE DEF sent, done
<1>8. frames' \in Seq(Event \cup Snapshot)
  <2>1. frames \in Seq(Event \cup Snapshot)
    BY DEF TypeInv, TypeOK
  <2>2. frames \o sent \in Seq(Event \cup Snapshot)
    BY <1>6, <2>1
  <2> QED BY <1>6, <1>7, <2>2
<1> QED BY <1>5, <1>8, ServedTypes DEF ReadPage

\* The buffer is taken, sent, and found empty.
LEMMA DrainTypes ==
    ASSUME TypeInv, TakeBatch \/ SendBatched \/ Activate
    PROVE  TypeInv'
<1>1. link \in Link /\ frames \in Seq(Event \cup Snapshot)
  BY DEF TypeInv, TypeOK
<1>2. CASE TakeBatch
  <2>1. link' \in Link
    BY <1>1, <1>2 DEF TakeBatch, Link
  <2> QED BY <1>1, <1>2, <2>1, ServedTypes DEF TakeBatch
<1>3. CASE SendBatched
  <2>1. link.batch \in Seq(Event) /\ link.batch # <<>>
    BY <1>1, <1>3 DEF SendBatched, Link
  <2>2. Head(link.batch) \in Event \cup Snapshot /\ Tail(link.batch) \in Seq(Event)
    BY <2>1
  <2>3. link' \in Link
    BY <1>1, <1>3, <2>2 DEF SendBatched, Link
  <2>4. frames' \in Seq(Event \cup Snapshot)
    BY <1>1, <1>3, <2>2 DEF SendBatched
  <2> QED BY <1>3, <2>3, <2>4, ServedTypes DEF SendBatched
<1>4. CASE Activate
  BY <1>1, <1>4, DownTypes, ServedTypes DEF Activate
<1> QED BY <1>2, <1>3, <1>4

\* The connection is dropped or ends.
LEMMA EndTypes ==
    ASSUME TypeInv, Drop \/ Disconnect
    PROVE  TypeInv'
<1>1. link \in Link /\ frames \in Seq(Event \cup Snapshot)
  BY DEF TypeInv, TypeOK
<1>2. CASE Drop
  <2>1. link' \in Link
    BY <1>1, <1>2 DEF Drop, Link
  <2> QED BY <1>1, <1>2, <2>1, ServedTypes DEF Drop
<1>3. CASE Disconnect
  BY <1>1, <1>3, DownTypes, ServedTypes DEF Disconnect
<1> QED BY <1>2, <1>3

-----------------------------------------------------------------------------
\* What the page makes of a version, of two, and of part of an item.
LEMMA ItemTypes ==
    /\ Absent \in Shown
    /\ \A v \in Version : Item(v) \in Shown
    /\ \A i \in Shown, v \in Version : Upsert(i, v) \in Shown
    /\ \A i \in Shown, e \in Event : Patch(i, e) \in Shown
BY Counted DEF Absent, Item, Upsert, Patch, Shown, Event

\* A list that is merged or reconciled leaves items of rows.
LEMMA MergeTypes ==
    ASSUME TypeInv, NEW list \in [Row -> Version], NEW since \in Version
    PROVE  Merge(list) \in [Row -> Shown] /\ Reconcile(list, since) \in [Row -> Shown]
<1>1. shown \in [Row -> Shown]
  BY DEF TypeInv, TypeOK
<1> QED BY <1>1, ItemTypes DEF Merge, Reconcile

\* A frame that is applied leaves items of rows.
LEMMA ApplyTypes ==
    ASSUME TypeInv, NEW f \in Event \cup Snapshot
    PROVE  Apply(f) \in [Row -> Shown]
<1>1. shown \in [Row -> Shown]
  BY DEF TypeInv, TypeOK
<1>2. CASE f \in Snapshot
  <2>1. f.rows \in [Row -> Version] /\ f.type \in {"init", "init_page", "init_done"}
    BY <1>2 DEF Snapshot
  <2>2. CASE f.type = "init"
    BY <2>1, <2>2, ItemTypes DEF Apply
  <2>3. CASE f.type = "init_page"
    BY <2>1, <2>3, MergeTypes, Counted DEF Apply
  <2>4. CASE f.type = "init_done"
    BY <1>1, <2>4 DEF Apply
  <2> QED BY <2>1, <2>2, <2>3, <2>4
<1>3. CASE f \in Event
  <2>1. f.at \in Version /\ f.type \in ItemEvents \cup Removals
    BY <1>3 DEF Event
  <2>2. CASE f.type = "changed"
    <3> DEFINE item == Upsert(shown[f.row], f.at)
    <3>1. Apply(f) = [shown EXCEPT ![f.row] = item]
      BY <2>2 DEF Apply
    <3>2. f.row \in Row => item \in Shown
      BY <1>1, <2>1, ItemTypes
    <3> HIDE DEF item
    <3> QED BY <1>1, <3>1, <3>2
  <2>3. CASE f.type \in {"classified", "result"}
    <3> DEFINE item == Patch(shown[f.row], f)
    <3>1. Apply(f) = [shown EXCEPT ![f.row] = item]
      BY <2>3 DEF Apply
    <3>2. f.row \in Row => item \in Shown
      BY <1>1, <1>3, ItemTypes
    <3> HIDE DEF item
    <3> QED BY <1>1, <3>1, <3>2
  <2>4. CASE f.type = "removed"
    <3>1. Apply(f) = [shown EXCEPT ![f.row] = Absent]
      BY <2>4 DEF Apply
    <3> QED BY <1>1, <3>1, ItemTypes
  <2>5. CASE f.type = "cleared"
    BY <2>5, ItemTypes DEF Apply, Nothing
  <2> QED BY <2>1, <2>2, <2>3, <2>4, <2>5 DEF ItemEvents, Removals
<1> QED BY <1>2, <1>3

\* A frame arrives.
LEMMA ReceiveTypes == TypeInv /\ Receive => TypeInv'
<1> SUFFICES ASSUME TypeInv, Receive PROVE TypeInv'
  OBVIOUS
<1>1. frames \in Seq(Event \cup Snapshot) /\ frames # <<>>
  BY DEF TypeInv, TypeOK, Receive
<1>2. Head(frames) \in Event \cup Snapshot /\ Tail(frames) \in Seq(Event \cup Snapshot)
  BY <1>1
<1>3. shown' \in [Row -> Shown]
  BY <1>2, ApplyTypes DEF Receive
<1>4. greeted' \in BOOLEAN /\ due' \in BOOLEAN
  BY Zenon DEF Receive, TypeInv, TypeOK
<1> QED BY <1>2, <1>3, <1>4 DEF Receive, TypeInv, TypeOK, library

\* A load that is not under way is typed.
LEMMA NoLoadTypes == NoLoad \in Load /\ NoAnswer \in Answer
BY Counted DEF NoLoad, NoAnswer, NoVersions, Load, Answer

\* A load starts.
LEMMA StartLoadTypes == TypeInv /\ StartLoad => TypeInv'
<1> SUFFICES ASSUME TypeInv, StartLoad PROVE TypeInv'
  OBVIOUS
<1>1. load' \in Load
  <2>1. Present \in SUBSET Row /\ clock \in Version
    BY DEF Present, TypeInv, TypeOK
  <2> QED BY <2>1, NoLoadTypes DEF StartLoad, Load
<1>2. clock' <= Cardinality(Stored) + events' /\ events' \in 0 .. MaxEvents
  BY Clocked DEF StartLoad, library
<1> QED BY <1>1, <1>2 DEF StartLoad, TypeInv, TypeOK, library

\* The server answers with a page of the list.
LEMMA ServeLoadTypes == TypeInv /\ ServeLoad => TypeInv'
<1> SUFFICES ASSUME TypeInv, ServeLoad PROVE TypeInv'
  OBVIOUS
<1>1. Cardinality(Present) \in Nat
  BY Finite DEF Present
<1>2. Versions(PageOf(ByAge, load.count)) \in [Row -> Version]
  BY Counted DEF Versions, TypeInv, TypeOK
<1> DEFINE answer == [ready |-> TRUE, total |-> Cardinality(Present),
                      rows |-> Versions(PageOf(ByAge, load.count))]
<1>3. answer \in Answer
  BY <1>1, <1>2 DEF Answer
<1>4. load' = [load EXCEPT !.answer = answer]
  BY DEF ServeLoad
<1> HIDE DEF answer
<1>5. load' \in Load
  BY <1>3, <1>4 DEF TypeInv, TypeOK, Load
<1> QED BY <1>5 DEF ServeLoad, TypeInv, TypeOK, library

\* A page of the list arrives, or its last.
LEMMA ReceiveLoadTypes == TypeInv /\ ReceiveLoad => TypeInv'
<1> SUFFICES ASSUME TypeInv, ReceiveLoad PROVE TypeInv'
  OBVIOUS
<1> DEFINE rows == {h \in Row : load.answer.rows[h] > 0}
           list == [h \in Row |-> IF h \in rows THEN load.answer.rows[h] ELSE load.list[h]]
           count == load.count + Cardinality(rows)
           total == IF load.count = 0 THEN load.answer.total ELSE load.total
<1>1. load \in Load
  BY DEF TypeInv, TypeOK
<1>2. load.answer \in Answer /\ load.list \in [Row -> Version] /\ load.since \in Version
  BY <1>1 DEF Load
<1>3. list \in [Row -> Version] /\ count \in Nat /\ total \in Nat
  <2>1. list \in [Row -> Version]
    BY <1>2 DEF Answer
  <2>2. Cardinality(rows) \in Nat
    BY Finite
  <2> QED BY <1>1, <1>2, <2>1, <2>2 DEF Load, Answer
<1>4. \/ load' = NoLoad
      \/ load' = [load EXCEPT !.list = list, !.count = count, !.total = total,
                              !.answer = NoAnswer]
  BY DEF ReceiveLoad
<1>5. shown' = shown \/ shown' = Reconcile(list, load.since) \/ shown' = Merge(list)
  BY DEF ReceiveLoad
<1> HIDE DEF list, count, total
<1>6. load' \in Load
  BY <1>1, <1>3, <1>4, NoLoadTypes DEF Load
<1>7. shown' \in [Row -> Shown]
  <2>1. shown \in [Row -> Shown]
    BY DEF TypeInv, TypeOK
  <2>2. Merge(list) \in [Row -> Shown] /\ Reconcile(list, load.since) \in [Row -> Shown]
    BY <1>2, <1>3, MergeTypes
  <2> QED BY <1>5, <2>1, <2>2
<1> QED BY <1>6, <1>7 DEF ReceiveLoad, TypeInv, TypeOK, library

\* A load fails, or the answer to the page's DELETE arrives, good or bad.
LEMMA EndLoadTypes ==
    ASSUME TypeInv, FailLoad \/ ReceiveCleared \/ FailCleared
    PROVE  TypeInv'
<1>1. CASE FailLoad
  BY <1>1, NoLoadTypes DEF FailLoad, TypeInv, TypeOK, library
<1>2. CASE ReceiveCleared
  <2>1. shown' \in [Row -> Shown]
    BY <1>2, ItemTypes DEF ReceiveCleared, Nothing
  <2>2. holes' \subseteq Holes
    BY <1>2 DEF ReceiveCleared, TypeInv, TypeOK, Holes
  <2> QED BY <1>2, <2>1, <2>2 DEF ReceiveCleared, TypeInv, TypeOK, library
<1>3. CASE FailCleared
  BY <1>3 DEF FailCleared, TypeInv, TypeOK, library
<1> QED BY <1>1, <1>2, <1>3

-----------------------------------------------------------------------------
\* Every step keeps the types.
LEMMA NextTypes == TypeInv /\ [Next]_vars => TypeInv'
<1> SUFFICES ASSUME TypeInv, [Next]_vars PROVE TypeInv'
  OBVIOUS
<1>1. ASSUME NEW w \in Writer, Write(w) PROVE TypeInv'
  BY <1>1, DiscoverTypes, InsertTypes, ChangeTypes, FetchTypes, RemoveTypes, ClearTypes,
     AnnounceTypes DEF Write
<1>2. CASE Serve
  BY <1>2, ConnectTypes, ReadPageTypes, DrainTypes, EndTypes DEF Serve
<1>3. CASE Browse
  BY <1>3, ReceiveTypes, StartLoadTypes, ServeLoadTypes, ReceiveLoadTypes, EndLoadTypes
     DEF Browse
<1>4. CASE UNCHANGED vars
  BY <1>4 DEF TypeInv, TypeOK, vars, library, page
<1> QED BY <1>1, <1>2, <1>3, <1>4 DEF Next

\* Every state of the writers, of the broadcaster and of the page has its type.
THEOREM TypeCorrect == Spec => []TypeOK
<1>1. TypeInv => TypeOK
  BY DEF TypeInv
<1> QED BY <1>1, InitTypes, NextTypes, PTL DEF Spec

-----------------------------------------------------------------------------
\* While a snapshot none of whose rows has been deleted is being read, what it has sent
\* is in the store: writers only add rows to it.
Sent == link.state = "reading" /\ link.intact => link.delivered \subseteq Present

\* Init: there is no connection.
LEMMA InitSent == Init => Sent
BY DEF Init, Down, Sent

\* A writer keeps what has been sent in the store, or marks the snapshot.
LEMMA WriteSent ==
    ASSUME TypeInv, TypeInv', Sent, NEW w \in Writer, Write(w)
    PROVE  Sent'
<1>0. /\ ver \in [Row -> Version] /\ link \in Link /\ clock + 1 \in Nat
      /\ job[w].wrote \in Version
  BY Counted DEF TypeInv, TypeOK, Job
<1>1. ASSUME NEW h \in Row, Discover(w, h) PROVE Sent'
  BY <1>1 DEF Discover, Sent, Present
<1>2. CASE Insert(w)
  <2>1. Present \subseteq Present'
    BY <1>0, <1>2, Counted DEF Insert, Present
  <2> QED BY <1>2, <2>1 DEF Insert, Sent
<1>3. ASSUME NEW h \in Row, NEW kind \in DOMAIN Announced, Change(w, h, kind) PROVE Sent'
  <2>1. Present \subseteq Present'
    BY <1>0, <1>3, Counted DEF Change, Present, TypeInv, TypeOK
  <2> QED BY <1>3, <2>1 DEF Change, Sent
<1>4. CASE Fetch(w)
  BY <1>4 DEF Fetch, Sent, Present, library
<1>5. ASSUME NEW h \in Row, Remove(w, h) PROVE Sent'
  <2>1. Present \ {h} \subseteq Present'
    BY <1>0, <1>5 DEF Remove, Present
  <2>2. /\ link'.state = link.state /\ link'.delivered = link.delivered
        /\ link'.intact = (link.intact /\ h \notin link.delivered)
    BY <1>0, <1>5 DEF Remove, Link
  <2> QED BY <2>1, <2>2 DEF Sent
<1>6. ASSUME NEW own \in BOOLEAN, Clear(w, own) PROVE Sent'
  <2>1. /\ link'.state = link.state /\ link'.delivered = link.delivered
        /\ link'.intact = (link.intact /\ link.delivered = {})
    BY <1>0, <1>6 DEF Clear, Link
  <2> QED BY <2>1 DEF Sent
<1>7. CASE Announce(w)
  <2>1. /\ link'.state = link.state /\ link'.delivered = link.delivered
        /\ link'.intact = link.intact /\ ver' = ver
    BY <1>0, <1>7 DEF Announce, Link, library
  <2> QED BY <2>1 DEF Sent, Present
<1> QED BY <1>1, <1>2, <1>3, <1>4, <1>5, <1>6, <1>7 DEF Write

\* What is read of a page is in the store.
LEMMA ServeSent == TypeInv /\ Sent /\ Serve => Sent'
<1> SUFFICES ASSUME TypeInv, Sent, Serve PROVE Sent'
  OBVIOUS
<1>0. link \in Link
  BY DEF TypeInv, TypeOK
<1>1. CASE Connect
  BY <1>1 DEF Connect, Down, Sent
<1>2. CASE ReadPage
  <2> DEFINE rows == PageOf(ByName, link.offset)
  <2>1. rows \subseteq Present
    BY DEF PageOf
  <2>2. Present' = Present
    BY <1>2 DEF ReadPage, library, Present
  <2>3. \/ link'.delivered = link.delivered \cup rows /\ link'.intact = link.intact
        \/ link' = Down
    <3> HIDE DEF rows
    <3> QED BY <1>0, <1>2 DEF ReadPage, Link, rows
  <2>4. link.state = "reading"
    BY <1>2 DEF ReadPage
  <2>5. CASE link' = Down
    BY <2>5 DEF Sent, Down
  <2>6. CASE link'.delivered = link.delivered \cup rows /\ link'.intact = link.intact
    <3> HIDE DEF rows
    <3> QED BY <2>1, <2>2, <2>4, <2>6 DEF Sent
  <2> QED BY <2>3, <2>5, <2>6
<1>3. CASE TakeBatch \/ SendBatched \/ Activate \/ Drop \/ Disconnect
  <2>1. CASE TakeBatch \/ SendBatched
    BY <1>0, <2>1 DEF TakeBatch, SendBatched, Link, Sent
  <2>2. CASE Activate \/ Disconnect
    <3>1. Down.state = "down" /\ [Down EXCEPT !.state = "open", !.first = FALSE].state = "open"
      BY DEF Down
    <3>2. link'.state \in {"down", "open"}
      BY <2>2, <3>1 DEF Activate, Disconnect
    <3> QED BY <3>2 DEF Sent
  <2>3. CASE Drop
    BY <1>0, <2>3 DEF Drop, Link, Sent
  <2> QED BY <1>3, <2>1, <2>2, <2>3
<1> QED BY <1>1, <1>2, <1>3 DEF Serve

\* Every step keeps it.
LEMMA NextSent == TypeInv /\ TypeInv' /\ Sent /\ [Next]_vars => Sent'
<1> SUFFICES ASSUME TypeInv, TypeInv', Sent, [Next]_vars PROVE Sent'
  OBVIOUS
<1>1. CASE Browse \/ UNCHANGED vars
  <2>1. UNCHANGED <<ver, link>>
    BY <1>1 DEF Browse, Receive, StartLoad, ServeLoad, ReceiveLoad, FailLoad, ReceiveCleared,
                FailCleared, vars, library
  <2> QED BY <2>1 DEF Sent, Present
<1> QED BY <1>1, WriteSent, ServeSent DEF Next

\* Only a reader that has counted enough rows declares the snapshot complete.
LEMMA DrainsComplete ==
    ASSUME TypeInv, [Next]_vars, link.state = "reading", link'.state = "draining"
    PROVE  /\ link'.delivered = link.delivered \cup PageOf(ByName, link.offset)
           /\ Cardinality(link'.delivered) >= Cardinality(Present)
<1>0. link \in Link
  BY DEF TypeInv, TypeOK
<1>1. ReadPage
  <2>1. ASSUME NEW w \in Writer, Write(w) PROVE FALSE
    BY <1>0, <2>1 DEF Write, Discover, Insert, Change, Fetch, Remove, Clear, Announce, Link
  <2>2. CASE Serve
    BY <1>0, <2>2 DEF Serve, Connect, TakeBatch, SendBatched, Activate, Drop, Disconnect,
                      Down, Link
  <2>3. CASE Browse \/ UNCHANGED vars
    BY <2>3 DEF Browse, Receive, StartLoad, ServeLoad, ReceiveLoad, FailLoad, ReceiveCleared,
                FailCleared, vars
  <2> QED BY <2>1, <2>2, <2>3 DEF Next
<1> DEFINE rows == PageOf(ByName, link.offset)
           delivered == link.delivered \cup rows
           offset == link.offset + Cardinality(rows)
<1>2. /\ link' = [link EXCEPT !.state = "draining", !.offset = offset,
                              !.delivered = delivered, !.first = FALSE]
      /\ Complete(delivered)
  <2> HIDE DEF rows, delivered, offset
  <2>1. \/ link'.state = link.state
        \/ /\ link' = [link EXCEPT !.state = "draining", !.offset = offset,
                                  !.delivered = delivered, !.first = FALSE]
           /\ Complete(delivered)
        \/ link' = Down
    BY <1>0, <1>1 DEF ReadPage, rows, delivered, offset, Link
  <2> QED BY <2>1 DEF Down
<1> HIDE DEF rows, delivered, offset
<1>3. link'.delivered = delivered
  BY <1>0, <1>2 DEF Link
<1> QED BY <1>2, <1>3 DEF Complete, delivered, rows

\* A snapshot none of whose rows was deleted while it was read has every row of the store
\* when init_done is sent: the counts that send_init_from_store compares are then enough,
\* since what it has sent is a part of the store with as many rows as the whole.
THEOREM SnapshotCorrect == Spec => SnapshotComplete
<1>1. ASSUME TypeInv, Sent, [Next]_vars, link.state = "reading",
             link'.state = "draining", link.intact
      PROVE  Present \subseteq link'.delivered
  <2>1. /\ link'.delivered = link.delivered \cup PageOf(ByName, link.offset)
        /\ Cardinality(link'.delivered) >= Cardinality(Present)
    BY <1>1, DrainsComplete
  <2>2. link'.delivered \subseteq Present
    BY <1>1, <2>1 DEF Sent, PageOf
  <2>3. IsFiniteSet(Present) /\ Cardinality(Present) \in Nat
    BY Finite DEF Present
  <2>4. link'.delivered = Present
    BY <2>1, <2>2, <2>3, FS_Subset, FS_CardinalityType
  <2> QED BY <2>4
<1>2. TypeInv /\ Sent /\ [Next]_vars
        => [link.state = "reading" /\ link'.state = "draining" /\ link.intact
              => Present \subseteq link'.delivered]_vars
  BY <1>1
<1> QED BY <1>2, InitTypes, NextTypes, InitSent, NextSent, PTL DEF Spec, SnapshotComplete

-----------------------------------------------------------------------------
(***************************************************************************)
(* Convergence.  What the page will show of a row when all that is on its   *)
(* way has arrived is decided by the last frames about it.  A row is in     *)
(* order if whatever is amiss on the page, and whatever a frame on its way  *)
(* would put amiss, is mended by a later frame; or if a writer still has to *)
(* announce it, or the snapshot still has to read it.  Every step keeps     *)
(* every row in order as long as none of the races of Holes happens.        *)
(***************************************************************************)

\* What travels to the page.
Entry == Event \cup Snapshot

\* Sequence s has a member in S; every member of s in bad is followed by one in cure; and
\* so is, if it is amiss, what the page shows before s arrives.
Contains(s, S) == \E k \in 1 .. Len(s) : s[k] \in S
Cured(s, bad, cure) ==
    \A j \in 1 .. Len(s) : s[j] \in bad => \E k \in j + 1 .. Len(s) : s[k] \in cure
Mended(amiss, s, bad, cure) == (amiss => Contains(s, cure)) /\ Cured(s, bad, cure)

\* The members of a concatenation are those of its parts.
LEMMA ContainsConcat ==
    ASSUME NEW E, NEW a \in Seq(E), NEW b \in Seq(E), NEW S
    PROVE  Contains(a \o b, S) <=> Contains(a, S) \/ Contains(b, S)
<1>1. /\ Len(a \o b) = Len(a) + Len(b) /\ Len(a) \in Nat /\ Len(b) \in Nat
      /\ \A i \in 1 .. Len(a) + Len(b) :
            (a \o b)[i] = IF i <= Len(a) THEN a[i] ELSE b[i - Len(a)]
  OBVIOUS
<1>2. ASSUME Contains(a \o b, S) PROVE Contains(a, S) \/ Contains(b, S)
  <2>1. PICK k \in 1 .. Len(a) + Len(b) : (a \o b)[k] \in S
    BY <1>1, <1>2 DEF Contains
  <2>2. CASE k <= Len(a)
    BY <1>1, <2>1, <2>2 DEF Contains
  <2>3. CASE k > Len(a)
    <3>1. k - Len(a) \in 1 .. Len(b) /\ b[k - Len(a)] \in S
      BY <1>1, <2>1, <2>3
    <3> QED BY <3>1 DEF Contains
  <2> QED BY <1>1, <2>1, <2>2, <2>3
<1>3. ASSUME Contains(a, S) PROVE Contains(a \o b, S)
  <2>1. PICK k \in 1 .. Len(a) : a[k] \in S
    BY <1>3 DEF Contains
  <2>2. k \in 1 .. Len(a \o b) /\ (a \o b)[k] \in S
    BY <1>1, <2>1
  <2> QED BY <2>2 DEF Contains
<1>4. ASSUME Contains(b, S) PROVE Contains(a \o b, S)
  <2>1. PICK k \in 1 .. Len(b) : b[k] \in S
    BY <1>4 DEF Contains
  <2>2. k + Len(a) \in 1 .. Len(a \o b) /\ (a \o b)[k + Len(a)] \in S
    BY <1>1, <2>1
  <2> QED BY <2>2 DEF Contains
<1> QED BY <1>2, <1>3, <1>4

\* What is bad in the first part is cured there or by anything of the second that cures.
LEMMA CuredConcat ==
    ASSUME NEW E, NEW a \in Seq(E), NEW b \in Seq(E), NEW bad, NEW cure
    PROVE  Cured(a \o b, bad, cure)
             <=> Cured(b, bad, cure) /\ (Cured(a, bad, cure) \/ Contains(b, cure))
<1>1. /\ Len(a \o b) = Len(a) + Len(b) /\ Len(a) \in Nat /\ Len(b) \in Nat
      /\ \A i \in 1 .. Len(a) + Len(b) :
            (a \o b)[i] = IF i <= Len(a) THEN a[i] ELSE b[i - Len(a)]
  OBVIOUS
<1>2. ASSUME Cured(a \o b, bad, cure) PROVE Cured(b, bad, cure)
  <2> SUFFICES ASSUME NEW j \in 1 .. Len(b), b[j] \in bad
               PROVE  \E k \in j + 1 .. Len(b) : b[k] \in cure
    BY DEF Cured
  <2>1. j + Len(a) \in 1 .. Len(a \o b) /\ (a \o b)[j + Len(a)] \in bad
    BY <1>1
  <2>2. PICK k \in j + Len(a) + 1 .. Len(a \o b) : (a \o b)[k] \in cure
    BY <1>2, <2>1 DEF Cured
  <2>3. k - Len(a) \in j + 1 .. Len(b) /\ b[k - Len(a)] \in cure
    BY <1>1, <2>2
  <2> QED BY <2>3
<1>3. ASSUME Cured(a \o b, bad, cure), ~Contains(b, cure) PROVE Cured(a, bad, cure)
  <2> SUFFICES ASSUME NEW j \in 1 .. Len(a), a[j] \in bad
               PROVE  \E k \in j + 1 .. Len(a) : a[k] \in cure
    BY DEF Cured
  <2>1. j \in 1 .. Len(a \o b) /\ (a \o b)[j] \in bad
    BY <1>1
  <2>2. PICK k \in j + 1 .. Len(a \o b) : (a \o b)[k] \in cure
    BY <1>3, <2>1 DEF Cured
  <2>3. CASE k > Len(a)
    <3>1. k - Len(a) \in 1 .. Len(b) /\ b[k - Len(a)] \in cure
      BY <1>1, <2>2, <2>3
    <3> QED BY <1>3, <3>1 DEF Contains
  <2>4. CASE k <= Len(a)
    BY <1>1, <2>2, <2>4
  <2> QED BY <1>1, <2>2, <2>3, <2>4
<1>4. ASSUME Cured(b, bad, cure), Cured(a, bad, cure) \/ Contains(b, cure)
      PROVE  Cured(a \o b, bad, cure)
  <2> SUFFICES ASSUME NEW j \in 1 .. Len(a \o b), (a \o b)[j] \in bad
               PROVE  \E k \in j + 1 .. Len(a \o b) : (a \o b)[k] \in cure
    BY DEF Cured
  <2>1. CASE j > Len(a)
    <3>1. j - Len(a) \in 1 .. Len(b) /\ b[j - Len(a)] \in bad
      BY <1>1, <2>1
    <3>2. PICK k \in j - Len(a) + 1 .. Len(b) : b[k] \in cure
      BY <1>4, <3>1 DEF Cured
    <3>3. k + Len(a) \in j + 1 .. Len(a \o b) /\ (a \o b)[k + Len(a)] \in cure
      BY <1>1, <2>1, <3>2
    <3> QED BY <3>3
  <2>2. CASE j <= Len(a) /\ Contains(b, cure)
    <3>1. PICK k \in 1 .. Len(b) : b[k] \in cure
      BY <2>2 DEF Contains
    <3>2. k + Len(a) \in j + 1 .. Len(a \o b) /\ (a \o b)[k + Len(a)] \in cure
      BY <1>1, <2>2, <3>1
    <3> QED BY <3>2
  <2>3. CASE j <= Len(a) /\ Cured(a, bad, cure)
    <3>1. j \in 1 .. Len(a) /\ a[j] \in bad
      BY <1>1, <2>3
    <3>2. PICK k \in j + 1 .. Len(a) : a[k] \in cure
      BY <2>3, <3>1 DEF Cured
    <3>3. k \in j + 1 .. Len(a \o b) /\ (a \o b)[k] \in cure
      BY <1>1, <2>3, <3>2
    <3> QED BY <3>3
  <2> QED BY <1>1, <1>4, <2>1, <2>2, <2>3
<1> QED BY <1>2, <1>3, <1>4

\* Sequences of one member and of none.
LEMMA One ==
    ASSUME NEW e, NEW bad, NEW cure
    PROVE  /\ Contains(<<e>>, cure) <=> e \in cure
           /\ Cured(<<e>>, bad, cure) <=> e \notin bad
           /\ ~Contains(<<>>, cure) /\ Cured(<<>>, bad, cure)
<1>1. Len(<<e>>) = 1 /\ <<e>>[1] = e /\ Len(<<>>) = 0
  OBVIOUS
<1>2. \A k : k \in 1 .. 1 <=> k = 1
  OBVIOUS
<1>3. \A k : k \notin 1 .. 0 /\ k \notin 2 .. 1
  OBVIOUS
<1> QED BY <1>1, <1>2, <1>3 DEF Contains, Cured

\* Something arrives at the end that is not bad; or that cures everything.
LEMMA MendedAppend ==
    ASSUME NEW E, NEW s \in Seq(E), NEW e \in E, NEW bad, NEW cure, NEW amiss, e \notin bad,
           Mended(amiss, s, bad, cure) \/ e \in cure
    PROVE  Mended(amiss, Append(s, e), bad, cure)
<1>1. Append(s, e) = s \o <<e>> /\ <<e>> \in Seq(E)
  OBVIOUS
<1>2. /\ Contains(s \o <<e>>, cure) <=> Contains(s, cure) \/ Contains(<<e>>, cure)
      /\ Cured(s \o <<e>>, bad, cure)
           <=> Cured(<<e>>, bad, cure) /\ (Cured(s, bad, cure) \/ Contains(<<e>>, cure))
  BY <1>1, ContainsConcat, CuredConcat
<1> QED BY <1>1, <1>2, One DEF Mended

\* Something without a bad member is put in the middle.
LEMMA MendedInsert ==
    ASSUME NEW E, NEW a \in Seq(E), NEW c \in Seq(E), NEW b \in Seq(E), NEW bad, NEW cure,
           Cured(c, bad, cure)
    PROVE  /\ \A amiss : Mended(amiss, a \o b, bad, cure) => Mended(amiss, (a \o c) \o b, bad, cure)
           /\ Cured(b, bad, cure) /\ Contains(c, cure)
                => \A amiss : Mended(amiss, (a \o c) \o b, bad, cure)
<1>1. a \o c \in Seq(E)
  OBVIOUS
<1> USE ContainsConcat, CuredConcat
<1>2. /\ Contains((a \o c) \o b, cure) <=> Contains(a \o c, cure) \/ Contains(b, cure)
      /\ Contains(a \o c, cure) <=> Contains(a, cure) \/ Contains(c, cure)
      /\ Contains(a \o b, cure) <=> Contains(a, cure) \/ Contains(b, cure)
  BY <1>1
<1>3. /\ Cured((a \o c) \o b, bad, cure)
           <=> Cured(b, bad, cure) /\ (Cured(a \o c, bad, cure) \/ Contains(b, cure))
      /\ Cured(a \o c, bad, cure)
           <=> Cured(c, bad, cure) /\ (Cured(a, bad, cure) \/ Contains(c, cure))
      /\ Cured(a \o b, bad, cure)
           <=> Cured(b, bad, cure) /\ (Cured(a, bad, cure) \/ Contains(b, cure))
  BY <1>1
<1> HIDE ContainsConcat, CuredConcat
<1> QED BY <1>2, <1>3 DEF Mended

\* What the later part mends is mended, whatever comes before; and the later part is no
\* worse than the whole.
LEMMA MendedSuffix ==
    ASSUME NEW E, NEW a \in Seq(E), NEW b \in Seq(E), NEW bad, NEW cure
    PROVE  /\ Mended(TRUE, b, bad, cure) => \A amiss : Mended(amiss, a \o b, bad, cure)
           /\ Cured(a \o b, bad, cure) => Cured(b, bad, cure)
BY ContainsConcat, CuredConcat DEF Mended

\* The first member arrives: what is amiss then must have been amiss before, or the
\* member was bad, unless a later one cures it.
LEMMA MendedTail ==
    ASSUME NEW E, NEW s \in Seq(E), s # <<>>, NEW bad, NEW cure, NEW amiss, NEW amissNow,
           Mended(amiss, s, bad, cure),
           amissNow => \/ Head(s) \in bad
                       \/ amiss /\ Head(s) \notin cure
                       \/ Contains(Tail(s), cure)
    PROVE  Mended(amissNow, Tail(s), bad, cure)
<1>1. s = <<Head(s)>> \o Tail(s) /\ <<Head(s)>> \in Seq(E) /\ Tail(s) \in Seq(E)
  OBVIOUS
<1>2. /\ Contains(s, cure) <=> Contains(<<Head(s)>>, cure) \/ Contains(Tail(s), cure)
      /\ Cured(s, bad, cure)
           <=> Cured(Tail(s), bad, cure) /\ (Cured(<<Head(s)>>, bad, cure) \/ Contains(Tail(s), cure))
  <2> DEFINE h == <<Head(s)>>
             t == Tail(s)
  <2>1. h \in Seq(E) /\ t \in Seq(E) /\ s = h \o t
    BY <1>1
  <2> HIDE DEF h, t
  <2>2. /\ Contains(h \o t, cure) <=> Contains(h, cure) \/ Contains(t, cure)
        /\ Cured(h \o t, bad, cure)
             <=> Cured(t, bad, cure) /\ (Cured(h, bad, cure) \/ Contains(t, cure))
    BY <2>1, ContainsConcat, CuredConcat
  <2>3. /\ Contains(s, cure) <=> Contains(h, cure) \/ Contains(t, cure)
        /\ Cured(s, bad, cure)
             <=> Cured(t, bad, cure) /\ (Cured(h, bad, cure) \/ Contains(t, cure))
    BY <2>1, <2>2
  <2> QED BY <2>3 DEF h, t
<1> QED BY <1>2, One DEF Mended

\* Fewer bad members, more cures.
LEMMA MendedMono ==
    ASSUME NEW E, NEW s \in Seq(E), NEW bad, NEW worse, NEW cure, NEW amiss, NEW amissNow,
           bad \subseteq worse, Mended(amiss, s, worse, cure), amissNow => amiss
    PROVE  Mended(amissNow, s, bad, cure)
BY DEF Mended, Cured

-----------------------------------------------------------------------------
\* The frames that put row h on the page or change it there, and the version they carry;
\* those that take it off, init among them, which replaces everything.
About(h) == {e \in Entry : \/ e.type \in ItemEvents /\ e.row = h
                           \/ e.type \in {"init", "init_page"} /\ e.rows[h] > 0}
Stamp(h, e) == IF e.type \in ItemEvents THEN e.at ELSE e.rows[h]
Erasing(h) == {e \in Entry : \/ e.type = "removed" /\ e.row = h
                             \/ e.type \in {"cleared", "init"}}

\* For a row at version v: the frames of a later millisecond, after which the page refuses
\* v; those that make it show v; and those after which it may not show v although it did.
Ahead(h, v) == {e \in About(h) : Ms[Stamp(h, e)] > Ms[v]}
Decisive(h, v) == {e \in About(h) : e.type \notin {"classified", "result"} /\ Stamp(h, e) = v}
Spoiling(h, v) ==
    (Erasing(h) \ Decisive(h, v)) \cup
    {e \in About(h) : /\ Ms[Stamp(h, e)] >= Ms[v]
                      /\ ~(/\ Stamp(h, e) = v
                           /\ e.type \in {"classified", "result"} => e.status = v)}

\* A version of a row that is not 0 is a version, and a frame of a row has one.
LEMMA StampTypes ==
    ASSUME NEW h \in Row, NEW e \in Entry
    PROVE  /\ e \in About(h) => Stamp(h, e) \in Version
           /\ e.type \in ItemEvents \cup Removals => e \in Event
           /\ e.type \in {"init", "init_page", "init_done"} => e.rows \in [Row -> Version]
BY DEF Entry, Event, Snapshot, About, Stamp, ItemEvents, Removals

\* An item patched with what it has.
LEMMA SamePatch ==
    ASSUME NEW r \in Shown, NEW e, e.status = r.status, Ms[e.at] = r.seen
    PROVE  Patch(r, e) = r
<1> DEFINE q == [r EXCEPT !.status = r.status]
<1>1. q = r
  BY DEF Shown
<1> HIDE DEF q
<1>2. [q EXCEPT !.seen = r.seen] = r
  BY <1>1 DEF Shown
<1>3. [[r EXCEPT !.status = e.status] EXCEPT !.seen = Ms[e.at]] = [q EXCEPT !.seen = r.seen]
  BY Zenon DEF q
<1> QED BY <1>2, <1>3, Zenon DEF Patch

\* What one frame does to one row of the page.
LEMMA ApplyRow ==
    ASSUME shown \in [Row -> Shown], NEW h \in Row, NEW e \in Entry
    PROVE  /\ e \notin About(h) /\ e \notin Erasing(h) => Apply(e)[h] = shown[h]
           /\ e \notin About(h) /\ e \in Erasing(h) => Apply(e)[h] = Absent
           /\ e \in About(h) => \/ Apply(e)[h] = shown[h] /\ e.type # "init"
                                \/ Apply(e)[h].seen = Ms[Stamp(h, e)]
                                \/ Apply(e)[h] = Absent
           /\ e \in About(h) /\ e.type \in {"changed", "init_page"}
                => Apply(e)[h] = Upsert(shown[h], Stamp(h, e))
           /\ e \in About(h) /\ e.type \in {"classified", "result"}
                => Apply(e)[h] = Patch(shown[h], e)
           /\ e \in About(h) /\ e.type = "init" => Apply(e)[h] = Item(Stamp(h, e))
<1>1. /\ e.type \in {"init", "init_page", "init_done"} \cup ItemEvents \cup Removals
      /\ e.type \in ItemEvents => e.row \in Row \cup {0} /\ e.at \in Version /\ e.status \in Version
      /\ e.type \in Removals => e.row \in Row \cup {0}
      /\ e.type \in {"init", "init_page", "init_done"} => e.rows \in [Row -> Version]
  BY DEF Entry, Event, Snapshot, ItemEvents, Removals
<1>2. Item(0) = Absent
  BY DEF Item
<1>3. CASE e.type = "init"
  <2>1. Apply(e)[h] = Item(e.rows[h]) /\ e.rows[h] \in Version
    BY <1>1, <1>3 DEF Apply
  <2>2. e \in Erasing(h) /\ (e \in About(h) <=> e.rows[h] > 0) /\ Stamp(h, e) = e.rows[h]
    BY <1>3 DEF Erasing, About, Stamp, ItemEvents
  <2>3. e.rows[h] > 0 => Item(e.rows[h]).seen = Ms[e.rows[h]]
    BY <2>1, Counted DEF Item
  <2>4. e.rows[h] > 0 \/ e.rows[h] = 0
    BY <2>1, Counted
  <2> QED BY <1>2, <1>3, <2>1, <2>2, <2>3, <2>4
<1>4. CASE e.type = "init_page"
  <2>1. Apply(e)[h] = (IF e.rows[h] > 0 THEN Upsert(shown[h], e.rows[h]) ELSE shown[h])
        /\ e.rows[h] \in Version
    BY <1>1, <1>4 DEF Apply, Merge
  <2>2. e \notin Erasing(h) /\ (e \in About(h) <=> e.rows[h] > 0) /\ Stamp(h, e) = e.rows[h]
    BY <1>4 DEF Erasing, About, Stamp, ItemEvents
  <2>3. e.rows[h] > 0 => Upsert(shown[h], e.rows[h]) = shown[h]
                         \/ Upsert(shown[h], e.rows[h]).seen = Ms[e.rows[h]]
    BY <2>1, Counted DEF Item, Upsert
  <2> QED BY <1>4, <2>1, <2>2, <2>3
<1>5. CASE e.type = "init_done"
  <2>1. Apply(e) = shown /\ e \notin About(h) /\ e \notin Erasing(h)
    BY <1>5 DEF Apply, About, Erasing, ItemEvents
  <2> QED BY <2>1
<1>6. CASE e.type = "changed"
  <2>1. /\ e.row = h => Apply(e)[h] = Upsert(shown[h], e.at)
        /\ e.row # h => Apply(e)[h] = shown[h]
    BY <1>6 DEF Apply
  <2>2. e \notin Erasing(h) /\ (e \in About(h) <=> e.row = h) /\ Stamp(h, e) = e.at
    BY <1>6 DEF Erasing, About, Stamp, ItemEvents
  <2>3. \/ Upsert(shown[h], e.at) = shown[h]
        \/ Upsert(shown[h], e.at).seen = Ms[e.at]
        \/ e.at = 0 /\ Upsert(shown[h], e.at) = Absent
    BY <1>1, <1>6 DEF Item, Upsert, ItemEvents
  <2> QED BY <1>6, <2>1, <2>2, <2>3
<1>7. CASE e.type \in {"classified", "result"}
  <2>1. /\ e.row = h => Apply(e)[h] = Patch(shown[h], e)
        /\ e.row # h => Apply(e)[h] = shown[h]
    BY <1>7 DEF Apply
  <2>2. e \notin Erasing(h) /\ (e \in About(h) <=> e.row = h) /\ Stamp(h, e) = e.at
    BY <1>7 DEF Erasing, About, Stamp, ItemEvents
  <2>3. shown[h] \in Shown
    OBVIOUS
  <2>4. Patch(shown[h], e) = shown[h] \/ Patch(shown[h], e).seen = Ms[e.at]
    BY <2>3 DEF Patch, Shown
  <2> QED BY <1>7, <2>1, <2>2, <2>4
<1>8. CASE e.type = "removed"
  <2>1. /\ e.row = h => Apply(e)[h] = Absent
        /\ e.row # h => Apply(e)[h] = shown[h]
    BY <1>8 DEF Apply
  <2>2. e \notin About(h) /\ (e \in Erasing(h) <=> e.row = h)
    BY <1>8 DEF Erasing, About, ItemEvents
  <2> QED BY <2>1, <2>2
<1>9. CASE e.type = "cleared"
  <2>1. Apply(e)[h] = Absent
    BY <1>9 DEF Apply, Nothing
  <2>2. e \notin About(h) /\ e \in Erasing(h)
    BY <1>9 DEF Erasing, About, ItemEvents
  <2> QED BY <2>1, <2>2
<1> QED BY <1>1, <1>3, <1>4, <1>5, <1>6, <1>7, <1>8, <1>9 DEF ItemEvents, Removals

\* The page does not go beyond v by a frame that is not.
LEMMA ApplyRanked ==
    ASSUME shown \in [Row -> Shown], NEW h \in Row, NEW e \in Entry, NEW v \in Version,
           Apply(e)[h].seen > Ms[v]
    PROVE  e \in Ahead(h, v) \/ (shown[h].seen > Ms[v] /\ e \notin Erasing(h))
<1>1. Absent.seen = 0 /\ Ms[v] \in Nat
  BY Counted DEF Absent
<1>2. CASE e \in About(h)
  <2>1. CASE Apply(e)[h].seen = Ms[Stamp(h, e)]
    BY <1>2, <2>1 DEF Ahead
  <2>3. Apply(e)[h] # Absent
    BY <1>1
  <2>2. CASE Apply(e)[h] = shown[h] /\ e.type # "init"
    <3>1. e \notin Erasing(h)
      BY <1>2, <2>2 DEF About, Erasing, ItemEvents
    <3> QED BY <2>2, <3>1
  <2> QED BY <1>2, <2>1, <2>2, <2>3, ApplyRow
<1>3. CASE e \notin About(h)
  <2>1. CASE e \in Erasing(h)
    BY <1>1, <1>3, <2>1, ApplyRow
  <2> QED BY <1>3, <2>1, ApplyRow
<1> QED BY <1>2, <1>3

\* Nothing appears by a frame that is not about the row.
LEMMA ApplyGone ==
    ASSUME shown \in [Row -> Shown], NEW h \in Row, NEW e \in Entry, Apply(e)[h] # Absent
    PROVE  e \in About(h) \/ (shown[h] # Absent /\ e \notin Erasing(h))
BY ApplyRow

\* A frame that decides makes the page show v, if it was not beyond; and one that does
\* not spoil leaves it there.
LEMMA ApplyDecisive ==
    ASSUME shown \in [Row -> Shown], NEW h \in Row, NEW e \in Entry, NEW v \in Version \ {0},
           Apply(e)[h] # Item(v)
    PROVE  \/ e \in Spoiling(h, v)
           \/ shown[h] # Item(v) /\ e \notin Decisive(h, v)
           \/ shown[h].seen > Ms[v] /\ e \notin Erasing(h)
<1> SUFFICES ASSUME e \notin Spoiling(h, v)
             PROVE  \/ shown[h] # Item(v) /\ e \notin Decisive(h, v)
                    \/ shown[h].seen > Ms[v] /\ e \notin Erasing(h)
  OBVIOUS
<1>0. /\ Ms[v] \in Nat /\ shown[h].seen \in Nat /\ v > 0
      /\ Item(v) = [row |-> v, status |-> v, seen |-> Ms[v]]
  BY Counted DEF Shown, Item
<1>1. CASE e \notin About(h)
  <2>1. e \notin Decisive(h, v)
    BY <1>1 DEF Decisive
  <2>2. e \notin Erasing(h)
    BY <2>1 DEF Spoiling
  <2> QED BY <1>1, <2>1, <2>2, ApplyRow
<1>2. CASE e \in About(h)
  <2>1. Stamp(h, e) \in Version /\ Ms[Stamp(h, e)] \in Nat
    BY <1>2, StampTypes, Counted
  <2>2. e.type \in {"init", "init_page", "changed", "classified", "result"}
    BY <1>2 DEF About, ItemEvents
  <2>3. CASE e \in Decisive(h, v)
    <3>1. Stamp(h, e) = v /\ e.type \in {"init", "init_page", "changed"}
      BY <2>2, <2>3 DEF Decisive
    <3>2. CASE e.type = "init"
      BY <1>2, <3>1, <3>2, ApplyRow
    <3>3. CASE e.type \in {"changed", "init_page"}
      <4>1. Apply(e)[h] = Upsert(shown[h], v) /\ e \notin Erasing(h)
        BY <1>2, <3>1, <3>3, ApplyRow DEF Erasing
      <4> QED BY <1>0, <4>1 DEF Upsert
    <3> QED BY <3>1, <3>2, <3>3
  <2>4. CASE e \notin Decisive(h, v)
    <3> SUFFICES ASSUME shown[h] = Item(v) PROVE FALSE
      BY <2>4
    <3>1. e \notin Erasing(h)
      BY <2>4 DEF Spoiling
    <3>2. e.type # "init"
      BY <1>2, <3>1 DEF Erasing, About
    <3>3. \/ Ms[Stamp(h, e)] < Ms[v]
          \/ Stamp(h, e) = v /\ (e.type \in {"classified", "result"} => e.status = v)
      BY <1>0, <1>2, <2>1 DEF Spoiling
    <3>4. CASE e.type \in {"changed", "init_page"}
      <4>1. Apply(e)[h] = Upsert(shown[h], Stamp(h, e)) /\ Stamp(h, e) # v
        BY <1>2, <2>4, <3>4, ApplyRow DEF Decisive
      <4> QED BY <1>0, <3>3, <3>4, <4>1 DEF Upsert
    <3>5. CASE e.type \in {"classified", "result"}
      <4>1. Apply(e)[h] = Patch(shown[h], e) /\ Stamp(h, e) = e.at
        BY <1>2, <3>5, ApplyRow DEF Stamp, ItemEvents
      <4>2. CASE Ms[e.at] < Ms[v]
        BY <1>0, <4>1, <4>2 DEF Patch
      <4>3. CASE e.at = v /\ e.status = v
        <5>1. e.status = shown[h].status /\ Ms[e.at] = shown[h].seen /\ shown[h] \in Shown
          BY <1>0, <4>3
        <5> QED BY <4>1, <5>1, SamePatch
      <4> QED BY <3>3, <3>5, <4>1, <4>2, <4>3
    <3> QED BY <2>2, <3>2, <3>4, <3>5
  <2> QED BY <2>3, <2>4
<1> QED BY <1>1, <1>2

-----------------------------------------------------------------------------
\* Time stamps: none is ahead of the clock, no two rows were created at the same one, and
\* none is in the hands of two who add.
Inserting(w) == job[w].todo = <<"insert">>
Stamps ==
    /\ \A h \in Row : ver[h] <= clock
    /\ \A h \in Present : born[h] <= clock
    /\ \A g, h \in Present : born[g] = born[h] => g = h
    /\ \A w \in Writer : Inserting(w) =>
          /\ 0 < job[w].wrote /\ job[w].wrote <= clock
          /\ \A h \in Present : job[w].wrote # born[h]
          /\ \A x \in Writer : Inserting(x) /\ job[x].wrote = job[w].wrote => x = w

\* The buffer of a connection is taken only when its snapshot has been sent and is empty
\* when it is open; nothing has been sent before init; and a load that is over is forgotten.
LinkTidy ==
    /\ link.state = "reading" => link.batch = <<>> /\ (link.first => link.delivered = {})
    /\ link.state = "open" => link.batch = <<>> /\ link.queue = <<>>
LoadTidy == ~load.on => load = NoLoad

\* What a writer holds is about the row it works on; a classification is announced before
\* the change of the row.
JobTidy ==
    \A w \in Writer :
       LET e == job[w].event
       IN  /\ e.type \in ItemEvents \cup {"removed"} => e.row = job[w].row /\ e.row \in Row
           /\ e.type \in ItemEvents \ {"classified"} => e.status = e.at
           /\ e.type = "classified" => job[w].todo = <<"changed">>
           /\ Inserting(w) => e = NoEvent

\* To settle a writer is to leave it as it is, or idle if it has nothing to do.
LEMMA Settled ==
    ASSUME NEW j
    PROVE  Settle(j) = j \/ (Settle(j) = Idle /\ j.todo = <<>> /\ j.event = NoEvent)
BY DEF Settle

\* An idle writer has nothing to do and holds nothing.
LEMMA IdleIs ==
    /\ Idle.todo = <<>> /\ Idle.event = NoEvent /\ Idle.row = 0
    /\ NoEvent.type = "none" /\ NoEvent \notin Event
    /\ "none" \notin ItemEvents \cup Removals
BY DEF Idle, NoEvent, Event, ItemEvents, Removals

Changes == {<<"changed">>, <<"classified", "changed">>, <<"changed", "result">>}

\* The steps of a writer before and after its first one.
LEMMA StepsAre ==
    ASSUME NEW s \in Steps \ {<<>>, <<"insert">>}
    PROVE  /\ s \in Changes \cup {<<"result">>}
           /\ Head(s) \in ItemEvents
           /\ Tail(s) \in {<<>>, <<"changed">>, <<"result">>}
           /\ Head(s) = "classified" => Tail(s) = <<"changed">>
           /\ s \in Changes => Head(s) \in {"classified", "changed"}
<1>1. CASE s = <<"changed">>
  BY <1>1 DEF Steps, ItemEvents, Changes
<1>2. CASE s = <<"result">>
  <2>1. s \notin Changes
    BY <1>2 DEF Changes
  <2> QED BY <1>2, <2>1 DEF Steps, ItemEvents
<1>3. CASE s = <<"classified", "changed">>
  BY <1>3 DEF Steps, ItemEvents, Changes
<1>4. CASE s = <<"changed", "result">>
  BY <1>4 DEF Steps, ItemEvents, Changes
<1> QED BY <1>1, <1>2, <1>3, <1>4 DEF Steps

\* These are different.
LEMMA StepsDiffer ==
    /\ <<>> # <<"insert">> /\ <<"changed">> # <<"insert">> /\ <<"result">> # <<"insert">>
    /\ \A s \in Changes : s # <<"insert">> /\ s # <<>>
    /\ <<"changed">> \in Changes
<1>1. <<"classified", "changed">> # <<"insert">> /\ <<"changed", "result">> # <<"insert">>
  OBVIOUS
<1> QED BY <1>1 DEF Changes

\* What a writer holds after it has read its row again.
LEMMA FetchJob ==
    ASSUME TypeInv, NEW w \in Writer, Fetch(w)
    PROVE  /\ job[w].row \in Row /\ job[w].event = NoEvent
           /\ job[w].todo \in Changes \cup {<<"result">>}
           /\ job'[w].todo # <<"insert">>
           /\ job' = [job EXCEPT ![w] = job'[w]]
           /\ job'[w].todo \in {<<>>, <<"changed">>, <<"result">>}
           /\ ver[job[w].row] = 0 => job'[w].event = NoEvent
           /\ ver[job[w].row] # 0 =>
                /\ job'[w].row = job[w].row
                /\ job'[w].event = [type |-> Head(job[w].todo), row |-> job[w].row,
                                    at |-> ver[job[w].row], status |-> job'[w].event.status]
                /\ Head(job[w].todo) \in ItemEvents
                /\ Head(job[w].todo) # "classified" => job'[w].event.status = ver[job[w].row]
                /\ Head(job[w].todo) = "classified" => job'[w].todo = <<"changed">>
                /\ job[w].todo \in Changes => Head(job[w].todo) \in {"classified", "changed"}
<1> DEFINE h == job[w].row
           what == Head(job[w].todo)
           rest == Tail(job[w].todo)
           event == [type |-> what, row |-> h, at |-> ver[h],
                     status |-> IF what = "classified" THEN job[w].wrote ELSE ver[h]]
           found == [job[w] EXCEPT !.todo = rest, !.event = event]
           gone == [job[w] EXCEPT !.todo = IF what = "changed" THEN rest ELSE <<>>]
           j == Settle(IF ver[h] = 0 THEN gone ELSE found)
<1>1. job[w] \in Job /\ job[w].event = NoEvent /\ job[w].todo \in Steps \ {<<>>, <<"insert">>}
      /\ h \in Row
  BY DEF TypeInv, TypeOK, Fetch, Job
<1>2. /\ job[w].todo \in Changes \cup {<<"result">>} /\ what \in ItemEvents
      /\ rest \in {<<>>, <<"changed">>, <<"result">>}
      /\ what = "classified" => rest = <<"changed">>
      /\ job[w].todo \in Changes => what \in {"classified", "changed"}
  BY <1>1, StepsAre
<1>3. job' = [job EXCEPT ![w] = j]
  BY DEF Fetch
<1>7. \A s \in {<<>>, <<"changed">>, <<"result">>} : s # <<"insert">>
  BY StepsDiffer
<1>4. job' = [job EXCEPT ![w] = job'[w]] /\ job'[w] = j
  <2> HIDE DEF j
  <2> QED BY <1>3 DEF TypeInv, TypeOK
<1>5. CASE ver[h] = 0
  <2>1. /\ gone.todo \in {<<>>, <<"changed">>, <<"result">>} /\ gone.event = NoEvent
    BY <1>1, <1>2 DEF Job
  <2>2. j = Settle(gone)
    BY <1>5
  <2> HIDE DEF gone, j
  <2>3. j = gone \/ j = Idle
    BY <2>2, Settled
  <2> QED BY <1>1, <1>2, <1>4, <1>5, <1>7, <2>1, <2>3, IdleIs
<1>6. CASE ver[h] # 0
  <2>1. found.todo = rest /\ found.event = event /\ found.row = h
    BY <1>1 DEF Job
  <2>2. event # NoEvent /\ event.type = what
    BY <1>2 DEF NoEvent, ItemEvents
  <2>3. event.status = IF what = "classified" THEN job[w].wrote ELSE ver[h]
    OBVIOUS
  <2>4. event = [type |-> what, row |-> h, at |-> ver[h], status |-> event.status]
    OBVIOUS
  <2>5. j = Settle(found)
    BY <1>6
  <2> HIDE DEF found, event, j
  <2>6. j = found
    BY <2>1, <2>2, <2>5, Settled
  <2> QED BY <1>1, <1>2, <1>4, <1>6, <1>7, <2>1, <2>3, <2>4, <2>6
<1> QED BY <1>5, <1>6

\* A writer that has announced its event keeps what it has to do.
LEMMA AnnounceJob ==
    ASSUME TypeInv, NEW w \in Writer, Announce(w)
    PROVE  /\ job[w] \in Job /\ job[w].event \in Event
           /\ job' = [job EXCEPT ![w] = job'[w]] /\ job'[w].event = NoEvent
           /\ job'[w].todo = job[w].todo
           /\ job[w].todo # <<>> => job'[w].row = job[w].row /\ job'[w].wrote = job[w].wrote
<1> DEFINE k == [job[w] EXCEPT !.event = NoEvent]
           j == Settle(k)
<1>1. job[w] \in Job /\ job[w].event \in Event
  BY DEF TypeInv, TypeOK, Announce, Job
<1>2. job' = [job EXCEPT ![w] = j]
  BY DEF Announce
<1>3. job' = [job EXCEPT ![w] = job'[w]] /\ job'[w] = j
  <2> HIDE DEF j
  <2> QED BY <1>2 DEF TypeInv, TypeOK
<1>4. k.event = NoEvent /\ k.todo = job[w].todo /\ k.row = job[w].row /\ k.wrote = job[w].wrote
  BY <1>1 DEF Job
<1> HIDE DEF k
<1>5. j = k \/ (j = Idle /\ k.todo = <<>>)
  BY Settled
<1> HIDE DEF j
<1> QED BY <1>1, <1>3, <1>4, <1>5, IdleIs

-----------------------------------------------------------------------------
\* Init: the rows have the stamps 1, 2, ... in their order.
LEMMA InitStamps == Init => Stamps
<1> SUFFICES ASSUME Init PROVE Stamps
  OBVIOUS
<1> DEFINE upto(rows, h) == {g \in rows : g <= h}
<1>1. PICK rows \in SUBSET Stored :
        ver = [h \in Row |-> IF h \in rows THEN Cardinality(upto(rows, h)) ELSE 0]
  BY DEF Init
<1>2. born = ver /\ clock = Cardinality(Stored) /\ job = [w \in Writer |-> Idle]
  BY DEF Init
<1>3. \A h \in Row : Cardinality(upto(rows, h)) \in 0 .. Cardinality(Stored)
  BY Finite
<1>4. \A h \in Row : ver[h] \in 0 .. Cardinality(Stored) /\ (ver[h] > 0 => h \in rows)
  BY <1>1, <1>3, Counted
<1>5. ASSUME NEW g \in rows, NEW h \in rows, g < h
      PROVE  Cardinality(upto(rows, g)) < Cardinality(upto(rows, h))
  <2>1. rows \subseteq Row /\ \A x \in rows : x \in Nat
    BY LiveViewAssumption
  <2>2. upto(rows, g) \subseteq upto(rows, h) /\ h \in upto(rows, h) /\ h \notin upto(rows, g)
    BY <1>5, <2>1
  <2>3. IsFiniteSet(upto(rows, h)) /\ upto(rows, g) # upto(rows, h)
    BY <2>1, <2>2, Finite
  <2> HIDE DEF upto
  <2> QED BY <2>2, <2>3, FS_Subset, FS_CardinalityType
<1>6. \A g, h \in Present : born[g] = born[h] => g = h
  <2> SUFFICES ASSUME NEW g \in Present, NEW h \in Present, born[g] = born[h], g # h
               PROVE  FALSE
    OBVIOUS
  <2>1. g \in rows /\ h \in rows /\ g \in Nat /\ h \in Nat
    BY <1>4, LiveViewAssumption DEF Present
  <2>2. born[g] = Cardinality(upto(rows, g)) /\ born[h] = Cardinality(upto(rows, h))
    BY <1>1, <1>2, <2>1, LiveViewAssumption
  <2>3. Cardinality(upto(rows, g)) \in Nat /\ Cardinality(upto(rows, h)) \in Nat
    BY <1>3, <2>1, LiveViewAssumption
  <2>4. g < h \/ h < g
    BY <2>1
  <2>5. CASE g < h
    <3>1. Cardinality(upto(rows, g)) < Cardinality(upto(rows, h))
      BY <1>5, <2>1, <2>5
    <3>2. born[g] < born[h] /\ born[g] \in Nat
      BY <2>2, <2>3, <3>1
    <3> QED BY <3>2
  <2>6. CASE h < g
    <3>1. Cardinality(upto(rows, h)) < Cardinality(upto(rows, g))
      BY <1>5, <2>1, <2>6
    <3>2. born[h] < born[g] /\ born[h] \in Nat
      BY <2>2, <2>3, <3>1
    <3> QED BY <3>2
  <2> QED BY <2>4, <2>5, <2>6
<1>7. \A w \in Writer : ~Inserting(w)
  BY <1>2, IdleIs, StepsDiffer DEF Inserting
<1> QED BY <1>2, <1>4, <1>6, <1>7, Counted DEF Stamps, Present

\* A step that creates no row and gives nobody one to add keeps them.
LEMMA StampsKept ==
    ASSUME TypeInv, Stamps, born' = born, clock' \in Nat, clock <= clock',
           Present' \subseteq Present, \A h \in Row : ver'[h] <= clock',
           \A w \in Writer : Inserting(w)' => Inserting(w) /\ job'[w].wrote = job[w].wrote
    PROVE  Stamps'
<1>0. clock \in Nat /\ \A h \in Row : born[h] \in Nat
  BY Counted DEF TypeInv, TypeOK
<1>1. \A w \in Writer : job[w].wrote \in Nat
  BY Counted DEF TypeInv, TypeOK, Job
<1>2. \A h \in Present' : h \in Row /\ h \in Present
  BY DEF Present
<1>3. \A h \in Present' : born'[h] <= clock'
  BY <1>0, <1>2 DEF Stamps
<1>4. \A g, h \in Present' : born'[g] = born'[h] => g = h
  BY <1>2 DEF Stamps
<1>5. \A w \in Writer : Inserting(w)' =>
          /\ 0 < job'[w].wrote /\ job'[w].wrote <= clock'
          /\ \A h \in Present' : job'[w].wrote # born'[h]
          /\ \A x \in Writer : Inserting(x)' /\ job'[x].wrote = job'[w].wrote => x = w
  BY <1>0, <1>1, <1>2 DEF Stamps
<1> QED BY <1>3, <1>4, <1>5 DEF Stamps

\* Every step of a writer keeps them: who builds an item takes a new stamp, and who adds it
\* gives it away.
LEMMA WriteStamps ==
    ASSUME TypeInv, Stamps, NEW w \in Writer, Write(w)
    PROVE  Stamps'
<1>0. /\ clock \in Nat /\ job \in [Writer -> Job]
      /\ \A h \in Row : ver[h] \in Nat /\ born[h] \in Nat
      /\ \A x \in Writer : job[x].wrote \in Nat
  BY Counted DEF TypeInv, TypeOK, Job
<1>1. ASSUME NEW h \in Row, Discover(w, h) PROVE Stamps'
  <2>1. /\ job' = [job EXCEPT ![w] = [Idle EXCEPT !.row = h, !.todo = <<"insert">>, !.wrote = clock + 1]]
        /\ UNCHANGED <<ver, born>> /\ clock' = clock + 1
    BY <1>1 DEF Discover
  <2>2. job'[w].wrote = clock + 1 /\ \A x \in Writer \ {w} : job'[x] = job[x]
    BY <1>0, <2>1 DEF Idle
  <2>3. Present' = Present /\ \A g \in Present : g \in Row
    BY <2>1 DEF Present
  <2>4. \A x \in Writer : Inserting(x)' =>
          /\ 0 < job'[x].wrote /\ job'[x].wrote <= clock'
          /\ \A g \in Present' : job'[x].wrote # born'[g]
          /\ \A y \in Writer : Inserting(y)' /\ job'[y].wrote = job'[x].wrote => y = x
    <3> SUFFICES ASSUME NEW x \in Writer, Inserting(x)'
                 PROVE  /\ 0 < job'[x].wrote /\ job'[x].wrote <= clock'
                        /\ \A g \in Present' : job'[x].wrote # born'[g]
                        /\ \A y \in Writer : Inserting(y)' /\ job'[y].wrote = job'[x].wrote => y = x
      OBVIOUS
    <3>0. \A y \in Writer \ {w} : Inserting(y)' => Inserting(y) /\ job[y].wrote <= clock
      BY <2>2 DEF Inserting, Stamps
    <3>1. CASE x = w
      <4>1. \A g \in Present : born[g] <= clock
        BY DEF Stamps
      <4>2. \A y \in Writer : Inserting(y)' /\ job'[y].wrote = job'[x].wrote => y = x
        BY <1>0, <2>2, <3>0, <3>1
      <4> QED BY <1>0, <2>1, <2>2, <2>3, <3>1, <4>1, <4>2
    <3>2. CASE x # w
      <4>1. Inserting(x) /\ job'[x] = job[x] /\ job[x].wrote <= clock /\ 0 < job[x].wrote
        BY <2>2, <3>0, <3>2 DEF Stamps
      <4>2. \A y \in Writer : Inserting(y)' /\ job'[y].wrote = job'[x].wrote => y = x
        BY <1>0, <2>2, <3>0, <3>2, <4>1 DEF Stamps
      <4> QED BY <1>0, <2>1, <2>3, <4>1, <4>2 DEF Stamps
    <3> QED BY <3>1, <3>2
  <2> QED BY <1>0, <2>1, <2>3, <2>4 DEF Stamps
<1>2. CASE Insert(w)
  <2> DEFINE h == job[w].row
             v == job[w].wrote
             j == [Idle EXCEPT !.row = h, !.wrote = v,
                     !.event = [type |-> "changed", row |-> h, at |-> v, status |-> v]]
  <2>1. /\ Inserting(w) /\ h \in Row /\ clock' = clock /\ clock \in Nat
        /\ 0 < v /\ v <= clock /\ v \in Nat /\ \A g \in Present : v # born[g]
    BY <1>0, <1>2, StepsDiffer DEF Insert, Inserting, Stamps, TypeInv
  <2>2. j.todo = <<>>
    BY DEF Idle
  <2>3. \/ job' = [job EXCEPT ![w] = Idle] /\ UNCHANGED <<ver, born>>
        \/ /\ job' = [job EXCEPT ![w] = j] /\ ver[h] = 0
           /\ ver' = [ver EXCEPT ![h] = v] /\ born' = [born EXCEPT ![h] = v]
    BY <1>0, <1>2, <2>1 DEF Insert
  <2> HIDE DEF j
  <2>4. /\ job'[w].todo = <<>>
        /\ \A x \in Writer \ {w} : job'[x] = job[x]
    BY <1>0, <2>2, <2>3, IdleIs
  <2>5. \A x \in Writer : Inserting(x)' => x # w /\ Inserting(x) /\ job'[x].wrote = job[x].wrote
    BY <2>4, StepsDiffer DEF Inserting
  <2>6. CASE UNCHANGED <<ver, born>>
    <3>1. Present' = Present
      BY <2>6 DEF Present
    <3> QED BY <2>1, <2>5, <2>6, <3>1, StampsKept DEF Stamps
  <2>7. CASE /\ ver[h] = 0
             /\ ver' = [ver EXCEPT ![h] = v] /\ born' = [born EXCEPT ![h] = v]
    <3> HIDE DEF h, v
    <3>1. /\ ver'[h] = v /\ born'[h] = v /\ h \notin Present
          /\ \A g \in Row \ {h} : ver'[g] = ver[g] /\ born'[g] = born[g]
      BY <2>1, <2>7 DEF Present, TypeInv, TypeOK
    <3>2. \A g \in Present' : g \in Row /\ (g = h \/ (g # h /\ g \in Present /\ born'[g] = born[g]))
      BY <3>1 DEF Present
    <3>3. /\ \A g \in Row : ver'[g] <= clock'
          /\ \A g \in Present' : born'[g] <= clock'
      BY <2>1, <3>1, <3>2 DEF Stamps
    <3>4. \A f, g \in Present' : born'[f] = born'[g] => f = g
      BY <2>1, <3>1, <3>2 DEF Stamps
    <3>5. \A x \in Writer : Inserting(x)' =>
          /\ 0 < job'[x].wrote /\ job'[x].wrote <= clock'
          /\ \A g \in Present' : job'[x].wrote # born'[g]
          /\ \A y \in Writer : Inserting(y)' /\ job'[y].wrote = job'[x].wrote => y = x
      <4> SUFFICES ASSUME NEW x \in Writer, Inserting(x)'
                   PROVE  /\ 0 < job'[x].wrote /\ job'[x].wrote <= clock'
                          /\ \A g \in Present' : job'[x].wrote # born'[g]
                          /\ \A y \in Writer : Inserting(y)' /\ job'[y].wrote = job'[x].wrote => y = x
        OBVIOUS
      <4>1. x # w /\ Inserting(x) /\ job'[x].wrote = job[x].wrote /\ job[x].wrote # v
        BY <2>1, <2>5 DEF Stamps, v
      <4>2. \A g \in Present' : job'[x].wrote # born'[g]
        BY <3>1, <3>2, <4>1 DEF Stamps
      <4> QED BY <2>1, <2>5, <4>1, <4>2 DEF Stamps
    <3> QED BY <3>3, <3>4, <3>5 DEF Stamps
  <2> QED BY <2>3, <2>6, <2>7
<1>3. ASSUME NEW h \in Row, NEW kind \in DOMAIN Announced, Change(w, h, kind) PROVE Stamps'
  <2> DEFINE j == [Idle EXCEPT !.row = h, !.todo = Announced[kind], !.wrote = clock + 1]
  <2>1. /\ job' = [job EXCEPT ![w] = j] /\ ver[h] > 0 /\ born' = born
        /\ ver' = [ver EXCEPT ![h] = clock + 1] /\ clock' = clock + 1
    BY <1>3 DEF Change
  <2>2. j.todo \in Changes
    BY DEF Announced, Changes, Idle
  <2> HIDE DEF j
  <2>3. \A x \in Writer : Inserting(x)' => Inserting(x) /\ job'[x].wrote = job[x].wrote
    BY <1>0, <2>1, <2>2, StepsDiffer DEF Inserting
  <2>4. /\ Present' \subseteq Present
        /\ \A g \in Row : ver'[g] <= clock'
    BY <1>0, <2>1 DEF Present, Stamps, TypeInv, TypeOK
  <2> QED BY <1>0, <2>1, <2>3, <2>4, StampsKept
<1>4. CASE Fetch(w)
  <2>1. \A x \in Writer : Inserting(x)' => Inserting(x) /\ job'[x].wrote = job[x].wrote
    <3>1. job'[w].todo \in {<<>>, <<"changed">>, <<"result">>} /\ job' = [job EXCEPT ![w] = job'[w]]
      BY <1>4, FetchJob
    <3>2. \A x \in Writer \ {w} : job'[x] = job[x]
      BY <1>0, <3>1
    <3> QED BY <3>1, <3>2, StepsDiffer DEF Inserting
  <2>2. UNCHANGED <<ver, born, clock>>
    BY <1>4 DEF Fetch, library
  <2> QED BY <1>0, <2>1, <2>2, StampsKept DEF Stamps, Present
<1>5. ASSUME NEW h \in Row, Remove(w, h) PROVE Stamps'
  <2> DEFINE j == [Idle EXCEPT !.row = h,
                    !.event = [type |-> "removed", row |-> h, at |-> 0, status |-> 0]]
  <2>1. /\ job' = [job EXCEPT ![w] = j] /\ UNCHANGED <<born, clock>>
        /\ ver' = [ver EXCEPT ![h] = 0]
    BY <1>5 DEF Remove
  <2>2. j.todo = <<>>
    BY DEF Idle
  <2> HIDE DEF j
  <2>3. \A x \in Writer : Inserting(x)' => Inserting(x) /\ job'[x].wrote = job[x].wrote
    BY <1>0, <2>1, <2>2, StepsDiffer DEF Inserting
  <2>4. /\ Present' \subseteq Present
        /\ \A g \in Row : ver'[g] <= clock'
    BY <1>0, <2>1 DEF Present, Stamps, TypeInv, TypeOK
  <2> QED BY <1>0, <2>1, <2>3, <2>4, StampsKept
<1>6. ASSUME NEW own \in BOOLEAN, Clear(w, own) PROVE Stamps'
  <2> DEFINE j == [Idle EXCEPT !.event = [type |-> "cleared", row |-> 0, at |-> 0, status |-> 0]]
  <2>1. /\ job' = [job EXCEPT ![w] = j] /\ UNCHANGED <<born, clock>> /\ ver' = NoVersions
    BY <1>6 DEF Clear
  <2>2. j.todo = <<>>
    BY DEF Idle
  <2> HIDE DEF j
  <2>3. \A x \in Writer : Inserting(x)' => Inserting(x) /\ job'[x].wrote = job[x].wrote
    BY <1>0, <2>1, <2>2, StepsDiffer DEF Inserting
  <2>4. /\ Present' \subseteq Present
        /\ \A g \in Row : ver'[g] <= clock'
    BY <1>0, <2>1 DEF Present, NoVersions
  <2> QED BY <1>0, <2>1, <2>3, <2>4, StampsKept
<1>7. CASE Announce(w)
  <2>1. \A x \in Writer : Inserting(x)' => Inserting(x) /\ job'[x].wrote = job[x].wrote
    <3>1. /\ job' = [job EXCEPT ![w] = job'[w]] /\ job'[w].todo = job[w].todo
          /\ job[w].todo # <<>> => job'[w].wrote = job[w].wrote
      BY <1>7, AnnounceJob
    <3>2. \A x \in Writer \ {w} : job'[x] = job[x]
      BY <1>0, <3>1
    <3> QED BY <3>1, <3>2, StepsDiffer DEF Inserting
  <2>2. UNCHANGED <<ver, born, clock>>
    BY <1>7 DEF Announce, library
  <2> QED BY <1>0, <2>1, <2>2, StampsKept DEF Stamps, Present
<1> QED BY <1>1, <1>2, <1>3, <1>4, <1>5, <1>6, <1>7 DEF Write

\* So does every other step.
LEMMA NextStamps == TypeInv /\ Stamps /\ [Next]_vars => Stamps'
<1> SUFFICES ASSUME TypeInv, Stamps, [Next]_vars PROVE Stamps'
  OBVIOUS
<1>1. CASE Serve \/ Browse \/ UNCHANGED vars
  <2>1. UNCHANGED <<ver, born, clock, job>>
    BY <1>1 DEF Serve, Connect, ReadPage, TakeBatch, SendBatched, Activate, Drop, Disconnect,
                Browse, Receive, StartLoad, ServeLoad, ReceiveLoad, FailLoad, ReceiveCleared,
                FailCleared, vars, library
  <2> QED BY <2>1 DEF Stamps, Present, Inserting
<1> QED BY <1>1, WriteStamps DEF Next

-----------------------------------------------------------------------------
\* Init: nobody does anything.
LEMMA InitTidy == Init => LinkTidy /\ LoadTidy /\ JobTidy
<1> SUFFICES ASSUME Init PROVE LinkTidy /\ LoadTidy /\ JobTidy
  OBVIOUS
<1>1. LinkTidy /\ LoadTidy
  BY DEF Init, Down, LinkTidy, LoadTidy
<1>2. \A w \in Writer : job[w] = Idle
  BY DEF Init
<1> QED BY <1>1, <1>2, IdleIs DEF JobTidy

\* A connection that starts to be read for and one that is opened.
LEMMA NewLinks ==
    LET reading == [Down EXCEPT !.state = "reading"]
        open == [Down EXCEPT !.state = "open", !.first = FALSE]
    IN  /\ reading.state = "reading" /\ reading.first = TRUE /\ reading.delivered = {}
        /\ reading.queue = <<>> /\ reading.batch = <<>>
        /\ open.state = "open" /\ open.queue = <<>> /\ open.batch = <<>>
        /\ Down.state = "down"
BY DEF Down

\* Every step keeps the connection so.
LEMMA NextLinkTidy == TypeInv /\ LinkTidy /\ [Next]_vars => LinkTidy'
<1> SUFFICES ASSUME TypeInv, LinkTidy, [Next]_vars PROVE LinkTidy'
  OBVIOUS
<1>0. link \in Link
  BY DEF TypeInv, TypeOK
<1>1. ASSUME NEW w \in Writer, Write(w) PROVE LinkTidy'
  <2>1. CASE Announce(w)
    <3>1. \/ link.state \in {"reading", "draining"}
             /\ link' = [link EXCEPT !.queue = Append(@, job[w].event)]
          \/ link' = link
      BY <2>1 DEF Announce
    <3> QED BY <1>0, <3>1 DEF LinkTidy, Link
  <2>2. CASE link'.state = link.state /\ link'.batch = link.batch /\ link'.queue = link.queue
             /\ link'.first = link.first /\ link'.delivered = link.delivered
    BY <2>2 DEF LinkTidy
  <2>3. ASSUME ~Announce(w)
        PROVE  /\ link'.state = link.state /\ link'.batch = link.batch
               /\ link'.queue = link.queue /\ link'.first = link.first
               /\ link'.delivered = link.delivered
    BY <1>0, <1>1, <2>3 DEF Write, Discover, Insert, Change, Fetch, Remove, Clear, Link
  <2> QED BY <2>1, <2>2, <2>3
<1>2. CASE Serve
  <2>1. CASE Connect \/ Activate \/ Disconnect
    <3>1. CASE Connect
      BY <3>1, NewLinks DEF Connect, LinkTidy
    <3>2. CASE Activate
      BY <3>2, NewLinks DEF Activate, LinkTidy
    <3>3. CASE Disconnect
      BY <3>3, NewLinks DEF Disconnect, LinkTidy
    <3> QED BY <2>1, <3>1, <3>2, <3>3
  <2>2. CASE TakeBatch \/ SendBatched \/ Drop
    BY <1>0, <2>2 DEF TakeBatch, SendBatched, Drop, Link, LinkTidy
  <2>3. CASE ReadPage
    <3>1. \/ link'.state \in {"reading", "draining"} /\ link'.first = FALSE
             /\ link'.batch = link.batch /\ link.state = "reading"
          \/ link' = Down
      BY <1>0, <2>3 DEF ReadPage, Link
    <3> QED BY <3>1 DEF LinkTidy, Down
  <2> QED BY <1>2, <2>1, <2>2, <2>3 DEF Serve
<1>3. CASE Browse \/ UNCHANGED vars
  <2>1. link' = link
    BY <1>3 DEF Browse, Receive, StartLoad, ServeLoad, ReceiveLoad, FailLoad, ReceiveCleared,
                FailCleared, vars
  <2> QED BY <2>1 DEF LinkTidy
<1> QED BY <1>1, <1>2, <1>3 DEF Next

\* Every step keeps the load so.
LEMMA NextLoadTidy == TypeInv /\ LoadTidy /\ [Next]_vars => LoadTidy'
<1> SUFFICES ASSUME TypeInv, LoadTidy, [Next]_vars PROVE LoadTidy'
  OBVIOUS
<1>0. load \in Load
  BY DEF TypeInv, TypeOK
<1>1. CASE StartLoad \/ ServeLoad \/ ReceiveLoad
  <2>1. CASE StartLoad
    BY <2>1 DEF StartLoad, LoadTidy, NoLoad
  <2>2. CASE ServeLoad
    BY <1>0, <2>2 DEF ServeLoad, LoadTidy, Load
  <2>3. CASE ReceiveLoad
    <3>1. load.on
      BY <2>3 DEF ReceiveLoad, LoadTidy, NoLoad, NoAnswer
    <3>2. load' = NoLoad \/ load'.on = load.on
      BY <1>0, <2>3 DEF ReceiveLoad, Load
    <3> QED BY <3>1, <3>2 DEF LoadTidy
  <2> QED BY <1>1, <2>1, <2>2, <2>3
<1>2. CASE FailLoad
  BY <1>2 DEF FailLoad, LoadTidy
<1>3. CASE Serve \/ Receive \/ ReceiveCleared \/ FailCleared \/ UNCHANGED vars
  BY <1>3 DEF Serve, Connect, ReadPage, TakeBatch, SendBatched, Activate, Drop, Disconnect,
              Receive, ReceiveCleared, FailCleared, vars, page, LoadTidy
<1>4. ASSUME NEW w \in Writer, Write(w) PROVE LoadTidy'
  BY <1>4 DEF Write, Discover, Insert, Change, Fetch, Remove, Clear, Announce, page, LoadTidy
<1> QED BY <1>1, <1>2, <1>3, <1>4 DEF Next, Browse

\* A writer that is given something that holds nothing, or one event of its row.
LEMMA JobTidyKept ==
    ASSUME TypeInv, JobTidy, NEW w \in Writer, job' = [job EXCEPT ![w] = job'[w]],
           LET e == job'[w].event
           IN  /\ e.type \in ItemEvents \cup {"removed"} => e.row = job'[w].row /\ e.row \in Row
               /\ e.type \in ItemEvents \ {"classified"} => e.status = e.at
               /\ e.type = "classified" => job'[w].todo = <<"changed">>
               /\ Inserting(w)' => e = NoEvent
    PROVE  JobTidy'
<1>1. \A x \in Writer : x = w \/ job'[x] = job[x]
  BY DEF TypeInv, TypeOK
<1> QED BY <1>1 DEF JobTidy, Inserting

\* A step that gives one writer something changes that writer only.
LEMMA JobGiven ==
    ASSUME TypeInv, NEW w \in Writer, NEW j, job' = [job EXCEPT ![w] = j]
    PROVE  /\ job' = [job EXCEPT ![w] = job'[w]] /\ job'[w] = j
           /\ \A x \in Writer : x # w => job'[x] = job[x]
BY DEF TypeInv, TypeOK

\* What the events of a writer that starts something are.
LEMMA StartedJob ==
    ASSUME NEW h, NEW v, NEW t, NEW s
    PROVE  /\ [Idle EXCEPT !.row = h, !.todo = s, !.wrote = v].event = NoEvent
           /\ [Idle EXCEPT !.row = h, !.todo = s, !.wrote = v].row = h
           /\ [Idle EXCEPT !.row = h, !.todo = s, !.wrote = v].todo = s
           /\ [Idle EXCEPT !.row = h, !.wrote = v, !.event = t].event = t
           /\ [Idle EXCEPT !.row = h, !.wrote = v, !.event = t].row = h
           /\ [Idle EXCEPT !.row = h, !.wrote = v, !.event = t].todo = <<>>
           /\ [Idle EXCEPT !.row = h, !.event = t].row = h
           /\ [Idle EXCEPT !.row = h, !.event = t].todo = <<>>
           /\ [Idle EXCEPT !.event = t].todo = <<>>
           /\ [Idle EXCEPT !.row = h, !.event = t].event = t
           /\ [Idle EXCEPT !.event = t].event = t
BY DEF Idle

\* Every step keeps what writers hold so.
LEMMA NextJobTidy == TypeInv /\ JobTidy /\ [Next]_vars => JobTidy'
<1> SUFFICES ASSUME TypeInv, JobTidy, [Next]_vars PROVE JobTidy'
  OBVIOUS
<1>1. ASSUME NEW w \in Writer, Write(w) PROVE JobTidy'
  <2> DEFINE Fits(j) ==
        /\ j.event.type \in ItemEvents \cup {"removed"} => j.event.row = j.row /\ j.event.row \in Row
        /\ j.event.type \in ItemEvents \ {"classified"} => j.event.status = j.event.at
        /\ j.event.type = "classified" => j.todo = <<"changed">>
        /\ j.todo = <<"insert">> => j.event = NoEvent
  <2>0. ASSUME NEW j, job' = [job EXCEPT ![w] = j], Fits(j) PROVE JobTidy'
    <3>1. job' = [job EXCEPT ![w] = job'[w]] /\ job'[w] = j
      BY <2>0, JobGiven
    <3> QED BY <2>0, <3>1, JobTidyKept DEF Inserting
  <2>1. \A j : j.event = NoEvent => Fits(j)
    BY IdleIs DEF ItemEvents
  <2>2. ASSUME NEW h \in Row, Discover(w, h) PROVE JobTidy'
    <3> DEFINE j == [Idle EXCEPT !.row = h, !.todo = <<"insert">>, !.wrote = clock + 1]
    <3>1. job' = [job EXCEPT ![w] = j] /\ j.event = NoEvent
      BY <2>2, StartedJob DEF Discover
    <3> HIDE DEF j, Fits
    <3> QED BY <2>0, <2>1, <3>1
  <2>3. CASE Insert(w)
    <3> DEFINE h == job[w].row
               v == job[w].wrote
               e == [type |-> "changed", row |-> h, at |-> v, status |-> v]
               j == [Idle EXCEPT !.row = h, !.wrote = v, !.event = e]
    <3>1. job' = [job EXCEPT ![w] = Idle] \/ job' = [job EXCEPT ![w] = j]
      BY <2>3 DEF Insert
    <3>2. j.event = e /\ j.row = h /\ j.todo = <<>>
      BY StartedJob
    <3>3. e.type = "changed" /\ e.row = h /\ e.status = e.at /\ h \in Row
      BY <2>3, StepsDiffer DEF Insert, TypeInv
    <3> HIDE DEF j, e
    <3>4. Fits(j)
      BY <3>2, <3>3, StepsDiffer
    <3> HIDE DEF Fits
    <3> QED BY <2>0, <2>1, <3>1, <3>4, IdleIs
  <2>4. ASSUME NEW h \in Row, NEW kind \in DOMAIN Announced, Change(w, h, kind) PROVE JobTidy'
    <3> DEFINE j == [Idle EXCEPT !.row = h, !.todo = Announced[kind], !.wrote = clock + 1]
    <3>1. job' = [job EXCEPT ![w] = j] /\ j.event = NoEvent
      BY <2>4, StartedJob DEF Change
    <3> HIDE DEF j, Fits
    <3> QED BY <2>0, <2>1, <3>1
  <2>5. CASE Fetch(w)
    <3>1. job' = [job EXCEPT ![w] = job'[w]] /\ Fits(job'[w])
      <4>1. CASE ver[job[w].row] = 0
        <5>1. job' = [job EXCEPT ![w] = job'[w]] /\ job'[w].event = NoEvent
          BY <2>5, <4>1, FetchJob
        <5> HIDE DEF Fits
        <5> QED BY <2>1, <5>1
      <4>2. CASE ver[job[w].row] # 0
        <5> DEFINE h == job[w].row
                   what == Head(job[w].todo)
        <5>1. /\ job' = [job EXCEPT ![w] = job'[w]] /\ job'[w].row = h
              /\ job'[w].event = [type |-> what, row |-> h, at |-> ver[h],
                                  status |-> job'[w].event.status]
              /\ what # "classified" => job'[w].event.status = ver[h]
              /\ what = "classified" => job'[w].todo = <<"changed">>
              /\ h \in Row /\ job'[w].todo # <<"insert">>
          BY <2>5, <4>2, FetchJob
        <5> HIDE DEF h, what
        <5>2. job'[w].event.type = what /\ job'[w].event.row = h /\ job'[w].event.at = ver[h]
          BY <5>1
        <5> QED BY <5>1, <5>2
      <4> QED BY <4>1, <4>2
    <3> HIDE DEF Fits
    <3> QED BY <2>0, <3>1
  <2>6. ASSUME NEW h \in Row, Remove(w, h) PROVE JobTidy'
    <3> DEFINE e == [type |-> "removed", row |-> h, at |-> 0, status |-> 0]
               j == [Idle EXCEPT !.row = h, !.event = e]
    <3>1. job' = [job EXCEPT ![w] = j] /\ j.event = e /\ j.todo = <<>> /\ j.row = h
      BY <2>6, StartedJob DEF Remove
    <3>2. e.type \notin ItemEvents /\ e.row = h
      BY DEF ItemEvents
    <3> HIDE DEF j, e
    <3>3. Fits(j)
      BY <3>1, <3>2, StepsDiffer DEF ItemEvents
    <3> HIDE DEF Fits
    <3> QED BY <2>0, <3>1, <3>3
  <2>7. ASSUME NEW own \in BOOLEAN, Clear(w, own) PROVE JobTidy'
    <3> DEFINE e == [type |-> "cleared", row |-> 0, at |-> 0, status |-> 0]
               j == [Idle EXCEPT !.event = e]
    <3>1. job' = [job EXCEPT ![w] = j] /\ j.event = e /\ j.todo = <<>>
      BY <2>7, StartedJob DEF Clear
    <3>2. e.type \notin ItemEvents \cup {"removed"}
      BY DEF ItemEvents
    <3> HIDE DEF j, e
    <3>3. Fits(j)
      BY <3>1, <3>2, StepsDiffer DEF ItemEvents
    <3> HIDE DEF Fits
    <3> QED BY <2>0, <3>1, <3>3
  <2>8. CASE Announce(w)
    <3>1. job' = [job EXCEPT ![w] = job'[w]] /\ job'[w].event = NoEvent
      BY <2>8, AnnounceJob
    <3> HIDE DEF Fits
    <3> QED BY <2>0, <2>1, <3>1
  <2> QED BY <1>1, <2>2, <2>3, <2>4, <2>5, <2>6, <2>7, <2>8 DEF Write
<1>2. CASE Serve \/ Browse \/ UNCHANGED vars
  <2>1. job' = job
    BY <1>2 DEF Serve, Connect, ReadPage, TakeBatch, SendBatched, Activate, Drop, Disconnect,
                Browse, Receive, StartLoad, ServeLoad, ReceiveLoad, FailLoad, ReceiveCleared,
                FailCleared, vars
  <2> QED BY <2>1 DEF JobTidy, Inserting
<1> QED BY <1>1, <1>2 DEF Next

-----------------------------------------------------------------------------
\* What the page has been sent and will be sent of events, in order.
Posted == frames \o link.batch
Stream == Posted \o link.queue

\* A connection that is read for or served; and one on which init is still to come, which
\* will replace what the page shows.
Live == link.state \in {"reading", "draining", "open"}
Blank == link.state = "reading" /\ link.first

\* A writer owes the page version v of row h: it will read the row again to announce its
\* change, or has just done so.
Owes(j, h, v) == j.row = h /\ (j.todo \in Changes \/ (j.event.type = "changed" /\ j.event.at = v))
Owed(h) == \E w \in Writer : Owes(job[w], h, ver[h])

\* What was read of a row that is there is its version or one of an earlier millisecond.
Dated(h, u) == ver[h] > 0 /\ (u = ver[h] \/ Ms[u] < Ms[ver[h]])

\* Every step of a writer but an announcement.
Alters(w) ==
    \/ \E h \in Row : Discover(w, h) \/ Remove(w, h)
    \/ \E h \in Row, kind \in DOMAIN Announced : Change(w, h, kind)
    \/ \E own \in BOOLEAN : Clear(w, own)
    \/ Insert(w)
    \/ Fetch(w)

\* Such a step sends nothing, and leaves the page and its load alone.
LEMMA AltersStill ==
    ASSUME TypeInv, NEW w \in Writer, Alters(w)
    PROVE  /\ frames' = frames /\ shown' = shown /\ load' = load
           /\ link'.state = link.state /\ link'.queue = link.queue /\ link'.batch = link.batch
           /\ link'.first = link.first /\ link'.delivered = link.delivered
           /\ holes \subseteq holes'
<1>0. link \in Link
  BY DEF TypeInv, TypeOK
<1>1. CASE link' = link
  BY <1>1 DEF Alters, Discover, Insert, Change, Fetch, Remove, Clear, page
<1>2. CASE link' # link
  <2>1. PICK b : link' = [link EXCEPT !.intact = b]
    BY <1>2 DEF Alters, Discover, Insert, Change, Fetch, Remove, Clear
  <2>2. /\ frames' = frames /\ shown' = shown /\ load' = load /\ holes \subseteq holes'
    BY <1>2 DEF Alters, Discover, Insert, Change, Fetch, Remove, Clear, page
  <2> QED BY <1>0, <2>1, <2>2 DEF Link
<1> QED BY <1>1, <1>2

\* Who does not announce keeps a removal it holds, and what it owes of a row that is
\* there and does not change.
LEMMA AltersKeeps ==
    ASSUME TypeInv, JobTidy, NEW w \in Writer, Alters(w), NEW h \in Row
    PROVE  /\ RemovalPending(h) => RemovalPending(h)'
           /\ ver[h] > 0 /\ ver'[h] = ver[h] /\ Owed(h) => Owed(h)'
<1>1. CASE job[w] = Idle \/ Inserting(w)
  <2>1. job[w].event = NoEvent /\ job[w].todo \notin Changes
    <3>1. CASE job[w] = Idle
      BY <3>1, IdleIs, StepsDiffer
    <3>2. CASE Inserting(w)
      BY <3>2, StepsDiffer DEF Inserting, JobTidy
    <3> QED BY <1>1, <3>1, <3>2
  <2>2. \A x \in Writer : x # w => job'[x] = job[x]
    BY DEF Alters, Discover, Insert, Change, Fetch, Remove, Clear, TypeInv, TypeOK
  <2>3. ~Owes(job[w], h, ver[h]) /\ job[w].event.type \notin Removals
    BY <2>1, IdleIs DEF Owes, Removals
  <2> QED BY <2>2, <2>3 DEF Owed, RemovalPending, Removals
<1>2. CASE Fetch(w)
  <2>1. \A x \in Writer : x # w => job'[x] = job[x]
    BY <1>2 DEF Fetch, TypeInv, TypeOK
  <2>2. job[w].event = NoEvent
    BY <1>2, FetchJob
  <2>3. job[w].event.type \notin Removals
    BY <2>2, IdleIs
  <2>4. ASSUME ver[h] > 0, ver'[h] = ver[h], Owes(job[w], h, ver[h])
        PROVE  Owes(job'[w], h, ver'[h])
    <3>1. job[w].row = h /\ job[w].todo \in Changes
      BY <2>2, <2>4, IdleIs DEF Owes, ItemEvents
    <3> DEFINE what == Head(job[w].todo)
    <3>2. /\ job'[w].row = h /\ what \in {"classified", "changed"}
          /\ job'[w].event = [type |-> what, row |-> h, at |-> ver[h], status |-> job'[w].event.status]
          /\ what = "classified" => job'[w].todo = <<"changed">>
      BY <1>2, <2>4, <3>1, FetchJob
    <3> HIDE DEF what
    <3>3. job'[w].event.type = what /\ job'[w].event.at = ver[h]
      BY <3>2
    <3> QED BY <2>4, <3>2, <3>3, StepsDiffer DEF Owes
  <2> QED BY <2>1, <2>3, <2>4 DEF Owed, RemovalPending, Removals
<1>3. job[w] = Idle \/ Inserting(w) \/ Fetch(w)
  BY DEF Alters, Discover, Insert, Change, Remove, Clear, Inserting
<1> QED BY <1>1, <1>2, <1>3

\* What a step does to one row of the store, unless a race happens: nothing; a change that
\* moves it to a later millisecond and is owed; an addition that is owed; a removal.
LEMMA RowStep ==
    ASSUME TypeInv, Stamps, [Next]_vars, holes' = {}, NEW h \in Row
    PROVE  /\ holes = {}
           /\ \/ ver'[h] = ver[h]
              \/ ver[h] > 0 /\ ver'[h] > 0 /\ Ms[ver[h]] < Ms[ver'[h]] /\ Owed(h)'
              \/ /\ ver[h] = 0 /\ ver'[h] > 0 /\ Owed(h)'
                 /\ ~RemovalPending(h) /\ ~Exposed(ver'[h])
              \/ ver[h] > 0 /\ ver'[h] = 0 /\ ~Held(h) /\ RemovalPending(h)'
<1>0. /\ ver \in [Row -> Version] /\ job \in [Writer -> Job] /\ clock \in Nat /\ clock \in Version
      /\ \A g \in Row : ver[g] \in Nat /\ ver[g] <= clock
  BY Counted DEF TypeInv, TypeOK, Stamps
<1>1. ASSUME NEW w \in Writer, NEW g \in Row, NEW kind \in DOMAIN Announced, Change(w, g, kind)
      PROVE  /\ holes = {}
             /\ \/ ver'[h] = ver[h]
                \/ ver[h] > 0 /\ ver'[h] > 0 /\ Ms[ver[h]] < Ms[ver'[h]] /\ Owed(h)'
  <2> DEFINE j == [Idle EXCEPT !.row = g, !.todo = Announced[kind], !.wrote = clock + 1]
  <2>1. /\ job' = [job EXCEPT ![w] = j] /\ ver[g] > 0
        /\ ver' = [ver EXCEPT ![g] = clock + 1]
        /\ holes' = holes \cup {x \in {"tied"} : Ms[clock + 1] = Ms[ver[g]]}
    BY <1>1 DEF Change
  <2>2. j.row = g /\ j.todo \in Changes
    BY DEF Announced, Changes, Idle
  <2> HIDE DEF j
  <2>3. clock + 1 \in Version
    BY <1>1, SpendTypes DEF Change
  <2>4. Ms[ver[g]] < Ms[clock + 1]
    <3>1. Ms[clock + 1] # Ms[ver[g]]
      BY <2>1
    <3>2. Ms[ver[g]] <= Ms[clock + 1] /\ Ms[clock + 1] \in Nat /\ Ms[ver[g]] \in Nat
      BY <1>0, <2>3, LiveViewAssumption, Counted
    <3> QED BY <3>1, <3>2
  <2>5. Owed(g)'
    BY <1>0, <2>1, <2>2 DEF Owed, Owes
  <2> QED BY <1>0, <2>1, <2>4, <2>5
<1>2. ASSUME NEW w \in Writer, Insert(w)
      PROVE  /\ holes = {}
             /\ \/ ver'[h] = ver[h]
                \/ /\ ver[h] = 0 /\ ver'[h] > 0 /\ Owed(h)'
                   /\ ~RemovalPending(h) /\ ~Exposed(ver'[h])
  <2>0. PICK g, v : g = job[w].row /\ v = job[w].wrote
    OBVIOUS
  <2> DEFINE e == [type |-> "changed", row |-> g, at |-> v, status |-> v]
             j == [Idle EXCEPT !.row = g, !.wrote = v, !.event = e]
  <2>1. j.row = g /\ j.event = e /\ e.type = "changed" /\ e.at = v
    BY StartedJob
  <2>2. Inserting(w) /\ g \in Row /\ 0 < v
    BY <1>2, <2>0, StepsDiffer DEF Insert, Inserting, Stamps, TypeInv
  <2>3. \/ ver[g] > 0 /\ ver' = ver /\ holes' = holes
        \/ /\ ver[g] = 0 /\ ver' = [ver EXCEPT ![g] = v]
           /\ job' = [job EXCEPT ![w] = j]
           /\ holes' = holes \cup {x \in {"swapped"} : RemovalPending(g)}
                             \cup {x \in {"shifted"} : Exposed(v)}
    BY <1>0, <1>2, <2>0, <2>2 DEF Insert
  <2> HIDE DEF j, e
  <2>4. CASE ver' = ver /\ holes' = holes
    BY <2>4
  <2>5. CASE /\ ver[g] = 0 /\ ver' = [ver EXCEPT ![g] = v]
             /\ job' = [job EXCEPT ![w] = j]
             /\ holes' = holes \cup {x \in {"swapped"} : RemovalPending(g)}
                               \cup {x \in {"shifted"} : Exposed(v)}
    <3>1. holes = {} /\ ~RemovalPending(g) /\ ~Exposed(v)
      BY <2>5
    <3>2. ver'[g] = v /\ job'[w] = j
      BY <1>0, <2>2, <2>5
    <3>3. Owes(job'[w], g, ver'[g])
      BY <2>1, <3>2 DEF Owes
    <3>4. Owed(g)'
      BY <3>3 DEF Owed
    <3>5. CASE h = g
      BY <2>2, <2>5, <3>1, <3>2, <3>4, <3>5
    <3>6. CASE h # g
      BY <1>0, <2>5, <3>1, <3>6
    <3> QED BY <3>5, <3>6
  <2> QED BY <2>3, <2>4, <2>5
<1>3. ASSUME NEW w \in Writer, NEW g \in Row, Remove(w, g)
      PROVE  /\ holes = {}
             /\ \/ ver'[h] = ver[h]
                \/ ver[h] > 0 /\ ver'[h] = 0 /\ ~Held(h) /\ RemovalPending(h)'
  <2> DEFINE e == [type |-> "removed", row |-> g, at |-> 0, status |-> 0]
             j == [Idle EXCEPT !.row = g, !.event = e]
  <2>1. j.event = e /\ e.type = "removed" /\ e.row = g
    BY StartedJob
  <2>2. /\ ver[g] > 0 /\ ver' = [ver EXCEPT ![g] = 0] /\ job' = [job EXCEPT ![w] = j]
        /\ holes \subseteq holes' /\ {x \in {"ghost"} : Held(g)} \subseteq holes'
    BY <1>3 DEF Remove
  <2> HIDE DEF j, e
  <2>3. RemovalPending(g)'
    BY <1>0, <2>1, <2>2 DEF RemovalPending
  <2>4. holes = {} /\ ~Held(g)
    BY <2>2
  <2> QED BY <1>0, <2>2, <2>3, <2>4
<1>4. ASSUME NEW w \in Writer, NEW own \in BOOLEAN, Clear(w, own)
      PROVE  /\ holes = {}
             /\ \/ ver'[h] = ver[h]
                \/ ver[h] > 0 /\ ver'[h] = 0 /\ ~Held(h) /\ RemovalPending(h)'
  <2> DEFINE e == [type |-> "cleared", row |-> 0, at |-> 0, status |-> 0]
             j == [Idle EXCEPT !.event = e]
  <2>1. j.event = e /\ e.type = "cleared"
    BY StartedJob
  <2>2. /\ ver' = NoVersions /\ job' = [job EXCEPT ![w] = j]
        /\ holes' = holes \cup {x \in {"ghost"} : \E g \in Present : Held(g)}
    BY <1>4 DEF Clear
  <2> HIDE DEF j, e
  <2>3. RemovalPending(h)'
    BY <1>0, <2>1, <2>2 DEF RemovalPending
  <2>4. holes = {} /\ \A g \in Present : ~Held(g)
    BY <2>2
  <2> QED BY <1>0, <2>2, <2>3, <2>4 DEF NoVersions, Present
<1>5. ASSUME NEW w \in Writer, Write(w)
      PROVE  \/ \E g \in Row, kind \in DOMAIN Announced : Change(w, g, kind)
             \/ Insert(w)
             \/ \E g \in Row : Remove(w, g)
             \/ \E own \in BOOLEAN : Clear(w, own)
             \/ ver' = ver /\ holes' = holes
  BY <1>5 DEF Write, Discover, Fetch, Announce, library
<1>6. CASE Serve \/ Browse \/ UNCHANGED vars
  <2>1. ver' = ver /\ holes \subseteq holes'
    BY <1>6 DEF Serve, Connect, ReadPage, TakeBatch, SendBatched, Activate, Drop, Disconnect,
                Browse, Receive, StartLoad, ServeLoad, ReceiveLoad, FailLoad, ReceiveCleared,
                FailCleared, vars, library
  <2> QED BY <2>1
<1> QED BY <1>1, <1>2, <1>3, <1>4, <1>5, <1>6 DEF Next

\* What somebody holds of a row stays dated, since a row is not removed meanwhile.
LEMMA DatedKept ==
    ASSUME TypeInv, TypeInv', Stamps, [Next]_vars, holes' = {},
           NEW h \in Row, NEW u \in Version, Dated(h, u), Held(h)
    PROVE  Dated(h, u)'
<1>1. /\ ver[h] \in Nat /\ ver'[h] \in Nat
      /\ Ms[u] \in Nat /\ Ms[ver[h]] \in Nat /\ Ms[ver'[h]] \in Nat
  BY Counted DEF TypeInv, TypeOK
<1> QED BY <1>1, RowStep DEF Dated

-----------------------------------------------------------------------------
\* What a writer holds is true to the store: of a row that is there, and dated; or the
\* removal of rows that are not there.
TrueEvent(e) ==
    /\ e.type \in ItemEvents => Dated(e.row, e.at)
    /\ e.type = "removed" => ver[e.row] = 0
    /\ e.type = "cleared" => Present = {}
HeldInv == \A w \in Writer : TrueEvent(job[w].event)

\* An event that is held stays true.
LEMMA TrueKept ==
    ASSUME TypeInv, TypeInv', Stamps, JobTidy, HeldInv, [Next]_vars, holes' = {},
           NEW w \in Writer, NEW e, e = job[w].event
    PROVE  TrueEvent(e)'
<1>0. /\ \A h \in Row : ver[h] \in Nat /\ ver'[h] \in Nat
      /\ TrueEvent(e)
  BY Counted DEF TypeInv, TypeOK, HeldInv
<1>1. ASSUME e.type \in ItemEvents PROVE Dated(e.row, e.at)'
  <2>1. e \in Event /\ e.row \in Row /\ Held(e.row)
    BY <1>1, IdleIs DEF TypeInv, TypeOK, Job, JobTidy, Held
  <2>2. e.at \in Version /\ Dated(e.row, e.at)
    BY <1>0, <1>1, <2>1 DEF Event, TrueEvent
  <2> QED BY <2>1, <2>2, DatedKept
<1>2. ASSUME e.type = "removed" PROVE ver'[e.row] = 0
  <2>1. e.row \in Row /\ ver[e.row] = 0 /\ RemovalPending(e.row)
    BY <1>0, <1>2 DEF JobTidy, TrueEvent, RemovalPending
  <2> QED BY <1>0, <2>1, RowStep
<1>3. ASSUME e.type = "cleared" PROVE Present' = {}
  <2> SUFFICES ASSUME NEW h \in Row, ver'[h] > 0 PROVE FALSE
    BY DEF Present
  <2>1. ver[h] = 0 /\ RemovalPending(h)
    BY <1>0, <1>3 DEF TrueEvent, RemovalPending, Present
  <2> QED BY <1>0, <2>1, RowStep
<1> QED BY <1>1, <1>2, <1>3 DEF TrueEvent

\* Init: nothing is held.
LEMMA InitHeld == Init => HeldInv
<1> SUFFICES ASSUME Init PROVE HeldInv
  OBVIOUS
<1>1. \A w \in Writer : job[w].event = NoEvent
  BY IdleIs DEF Init
<1> QED BY <1>1, IdleIs DEF HeldInv, TrueEvent, ItemEvents, Removals

\* Every step keeps what is held true.
LEMMA NextHeld ==
    ASSUME TypeInv, TypeInv', Stamps, JobTidy, HeldInv, [Next]_vars, holes' = {}
    PROVE  HeldInv'
<1>0. /\ job \in [Writer -> Job] /\ ver \in [Row -> Version]
      /\ \A h \in Row : ver[h] \in Nat
  BY Counted DEF TypeInv, TypeOK
<1>1. ASSUME NEW x \in Writer, job'[x].event = job[x].event PROVE TrueEvent(job[x].event)'
  <2>1. PICK e : e = job[x].event
    OBVIOUS
  <2>2. TrueEvent(e)'
    BY <2>1, TrueKept
  <2>3. e = job'[x].event
    BY <1>1, <2>1
  <2> QED BY <2>2, <2>3
<1>2. ASSUME NEW w \in Writer, NEW j, job' = [job EXCEPT ![w] = j],
             TrueEvent(j.event)' \/ j.event = NoEvent
      PROVE  HeldInv'
  <2>1. job'[w] = j /\ \A x \in Writer : x # w => job'[x] = job[x]
    BY <1>2, JobGiven
  <2>2. TrueEvent(NoEvent)'
    BY IdleIs DEF TrueEvent, ItemEvents, Removals
  <2>3. ASSUME NEW x \in Writer, x # w PROVE TrueEvent(job[x].event)'
    BY <1>1, <2>1, <2>3
  <2>4. TrueEvent(job[w].event)'
    BY <1>2, <2>1, <2>2
  <2> QED BY <2>3, <2>4 DEF HeldInv
<1>3. ASSUME NEW w \in Writer, Write(w) PROVE HeldInv'
  <2>1. ASSUME NEW h \in Row, Discover(w, h) PROVE HeldInv'
    <3> DEFINE j == [Idle EXCEPT !.row = h, !.todo = <<"insert">>, !.wrote = clock + 1]
    <3>1. job' = [job EXCEPT ![w] = j] /\ j.event = NoEvent
      BY <2>1, StartedJob DEF Discover
    <3>2. PICK k : k = j
      OBVIOUS
    <3> HIDE DEF j
    <3> QED BY <1>2, <3>1, <3>2
  <2>2. CASE Insert(w)
    <3>1. PICK g, v : g = job[w].row /\ v = job[w].wrote
      OBVIOUS
    <3> DEFINE e == [type |-> "changed", row |-> g, at |-> v, status |-> v]
               j == [Idle EXCEPT !.row = g, !.wrote = v, !.event = e]
    <3>2. j.event = e /\ e.type = "changed" /\ e.row = g /\ e.at = v
      BY StartedJob
    <3>3. g \in Row /\ 0 < v
      BY <2>2, <3>1, StepsDiffer DEF Insert, Inserting, Stamps, TypeInv
    <3>4. \/ job' = [job EXCEPT ![w] = Idle]
          \/ job' = [job EXCEPT ![w] = j] /\ ver' = [ver EXCEPT ![g] = v]
      BY <2>2, <3>1 DEF Insert
    <3> HIDE DEF j, e
    <3>5. CASE job' = [job EXCEPT ![w] = Idle]
      BY <1>2, <3>5, IdleIs
    <3>6. CASE job' = [job EXCEPT ![w] = j] /\ ver' = [ver EXCEPT ![g] = v]
      <4>1. ver'[g] = v
        BY <1>0, <3>3, <3>6
      <4>2. TrueEvent(j.event)'
        BY <3>2, <3>3, <4>1 DEF TrueEvent, Dated
      <4> QED BY <1>2, <3>6, <4>2
    <3> QED BY <3>4, <3>5, <3>6
  <2>3. ASSUME NEW h \in Row, NEW kind \in DOMAIN Announced, Change(w, h, kind) PROVE HeldInv'
    <3> DEFINE j == [Idle EXCEPT !.row = h, !.todo = Announced[kind], !.wrote = clock + 1]
    <3>1. job' = [job EXCEPT ![w] = j] /\ j.event = NoEvent
      BY <2>3, StartedJob DEF Change
    <3>2. PICK k : k = j
      OBVIOUS
    <3> HIDE DEF j
    <3> QED BY <1>2, <3>1, <3>2
  <2>4. CASE Fetch(w)
    <3>1. PICK h, what, j, s : /\ h = job[w].row /\ what = Head(job[w].todo) /\ j = job'[w]
                               /\ s = job'[w].event.status
      OBVIOUS
    <3>2. job' = [job EXCEPT ![w] = j] /\ h \in Row /\ ver' = ver
      BY <2>4, <3>1, FetchJob DEF Fetch, library
    <3>3. CASE ver[h] = 0
      <4>1. j.event = NoEvent
        BY <2>4, <3>1, <3>3, FetchJob
      <4> QED BY <1>2, <3>2, <4>1
    <3>4. CASE ver[h] # 0
      <4>1. j.event = [type |-> what, row |-> h, at |-> ver[h], status |-> s]
            /\ what \in ItemEvents
        BY <2>4, <3>1, <3>4, FetchJob
      <4>2. j.event.type = what /\ j.event.row = h /\ j.event.at = ver'[h] /\ ver'[h] > 0
            /\ what \notin Removals
        BY <1>0, <3>2, <3>4, <4>1 DEF ItemEvents, Removals
      <4>3. TrueEvent(j.event)'
        BY <4>2 DEF TrueEvent, Dated, Removals
      <4> QED BY <1>2, <3>2, <4>3
    <3> QED BY <3>3, <3>4
  <2>5. ASSUME NEW h \in Row, Remove(w, h) PROVE HeldInv'
    <3> DEFINE e == [type |-> "removed", row |-> h, at |-> 0, status |-> 0]
               j == [Idle EXCEPT !.row = h, !.event = e]
    <3>1. /\ job' = [job EXCEPT ![w] = j] /\ j.event = e /\ e.row = h /\ e.type = "removed"
          /\ ver' = [ver EXCEPT ![h] = 0]
      BY <2>5, StartedJob DEF Remove
    <3> HIDE DEF j, e
    <3>2. ver'[h] = 0
      BY <1>0, <3>1
    <3>3. TrueEvent(j.event)'
      BY <3>1, <3>2 DEF TrueEvent, ItemEvents
    <3> QED BY <1>2, <3>1, <3>3
  <2>6. ASSUME NEW own \in BOOLEAN, Clear(w, own) PROVE HeldInv'
    <3> DEFINE e == [type |-> "cleared", row |-> 0, at |-> 0, status |-> 0]
               j == [Idle EXCEPT !.event = e]
    <3>1. job' = [job EXCEPT ![w] = j] /\ j.event = e /\ e.type = "cleared" /\ ver' = NoVersions
      BY <2>6, StartedJob DEF Clear
    <3> HIDE DEF j, e
    <3>2. Present' = {}
      BY <3>1 DEF Present, NoVersions
    <3>3. TrueEvent(j.event)'
      BY <3>1, <3>2 DEF TrueEvent, ItemEvents
    <3> QED BY <1>2, <3>1, <3>3
  <2>7. CASE Announce(w)
    <3>1. PICK j : j = job'[w]
      OBVIOUS
    <3>2. job' = [job EXCEPT ![w] = j] /\ j.event = NoEvent
      BY <2>7, <3>1, AnnounceJob
    <3> QED BY <1>2, <3>2
  <2> QED BY <1>3, <2>1, <2>2, <2>3, <2>4, <2>5, <2>6, <2>7 DEF Write
<1>4. CASE Serve \/ Browse \/ UNCHANGED vars
  <2>1. job' = job
    BY <1>4 DEF Serve, Connect, ReadPage, TakeBatch, SendBatched, Activate, Drop, Disconnect,
                Browse, Receive, StartLoad, ServeLoad, ReceiveLoad, FailLoad, ReceiveCleared,
                FailCleared, vars
  <2> QED BY <1>1, <2>1 DEF HeldInv
<1> QED BY <1>3, <1>4 DEF Next

-----------------------------------------------------------------------------
\* What a load has of the list and what is in the answer that is on its way.
Listed == {h \in Row : load.list[h] > 0}
Answered == {h \in Row : load.answer.rows[h] > 0}

\* A load with more than one page, and the total it goes by.
Paged == load.count > 0 \/ load.answer.total > PageSize
Total == IF load.count = 0 THEN load.answer.total ELSE load.total

\* With a row, S has all that are younger.
Closed(S) == \A g \in Present, h \in S : born[g] > born[h] => g \in S

LoadDated ==
    /\ \A h \in Listed : Dated(h, load.list[h])
    /\ \A h \in Answered : Dated(h, load.answer.rows[h])

\* The rows a load with several pages has are the youngest of the store, which is no larger
\* than its total; what a single page has not is younger than the load.
LoadShape ==
    /\ ~load.answer.ready => load.answer = NoAnswer
    /\ Cardinality(Listed) = load.count
    /\ Listed \cap Answered = {}
    /\ Paged => /\ Closed(Listed) /\ Closed(Listed \cup Answered)
                /\ Cardinality(Present) <= Total
    /\ load.answer.ready /\ ~Paged =>
          /\ Cardinality(Answered) = load.answer.total
          /\ \A h \in Present : h \in Answered \/ Ms[ver[h]] > Ms[load.since]

LoadInv == load.on => LoadDated /\ LoadShape

\* Nobody changes the age of a row that is there.
LEMMA BornKept ==
    ASSUME TypeInv, [Next]_vars, NEW h \in Row, ver[h] > 0
    PROVE  born'[h] = born[h]
<1>1. CASE born' = born
  BY <1>1
<1>2. ASSUME NEW w \in Writer, Insert(w) PROVE born'[h] = born[h]
  BY <1>2 DEF Insert, TypeInv, TypeOK
<1>3. born' = born \/ \E w \in Writer : Insert(w)
  BY DEF Next, Write, Discover, Change, Fetch, Remove, Clear, Announce, Serve, Connect, ReadPage,
         TakeBatch, SendBatched, Activate, Drop, Disconnect, Browse, Receive, StartLoad, ServeLoad,
         ReceiveLoad, FailLoad, ReceiveCleared, FailCleared, vars, library
<1> QED BY <1>1, <1>2, <1>3

\* A page of the list is what follows the rows before it: together they are closed again.
LEMMA PageClosed ==
    ASSUME TypeInv, Stamps, NEW S \in SUBSET Present, Closed(S), NEW n, Cardinality(S) = n
    PROVE  LET P == PageOf(ByAge, n)
           IN  P \subseteq Present /\ S \cap P = {} /\ Closed(S \cup P)
<1> DEFINE P == PageOf(ByAge, n)
           Younger(h) == {g \in Present : born[g] > born[h]}
<1>1. /\ Present \subseteq Row /\ IsFiniteSet(Present) /\ IsFiniteSet(S) /\ n \in Nat
      /\ \A h \in Present : born[h] \in Nat
  BY Finite, Counted DEF Present, TypeInv, TypeOK
<1>2. \A h \in Present : /\ IsFiniteSet(Younger(h)) /\ Cardinality(Younger(h)) \in Nat
                         /\ ByAge[h] = Cardinality(Younger(h))
  BY <1>1, FS_Subset, FS_CardinalityType DEF ByAge
<1>3. P \subseteq Present /\ PageSize \in Nat
      /\ \A h \in Present : h \in P <=> n <= ByAge[h] /\ ByAge[h] <= n + PageSize - 1
  <2>1. PageSize \in Nat /\ n + PageSize - 1 \in Int /\ n \in Int
    BY <1>1, LiveViewAssumption
  <2>2. \A h \in Present : ByAge[h] \in Int
    <3> HIDE DEF Younger
    <3> QED BY <1>2
  <2>3. P = {h \in Present : ByAge[h] \in n .. n + PageSize - 1}
    BY DEF PageOf
  <2> HIDE DEF P
  <2> QED BY <2>1, <2>2, <2>3
<1>4. ASSUME NEW h \in S PROVE h \notin P
  <2>1. Younger(h) \subseteq S /\ h \notin Younger(h) /\ h \in Present
    BY <1>1, <1>4 DEF Closed
  <2>2. Younger(h) # S
    BY <1>4, <2>1
  <2> HIDE DEF Younger
  <2>3. Cardinality(Younger(h)) < n
    BY <1>1, <2>1, <2>2, FS_Subset, FS_CardinalityType
  <2> QED BY <1>1, <1>2, <1>3, <2>1, <2>3
<1>5. ASSUME NEW g \in Present, NEW h \in S \cup P, born[g] > born[h] PROVE g \in S \cup P
  <2>1. CASE h \in S
    BY <1>5, <2>1 DEF Closed
  <2>2. CASE h \in P
    <3>1. h \in Present
      BY <1>3, <2>2
    <3>2. Younger(g) \subseteq Younger(h) /\ g \in Younger(h) /\ g \notin Younger(g)
      BY <1>1, <1>5, <3>1
    <3>3. Cardinality(Younger(g)) <= Cardinality(Younger(h))
      <4> HIDE DEF Younger
      <4> QED BY <1>2, <3>1, <3>2, FS_Subset
    <3>4. ByAge[g] <= n + PageSize - 1
      <4> HIDE DEF Younger, P
      <4> QED BY <1>1, <1>2, <1>3, <2>2, <3>1, <3>3
    <3>5. CASE g \in S
      BY <3>5
    <3>6. CASE g \notin S
      <4>1. S \subseteq Younger(g)
        <5> SUFFICES ASSUME NEW s \in S PROVE born[s] > born[g]
          OBVIOUS
        <5>1. s # g /\ ~(born[g] > born[s])
          BY <1>5, <3>6 DEF Closed
        <5>2. born[s] # born[g]
          BY <1>5, <5>1 DEF Stamps
        <5> QED BY <1>1, <5>1, <5>2
      <4>2. n <= Cardinality(Younger(g))
        <5> HIDE DEF Younger
        <5> QED BY <1>2, <4>1, FS_Subset
      <4> HIDE DEF Younger, P
      <4> QED BY <1>2, <1>3, <3>4, <4>2
    <3> QED BY <3>5, <3>6
  <2> QED BY <2>1, <2>2
<1> HIDE DEF P
<1>6. P \subseteq Present /\ S \cap P = {} /\ Closed(S \cup P)
  BY <1>3, <1>4, <1>5 DEF Closed
<1> QED BY <1>6 DEF P

\* A list that is no longer than a page has all rows on its first.
LEMMA PageAll ==
    ASSUME TypeInv, Cardinality(Present) <= PageSize
    PROVE  PageOf(ByAge, 0) = Present
<1> SUFFICES ASSUME NEW h \in Present PROVE ByAge[h] \in 0 .. 0 + PageSize - 1
  BY DEF PageOf
<1> DEFINE younger == {g \in Present : born[g] > born[h]}
<1>1. IsFiniteSet(Present) /\ Cardinality(Present) \in Nat /\ h \in Row /\ born[h] \in Nat
  BY Finite, Counted DEF Present, TypeInv, TypeOK
<1>2. younger \subseteq Present /\ younger # Present
  BY <1>1
<1>3. ByAge[h] = Cardinality(younger)
  BY <1>1 DEF ByAge
<1> HIDE DEF younger
<1>4. Cardinality(younger) < Cardinality(Present) /\ Cardinality(younger) \in Nat
  BY <1>1, <1>2, FS_Subset, FS_CardinalityType
<1> QED BY <1>1, <1>3, <1>4, LiveViewAssumption

-----------------------------------------------------------------------------
\* A step that leaves the load alone.
LEMMA LoadKept ==
    ASSUME TypeInv, TypeInv', Stamps, LoadInv, [Next]_vars, holes' = {}, load' = load
    PROVE  LoadInv'
<1> SUFFICES ASSUME load.on PROVE (LoadDated /\ LoadShape)'
  BY DEF LoadInv
<1>0. /\ load \in Load /\ load.list \in [Row -> Version] /\ load.answer.rows \in [Row -> Version]
      /\ LoadDated /\ LoadShape
      /\ \A h \in Row : ver[h] \in Version /\ ver'[h] \in Version
      /\ \A v \in Version : Ms[v] \in Nat /\ v \in Nat
      /\ load.since \in Version
  BY Counted DEF TypeInv, TypeOK, Load, Answer, LoadInv
<1>1. Listed' = Listed /\ Answered' = Answered /\ Paged' = Paged /\ Total' = Total
  BY DEF Listed, Answered, Paged, Total
<1>2. LoadDated'
  <2>1. ASSUME NEW h \in Listed PROVE Dated(h, load.list[h])'
    <3>1. PICK u \in Version : u = load.list[h] /\ h \in Row /\ u > 0
      BY <1>0 DEF Listed
    <3>2. Dated(h, u) /\ Held(h)
      BY <1>0, <3>1 DEF LoadDated, Held
    <3>3. Dated(h, u)'
      BY <3>1, <3>2, DatedKept
    <3> QED BY <3>1, <3>3
  <2>2. ASSUME NEW h \in Answered PROVE Dated(h, load.answer.rows[h])'
    <3>1. PICK u \in Version : u = load.answer.rows[h] /\ h \in Row /\ u > 0
      BY <1>0 DEF Answered
    <3>2. Dated(h, u) /\ Held(h)
      BY <1>0, <3>1 DEF LoadDated, Held
    <3>3. Dated(h, u)'
      BY <3>1, <3>2, DatedKept
    <3> QED BY <3>1, <3>3
  <2> QED BY <1>1, <2>1, <2>2 DEF LoadDated
<1>3. Listed \cup Answered \subseteq Present
  BY <1>0 DEF LoadDated, Dated, Present, Listed, Answered
<1>4. ASSUME Paged
      PROVE  Closed(Listed)' /\ Closed(Listed \cup Answered)' /\ Cardinality(Present') <= Total
  <2>1. Present' \subseteq Present
    <3> SUFFICES ASSUME NEW h \in Row, ver'[h] > 0, ver[h] = 0 PROVE FALSE
      BY <1>0 DEF Present
    <3>1. Exposed(ver'[h])
      BY <1>4 DEF Exposed, Paged
    <3> QED BY <1>0, <3>1, RowStep
  <2>2. \A h \in Present : h \in Row /\ born'[h] = born[h]
    BY BornKept DEF Present
  <2>3. ASSUME NEW S \in SUBSET Present, Closed(S)
        PROVE  \A g \in Present', h \in S : born'[g] > born'[h] => g \in S
    BY <2>1, <2>2, <2>3 DEF Closed
  <2>4. Cardinality(Present') <= Cardinality(Present)
        /\ Cardinality(Present) \in Nat /\ Cardinality(Present') \in Nat
    <3>1. IsFiniteSet(Present) /\ Cardinality(Present) \in Nat
      BY Finite DEF Present
    <3> QED BY <2>1, <3>1, FS_Subset, FS_CardinalityType
  <2>5. Total \in Nat /\ Cardinality(Present) <= Total
    BY <1>0, <1>4 DEF Total, Load, Answer, LoadShape
  <2>6. Closed(Listed) /\ Closed(Listed \cup Answered)
    BY <1>0, <1>4 DEF LoadShape
  <2>7. \A g \in Present', h \in Listed : born'[g] > born'[h] => g \in Listed
    BY <1>3, <2>3, <2>6
  <2>8. \A g \in Present', h \in Listed \cup Answered :
          born'[g] > born'[h] => g \in Listed \cup Answered
    BY <1>3, <2>3, <2>6
  <2> QED BY <1>1, <2>4, <2>5, <2>7, <2>8 DEF Closed
<1>5. ASSUME load.answer.ready, ~Paged, NEW h \in Present'
      PROVE  h \in Answered \/ Ms[ver'[h]] > Ms[load.since]
  <2>1. h \in Row /\ ver'[h] > 0
    BY DEF Present
  <2>2. CASE ver[h] > 0
    <3>1. h \in Answered \/ Ms[ver[h]] > Ms[load.since]
      BY <1>0, <1>5, <2>1, <2>2 DEF LoadShape, Present
    <3>2. Ms[ver[h]] <= Ms[ver'[h]]
      BY <1>0, <2>1, <2>2, RowStep
    <3> QED BY <1>0, <2>1, <3>1, <3>2
  <2>3. CASE ver[h] = 0
    <3>1. ~Exposed(ver'[h])
      BY <1>0, <2>1, <2>3, RowStep
    <3> QED BY <1>0, <2>1, <3>1 DEF Exposed
  <2> QED BY <1>0, <2>1, <2>2, <2>3
<1>6. LoadShape'
  BY <1>0, <1>1, <1>4, <1>5 DEF LoadShape
<1> QED BY <1>2, <1>6

\* A load starts with nothing.
LEMMA StartedLoad ==
    ASSUME TypeInv, StartLoad
    PROVE  LoadInv'
<1>1. load' = [NoLoad EXCEPT !.on = TRUE, !.since = clock]
  BY DEF StartLoad
<1>2. /\ load'.list = NoVersions /\ load'.count = 0 /\ load'.total = 0 /\ load'.answer = NoAnswer
  BY <1>1 DEF NoLoad
<1>3. NoAnswer.ready = FALSE /\ NoAnswer.total = 0 /\ NoAnswer.rows = NoVersions
  BY DEF NoAnswer
<1>4. {h \in Row : NoVersions[h] > 0} = {}
  BY DEF NoVersions
<1>5. Listed' = {} /\ Answered' = {}
  BY <1>2, <1>3, <1>4 DEF Listed, Answered
<1>6. Paged' = FALSE
  BY <1>2, <1>3, LiveViewAssumption DEF Paged
<1>7. LoadDated'
  BY <1>5 DEF LoadDated
<1>8. LoadShape'
  BY <1>2, <1>3, <1>5, <1>6, FS_EmptySet DEF LoadShape
<1> QED BY <1>7, <1>8 DEF LoadInv

\* The server answers: the rows of a page, and the total of the same moment.
LEMMA ServedLoad ==
    ASSUME TypeInv, Stamps, LoadInv, ServeLoad
    PROVE  LoadInv'
<1> DEFINE P == PageOf(ByAge, load.count)
           answer == [ready |-> TRUE, total |-> Cardinality(Present), rows |-> Versions(P)]
<1>0. /\ load \in Load /\ load.count \in Nat /\ load.list \in [Row -> Version]
      /\ LoadDated /\ LoadShape /\ load.on /\ load.answer = NoAnswer
      /\ \A h \in Row : ver[h] \in Nat
  BY Counted DEF TypeInv, TypeOK, Load, LoadInv, ServeLoad, LoadShape
<1>1. load' = [load EXCEPT !.answer = answer] /\ ver' = ver /\ born' = born
  BY DEF ServeLoad, library
<1> HIDE DEF answer
<1>2. /\ load'.answer = answer /\ load'.list = load.list /\ load'.count = load.count
      /\ load'.total = load.total /\ load'.since = load.since
  BY <1>0, <1>1 DEF Load
<1>3. answer.ready = TRUE /\ answer.total = Cardinality(Present) /\ answer.rows = Versions(P)
  BY DEF answer
<1>4. P \subseteq Present /\ Present \subseteq Row
  BY DEF PageOf, Present
<1> HIDE DEF P
<1>5. Listed' = Listed /\ Answered' = P
  BY <1>0, <1>2, <1>3, <1>4 DEF Listed, Answered, Versions, Present
<1>6. Present' = Present /\ \A S : Closed(S)' <=> Closed(S)
  BY <1>1 DEF Present, Closed
<1>7. Listed \subseteq Present
  BY <1>0 DEF Listed, LoadDated, Dated, Present
<1>8. LoadDated'
  <2>1. \A h \in P : h \in Row /\ ver[h] > 0 /\ Versions(P)[h] = ver[h]
    BY <1>4 DEF Versions, Present
  <2>2. \A h \in Row : \A u : Dated(h, u)' <=> Dated(h, u)
    BY <1>1 DEF Dated
  <2>3. \A h \in P : h \in Row /\ Dated(h, load'.answer.rows[h])
    BY <1>2, <1>3, <2>1 DEF Dated
  <2>4. \A h \in Listed : h \in Row /\ Dated(h, load'.list[h])
    BY <1>0, <1>2 DEF LoadDated, Listed
  <2>5. \A h \in Listed : Dated(h, load.list[h])'
    BY <2>2, <2>4
  <2>6. \A h \in P : Dated(h, load.answer.rows[h])'
    BY <2>2, <2>3
  <2> QED BY <1>5, <2>5, <2>6 DEF LoadDated
<1>9. Cardinality(Present) \in Nat
  BY <1>4, Finite
<1>10. CASE load.count > 0
  <2>1. Paged /\ Paged' /\ Total = load.total /\ Total' = load.total
    BY <1>0, <1>2, <1>10 DEF Paged, Total
  <2>2. Closed(Listed) /\ Cardinality(Present) <= load.total /\ Cardinality(Listed) = load.count
    BY <1>0, <2>1 DEF LoadShape
  <2>3. Listed \cap P = {} /\ Closed(Listed \cup P)
    BY <1>7, <2>2, PageClosed DEF P
  <2>4. Closed(Listed)' /\ Closed(Listed \cup Answered)'
    <3>1. PICK S, T : S = Listed /\ T = Listed \cup P
      OBVIOUS
    <3>2. Closed(S)' /\ Closed(T)'
      BY <1>6, <2>2, <2>3, <3>1
    <3>3. S = Listed' /\ T = Listed' \cup Answered'
      BY <1>5, <3>1
    <3> QED BY <3>2, <3>3 DEF Closed
  <2>5. LoadShape'
    BY <1>2, <1>3, <1>5, <1>6, <2>1, <2>2, <2>3, <2>4 DEF LoadShape
  <2> QED BY <1>8, <2>5 DEF LoadInv
<1>11. CASE load.count = 0
  <2>1. Cardinality(Listed) = 0 /\ IsFiniteSet(Listed)
    BY <1>0, <1>4, <1>7, <1>11, Finite DEF LoadShape
  <2>2. Listed = {}
    BY <2>1, FS_EmptySet
  <2>3. Total' = Cardinality(Present) /\ (Paged' <=> Cardinality(Present) > PageSize)
    BY <1>0, <1>2, <1>3, <1>11 DEF Total, Paged
  <2>4. CASE Cardinality(Present) > PageSize
    <3>1. Closed({}) /\ Cardinality({}) = 0
      BY FS_EmptySet DEF Closed
    <3>2. Closed({} \cup P)
      BY <1>11, <3>1, PageClosed DEF P
    <3>3. Closed(Listed)' /\ Closed(Listed \cup Answered)'
      <4>1. PICK S, T : S = {} /\ T = {} \cup P
        OBVIOUS
      <4>2. Closed(S)' /\ Closed(T)'
        BY <1>6, <3>1, <3>2, <4>1
      <4>3. S = Listed' /\ T = Listed' \cup Answered'
        BY <1>5, <2>2, <4>1
      <4> QED BY <4>2, <4>3 DEF Closed
    <3>4. LoadShape'
      BY <1>2, <1>3, <1>5, <1>6, <1>9, <1>11, <2>2, <2>3, <2>4, <3>1, <3>3 DEF LoadShape
    <3> QED BY <1>8, <3>4 DEF LoadInv
  <2>5. CASE ~(Cardinality(Present) > PageSize)
    <3>1. P = Present
      BY <1>9, <1>11, <2>5, PageAll, LiveViewAssumption DEF P
    <3>2. LoadShape'
      BY <1>2, <1>3, <1>5, <1>6, <1>11, <2>1, <2>2, <2>3, <2>5, <3>1 DEF LoadShape
    <3> QED BY <1>8, <3>2 DEF LoadInv
  <2> QED BY <2>4, <2>5
<1> QED BY <1>0, <1>10, <1>11

\* The list with the answer, and how many rows it has.
Joined == [h \in Row |-> IF h \in Answered THEN load.answer.rows[h] ELSE load.list[h]]
Counting == load.count + Cardinality(Answered)

\* A page arrives: the list has the rows it had and those of the answer, all dated; and if
\* the load has one page only, that has as many rows as the answer says.
LEMMA Joining ==
    ASSUME TypeInv, LoadInv, LoadTidy, load.answer.ready
    PROVE  /\ load.on /\ LoadDated /\ LoadShape
           /\ Joined \in [Row -> Version]
           /\ {h \in Row : Joined[h] > 0} = Listed \cup Answered
           /\ \A h \in Listed \cup Answered : Dated(h, Joined[h])
           /\ Counting \in Nat /\ Total \in Nat
           /\ Cardinality(Listed \cup Answered) = Counting
           /\ ~Paged => Counting = Total /\ Listed = {}
<1>1. load.on
  BY DEF LoadTidy, NoLoad, NoAnswer
<1>2. /\ LoadDated /\ LoadShape /\ load.count \in Nat /\ load.total \in Nat
      /\ load.list \in [Row -> Version] /\ load.answer.rows \in [Row -> Version]
      /\ load.answer.total \in Nat
  BY <1>1 DEF LoadInv, TypeInv, TypeOK, Load, Answer
<1>3. Joined \in [Row -> Version]
  BY <1>2 DEF Joined
<1>4. {h \in Row : Joined[h] > 0} = Listed \cup Answered
  BY <1>2 DEF Joined, Listed, Answered
<1>5. \A h \in Listed \cup Answered : Dated(h, Joined[h])
  BY <1>2 DEF Joined, LoadDated, Listed, Answered
<1>6. /\ Listed \subseteq Row /\ Answered \subseteq Row
      /\ IsFiniteSet(Listed) /\ IsFiniteSet(Answered)
      /\ Cardinality(Answered) \in Nat /\ Cardinality(Listed) = load.count
      /\ Listed \cap Answered = {}
  BY <1>2, Finite DEF Listed, Answered, LoadShape
<1>7. Counting \in Nat /\ Total \in Nat
  BY <1>2, <1>6 DEF Counting, Total
<1>8. Cardinality(Listed \cup Answered) = Counting
  BY <1>2, <1>6, FS_Union, FS_EmptySet DEF Counting
<1>9. ASSUME ~Paged PROVE Counting = Total /\ Listed = {}
  <2>1. load.count = 0 /\ Cardinality(Answered) = load.answer.total
    BY <1>2, <1>9 DEF Paged, LoadShape
  <2>2. Listed = {}
    BY <1>6, <2>1, FS_EmptySet
  <2> QED BY <1>6, <2>1, <2>2 DEF Counting, Total
<1> QED BY <1>1, <1>2, <1>3, <1>4, <1>5, <1>7, <1>8, <1>9

\* A page of several arrives.
LEMMA ReceivedLoad ==
    ASSUME TypeInv, LoadInv, LoadTidy, ReceiveLoad
    PROVE  LoadInv'
<1>0. load.answer.ready /\ load \in Load /\ ver' = ver /\ born' = born
  BY DEF ReceiveLoad, TypeInv, TypeOK, library
<1>1. \/ load' = NoLoad
      \/ /\ load' = [load EXCEPT !.list = Joined, !.count = Counting, !.total = Total,
                                 !.answer = NoAnswer]
         /\ Counting < Total /\ Answered # {}
  BY DEF ReceiveLoad, Joined, Counting, Total, Answered
<1>2. CASE load' = NoLoad
  BY <1>2 DEF LoadInv, NoLoad
<1>3. CASE /\ load' = [load EXCEPT !.list = Joined, !.count = Counting, !.total = Total,
                                   !.answer = NoAnswer]
           /\ Counting < Total /\ Answered # {}
  <2>1. /\ LoadShape /\ Joined \in [Row -> Version]
        /\ {h \in Row : Joined[h] > 0} = Listed \cup Answered
        /\ \A h \in Listed \cup Answered : Dated(h, Joined[h])
        /\ Counting \in Nat /\ Total \in Nat
        /\ Cardinality(Listed \cup Answered) = Counting
        /\ ~Paged => Counting = Total
    BY <1>0, Joining
  <2>2. /\ load'.list = Joined /\ load'.count = Counting /\ load'.total = Total
        /\ load'.answer = NoAnswer
    BY <1>0, <1>3 DEF Load
  <2>3. NoAnswer.ready = FALSE /\ NoAnswer.rows = NoVersions
    BY DEF NoAnswer
  <2>4. Listed' = Listed \cup Answered /\ Answered' = {}
    <3>1. Listed' = {h \in Row : load'.list[h] > 0}
      BY DEF Listed
    <3>2. Answered' = {h \in Row : NoVersions[h] > 0}
      BY <2>2, <2>3 DEF Answered
    <3> QED BY <2>1, <2>2, <3>1, <3>2 DEF NoVersions
  <2>5. Paged
    BY <1>3, <2>1
  <2>6. Closed(Listed \cup Answered) /\ Cardinality(Present) <= Total
    BY <2>1, <2>5 DEF LoadShape
  <2>7. Present' = Present /\ \A S : Closed(S)' <=> Closed(S)
    BY <1>0 DEF Present, Closed
  <2>8. Counting # 0
    <3>1. Cardinality(Listed \cup Answered) # 0
      <4>1. IsFiniteSet(Listed \cup Answered) /\ Listed \cup Answered # {}
        <5>1. Listed \cup Answered \subseteq Row
          BY DEF Listed, Answered
        <5> QED BY <1>3, <5>1, Finite
      <4> QED BY <4>1, FS_EmptySet
    <3> QED BY <2>1, <3>1
  <2>9. Total' = Total
    BY <2>2, <2>8 DEF Total
  <2>10. LoadDated'
    <3>1. \A h \in Row : \A u : Dated(h, u)' <=> Dated(h, u)
      BY <1>0 DEF Dated
    <3>2. \A h \in Listed \cup Answered : h \in Row /\ Dated(h, load'.list[h])
      BY <2>1, <2>2 DEF Listed, Answered
    <3>3. \A h \in Listed \cup Answered : Dated(h, load.list[h])'
      BY <3>1, <3>2
    <3> QED BY <2>4, <3>3 DEF LoadDated
  <2>11. Closed(Listed \cup Answered)' /\ Closed((Listed \cup Answered) \cup {})'
    <3>1. (Listed \cup Answered) \cup {} = Listed \cup Answered
      OBVIOUS
    <3>2. PICK S : S = Listed \cup Answered
      OBVIOUS
    <3>3. Closed(S)' 
      BY <2>6, <2>7, <3>2
    <3> QED BY <2>4, <3>2, <3>3 DEF Closed
  <2>12. LoadShape'
    BY <2>1, <2>2, <2>3, <2>4, <2>6, <2>7, <2>9, <2>11 DEF LoadShape
  <2> QED BY <2>10, <2>12 DEF LoadInv
<1> QED BY <1>1, <1>2, <1>3

\* Every step keeps what a load has and has been answered.
LEMMA NextLoad ==
    ASSUME TypeInv, TypeInv', Stamps, LoadTidy, LoadInv, [Next]_vars, holes' = {}
    PROVE  LoadInv'
<1>1. CASE FailLoad
  BY <1>1 DEF FailLoad, LoadInv, NoLoad
<1>2. \/ load' = load
      \/ StartLoad \/ ServeLoad \/ ReceiveLoad \/ FailLoad
  BY DEF Next, Write, Discover, Insert, Change, Fetch, Remove, Clear, Announce, Serve, Connect,
         ReadPage, TakeBatch, SendBatched, Activate, Drop, Disconnect, Browse, Receive,
         ReceiveCleared, FailCleared, vars, page
<1> QED BY <1>1, <1>2, LoadKept, StartedLoad, ServedLoad, ReceivedLoad

\* Init: there is no load.
LEMMA InitLoad == Init => LoadInv
BY DEF Init, NoLoad, LoadInv

-----------------------------------------------------------------------------
\* A row that is not there: its removal is still to be announced, or what is on its way
\* leaves the page without it.
Gone(h) ==
    \/ RemovalPending(h)
    \/ Mended(~Blank /\ shown[h] # Absent, Stream, About(h), Erasing(h))

\* A row that is there: what is on its way leaves the page with nothing of a later
\* millisecond, with its version, or its snapshot is still to be read.
Ranked(h) ==
    Mended(~Blank /\ shown[h].seen > Ms[ver[h]], Stream, Ahead(h, ver[h]), Erasing(h))
Streamed(h) ==
    Mended(~Blank /\ shown[h] # Item(ver[h]), Stream,
           Spoiling(h, ver[h]), Decisive(h, ver[h]))
Expected(h) ==
    /\ link.state = "reading" /\ h \notin link.delivered /\ link.delivered \subseteq Present
    /\ Cured(link.queue, Spoiling(h, ver[h]), Decisive(h, ver[h]))

RowInv(h) ==
    /\ ver[h] = 0 => Gone(h)
    /\ ver[h] > 0 => Ranked(h) /\ (Owed(h) \/ Streamed(h) \/ Expected(h))
RowsInv == Live => \A h \in Row : RowInv(h)

\* What travels to the page, and where.
LEMMA StreamTypes ==
    ASSUME TypeInv
    PROVE  /\ frames \in Seq(Entry) /\ link.batch \in Seq(Entry) /\ link.queue \in Seq(Entry)
           /\ Posted \in Seq(Entry) /\ Stream \in Seq(Entry)
           /\ Event \subseteq Entry
<1>1. link.batch \in Seq(Event) /\ link.queue \in Seq(Event) /\ frames \in Seq(Entry)
  BY DEF TypeInv, TypeOK, Link, Entry
<1>2. Event \subseteq Entry
  BY DEF Entry
<1>3. link.batch \in Seq(Entry) /\ link.queue \in Seq(Entry)
  BY <1>1, <1>2
<1>4. Posted \in Seq(Entry)
  BY <1>1, <1>3 DEF Posted
<1>5. Stream \in Seq(Entry)
  BY <1>3, <1>4 DEF Stream
<1> QED BY <1>1, <1>2, <1>3, <1>4, <1>5

\* A step that leaves the store, the writers and the stream alone, and makes nothing amiss
\* on the page that was not.
LEMMA RowKept ==
    ASSUME TypeInv, NEW h \in Row, RowInv(h),
           ver'[h] = ver[h], job' = job, Stream' = Stream, Blank' = Blank,
           ver[h] = 0 /\ ~Blank /\ shown'[h] # Absent => shown[h] # Absent,
           ver[h] > 0 /\ ~Blank /\ shown'[h].seen > Ms[ver[h]] => shown[h].seen > Ms[ver[h]],
           ver[h] > 0 /\ ~Blank /\ shown'[h] # Item(ver[h]) => shown[h] # Item(ver[h]),
           ver[h] > 0 /\ Expected(h) => Expected(h)'
    PROVE  RowInv(h)'
<1>0. Stream \in Seq(Entry) /\ ver[h] \in Nat
  BY StreamTypes, Counted DEF TypeInv, TypeOK
<1>1. ASSUME ver[h] = 0 PROVE Gone(h)'
  <2>1. RemovalPending(h) => RemovalPending(h)'
    BY DEF RemovalPending
  <2>2. ASSUME Mended(~Blank /\ shown[h] # Absent, Stream, About(h), Erasing(h))
        PROVE  Mended(~Blank' /\ shown'[h] # Absent, Stream', About(h), Erasing(h))
    BY <1>0, <1>1, <2>2, MendedMono
  <2> QED BY <1>1, <2>1, <2>2 DEF RowInv, Gone
<1>2. ASSUME ver[h] > 0 PROVE Ranked(h)' /\ (Owed(h)' \/ Streamed(h)' \/ Expected(h)')
  <2>0. Ranked(h) /\ (Owed(h) \/ Streamed(h) \/ Expected(h))
    BY <1>2 DEF RowInv
  <2>1. PICK v : v = ver[h]
    OBVIOUS
  <2>2. Mended(~Blank' /\ shown'[h].seen > Ms[v], Stream', Ahead(h, v), Erasing(h))
    <3>1. Mended(~Blank /\ shown[h].seen > Ms[v], Stream, Ahead(h, v), Erasing(h))
      BY <2>0, <2>1 DEF Ranked
    <3> QED BY <1>0, <1>2, <2>1, <3>1, MendedMono
  <2>3. Streamed(h) => Mended(~Blank' /\ shown'[h] # Item(v), Stream', Spoiling(h, v), Decisive(h, v))
    <3>1. Streamed(h) => Mended(~Blank /\ shown[h] # Item(v), Stream, Spoiling(h, v), Decisive(h, v))
      BY <2>1 DEF Streamed
    <3> QED BY <1>0, <1>2, <2>1, <3>1, MendedMono
  <2>4. v = ver'[h]
    BY <2>1
  <2>5. Ranked(h)'
    BY <2>2, <2>4 DEF Ranked
  <2>6. Streamed(h) => Streamed(h)'
    BY <2>3, <2>4 DEF Streamed
  <2>7. Owed(h) => Owed(h)'
    BY DEF Owed
  <2> QED BY <1>2, <2>0, <2>5, <2>6, <2>7
<1> QED BY <1>0, <1>1, <1>2 DEF RowInv

-----------------------------------------------------------------------------
\* No row that has been sent is removed while a snapshot is read, unless all are.
LEMMA DeliveredKept ==
    ASSUME TypeInv, NEW w \in Writer, Alters(w), holes' = {}, link.state = "reading",
           link.delivered \subseteq Present, NEW h \in Row, ver'[h] > 0
    PROVE  link'.delivered \subseteq Present'
<1>0. /\ ver \in [Row -> Version] /\ clock \in Nat /\ clock + 1 > 0 /\ job[w].wrote \in Nat
      /\ \A g \in Row : ver[g] \in Nat
  BY Counted DEF TypeInv, TypeOK, Job
<1>1. link'.delivered = link.delivered
  BY AltersStill
<1>2. ASSUME NEW g \in Row, Remove(w, g) PROVE link.delivered \subseteq Present'
  <2>1. ver' = [ver EXCEPT ![g] = 0] /\ g \notin link.delivered
    BY <1>2 DEF Remove
  <2> QED BY <1>0, <2>1 DEF Present
<1>3. ASSUME NEW own \in BOOLEAN, Clear(w, own) PROVE FALSE
  BY <1>3 DEF Clear, NoVersions
<1>4. CASE ~(\E g \in Row : Remove(w, g)) /\ ~(\E own \in BOOLEAN : Clear(w, own))
  <2>1. Present \subseteq Present'
    <3>1. ASSUME NEW g \in Row, Discover(w, g) PROVE Present \subseteq Present'
      BY <3>1 DEF Discover, Present
    <3>2. ASSUME NEW g \in Row, NEW kind \in DOMAIN Announced, Change(w, g, kind)
          PROVE  Present \subseteq Present'
      BY <1>0, <3>2 DEF Change, Present, TypeInv, TypeOK
    <3>3. CASE Insert(w)
      BY <1>0, <3>3 DEF Insert, Present
    <3>4. CASE Fetch(w)
      BY <3>4 DEF Fetch, Present, library
    <3>5. \/ \E g \in Row : Discover(w, g)
          \/ \E g \in Row, kind \in DOMAIN Announced : Change(w, g, kind)
          \/ Insert(w) \/ Fetch(w)
      BY <1>4 DEF Alters
    <3> QED BY <3>1, <3>2, <3>3, <3>4, <3>5
  <2> QED BY <1>1, <2>1
<1> QED BY <1>1, <1>2, <1>3, <1>4

\* A row that changes or is added owes the page its new version; what is on its way is not
\* beyond that.
LEMMA AltersRow ==
    ASSUME TypeInv, TypeInv', Stamps, JobTidy, NEW w \in Writer, Alters(w), [Next]_vars,
           holes' = {}, NEW h \in Row, RowInv(h)
    PROVE  RowInv(h)'
<1>0. /\ Stream \in Seq(Entry) /\ ver[h] \in Version /\ ver'[h] \in Version
      /\ \A v \in Version : v \in Nat /\ Ms[v] \in Nat
      /\ Absent.seen = 0 /\ shown[h] \in Shown
  BY StreamTypes, Counted DEF TypeInv, TypeOK, Absent
<1>1. /\ Stream' = Stream /\ Blank' = Blank /\ shown' = shown
      /\ link'.state = link.state /\ link'.queue = link.queue /\ link'.delivered = link.delivered
  BY AltersStill DEF Stream, Posted, Blank
<1>2. PICK u, v : u = ver[h] /\ v = ver'[h]
  OBVIOUS
<1>3. /\ RowInv(h)' <=> /\ v = 0 => Gone(h)'
                        /\ v > 0 => Ranked(h)' /\ (Owed(h)' \/ Streamed(h)' \/ Expected(h)')
      /\ Ranked(h) <=> Mended(~Blank /\ shown[h].seen > Ms[u], Stream, Ahead(h, u), Erasing(h))
      /\ Ranked(h)' <=> Mended(~Blank /\ shown[h].seen > Ms[v], Stream, Ahead(h, v), Erasing(h))
  BY <1>1, <1>2 DEF RowInv, Ranked
<1>4. CASE u = v /\ u = 0
  <2>1. Gone(h) /\ (RemovalPending(h) => RemovalPending(h)')
    BY <1>2, <1>4, AltersKeeps DEF RowInv
  <2>2. Gone(h)'
    BY <1>1, <2>1 DEF Gone
  <2> QED BY <1>3, <1>4, <2>2
<1>5. CASE u = v /\ u > 0
  <2>1. Ranked(h) /\ (Owed(h) \/ Streamed(h) \/ Expected(h))
    BY <1>2, <1>5 DEF RowInv
  <2>2. Ranked(h)'
    BY <1>3, <1>5, <2>1
  <2>3. Owed(h) => Owed(h)'
    BY <1>2, <1>5, AltersKeeps
  <2>4. Streamed(h) => Streamed(h)'
    BY <1>1, <1>2, <1>5 DEF Streamed
  <2>5. Expected(h) => Expected(h)'
    <3>1. Expected(h) => link'.delivered \subseteq Present'
      BY <1>2, <1>5, DeliveredKept DEF Expected
    <3> QED BY <1>1, <1>2, <1>5, <3>1 DEF Expected
  <2> QED BY <1>3, <1>5, <2>1, <2>2, <2>3, <2>4, <2>5
<1>6. CASE u > 0 /\ v > 0 /\ Ms[u] < Ms[v] /\ Owed(h)'
  <2>1. Mended(~Blank /\ shown[h].seen > Ms[u], Stream, Ahead(h, u), Erasing(h))
    BY <1>2, <1>3, <1>6 DEF RowInv
  <2>2. Ahead(h, v) \subseteq Ahead(h, u)
    <3> SUFFICES ASSUME NEW e \in About(h), Ms[Stamp(h, e)] > Ms[v] PROVE Ms[Stamp(h, e)] > Ms[u]
      BY DEF Ahead
    <3>1. e \in Entry
      BY DEF About
    <3>2. Stamp(h, e) \in Version
      BY <3>1, StampTypes
    <3> QED BY <1>0, <1>2, <1>6, <3>2
  <2>3. shown[h].seen > Ms[v] => shown[h].seen > Ms[u]
    BY <1>0, <1>2, <1>6 DEF Shown
  <2>4. Mended(~Blank /\ shown[h].seen > Ms[v], Stream, Ahead(h, v), Erasing(h))
    BY <1>0, <2>1, <2>2, <2>3, MendedMono
  <2> QED BY <1>3, <1>6, <2>4
<1>7. CASE u = 0 /\ v > 0 /\ Owed(h)' /\ ~RemovalPending(h)
  <2>1. Mended(~Blank /\ shown[h] # Absent, Stream, About(h), Erasing(h))
    BY <1>2, <1>7 DEF RowInv, Gone
  <2>2. Ahead(h, v) \subseteq About(h)
    BY DEF Ahead
  <2>3. shown[h].seen > Ms[v] => shown[h] # Absent
    BY <1>0, <1>2
  <2>4. Mended(~Blank /\ shown[h].seen > Ms[v], Stream, Ahead(h, v), Erasing(h))
    BY <1>0, <2>1, <2>2, <2>3, MendedMono
  <2> QED BY <1>3, <1>7, <2>4
<1>8. CASE v = 0 /\ RemovalPending(h)'
  BY <1>3, <1>8 DEF Gone
<1>9. u \in Nat /\ v \in Nat
  BY <1>0, <1>2
<1>10. \/ u = v
       \/ u > 0 /\ v > 0 /\ Ms[u] < Ms[v] /\ Owed(h)'
       \/ u = 0 /\ v > 0 /\ Owed(h)' /\ ~RemovalPending(h)
       \/ v = 0 /\ RemovalPending(h)'
  BY <1>2, RowStep
<1> QED BY <1>4, <1>5, <1>6, <1>7, <1>8, <1>9, <1>10

-----------------------------------------------------------------------------
\* What is announced goes to the end of what is on its way.
LEMMA AnnouncedStream ==
    ASSUME TypeInv, LinkTidy, NEW w \in Writer, Announce(w), NEW e, e = job[w].event
    PROVE  /\ Live => Stream' = Append(Stream, e)
           /\ link.state = "reading" => link'.queue = Append(link.queue, e)
           /\ Blank' = Blank /\ (Live' <=> Live) /\ shown' = shown /\ ver' = ver
           /\ link'.state = link.state /\ link'.delivered = link.delivered
           /\ e \in Event /\ e \in Entry
<1>0. /\ link \in Link /\ e \in Event /\ e \in Entry
      /\ frames \in Seq(Entry) /\ link.batch \in Seq(Entry) /\ link.queue \in Seq(Entry)
      /\ Posted \in Seq(Entry)
  BY AnnounceJob, StreamTypes DEF TypeInv, TypeOK
<1>1. shown' = shown /\ ver' = ver
  BY DEF Announce, page, library
<1>2. CASE link.state \in {"reading", "draining"}
  <2>1. /\ link' = [link EXCEPT !.queue = Append(link.queue, e)]
        /\ frames' = frames
    BY <1>2 DEF Announce
  <2>2. /\ link'.queue = Append(link.queue, e) /\ link'.batch = link.batch
        /\ link'.state = link.state /\ link'.delivered = link.delivered
        /\ link'.first = link.first
    BY <1>0, <2>1 DEF Link
  <2>3. Stream' = Posted \o Append(link.queue, e)
    BY <2>1, <2>2 DEF Stream, Posted
  <2>4. Posted \o Append(link.queue, e) = Append(Posted \o link.queue, e)
    BY <1>0
  <2> QED BY <1>0, <1>1, <2>2, <2>3, <2>4 DEF Stream, Blank, Live
<1>3. CASE link.state = "open"
  <2>1. link' = link /\ frames' = Append(frames, e)
    BY <1>3 DEF Announce
  <2>2. link.batch = <<>> /\ link.queue = <<>>
    BY <1>3 DEF LinkTidy
  <2>3. Stream' = (Append(frames, e) \o <<>>) \o <<>> /\ Stream = (frames \o <<>>) \o <<>>
    BY <2>1, <2>2 DEF Stream, Posted
  <2>4. \A s \in Seq(Entry) : s \o <<>> = s
    OBVIOUS
  <2>5. Append(frames, e) \in Seq(Entry)
    BY <1>0
  <2>6. Stream' = Append(frames, e) /\ Stream = frames
    BY <1>0, <2>3, <2>4, <2>5
  <2> QED BY <1>0, <1>1, <1>3, <2>1, <2>6 DEF Blank, Live
<1>4. CASE link.state \notin {"reading", "draining", "open"}
  <2>1. link' = link
    BY <1>4 DEF Announce
  <2> QED BY <1>0, <1>1, <1>4, <2>1 DEF Blank, Live
<1> QED BY <1>2, <1>3, <1>4

\* What is announced never puts the page beyond a row; a removal is of rows that are not
\* there; and what is no longer owed was announced, with the version of the row.
LEMMA AnnouncedEvent ==
    ASSUME TypeInv, JobTidy, HeldInv, NEW w \in Writer, Announce(w), NEW h \in Row,
           NEW e, e = job[w].event, NEW v, v = ver[h]
    PROVE  /\ v = 0 => /\ e \notin About(h)
                       /\ RemovalPending(h) => RemovalPending(h)' \/ e \in Erasing(h)
           /\ v > 0 => /\ e \notin Ahead(h, v) /\ e \notin Erasing(h)
                       /\ Owed(h) => Owed(h)' \/ (e \in Decisive(h, v) /\ e \notin Spoiling(h, v))
                       /\ e \notin Spoiling(h, v) \/ Owed(h)'
<1>0. /\ e \in Event /\ e \in Entry /\ job[w] \in Job
      /\ e.type \in ItemEvents \cup Removals /\ ItemEvents \cap Removals = {}
      /\ TrueEvent(e) /\ ver' = ver
      /\ e.type \in ItemEvents => e.at \in Version
      /\ v \in Version /\ v \in Nat
      /\ \A u \in Version : Ms[u] \in Nat
  <2>1. e \in Event /\ job[w] \in Job /\ ver' = ver
    BY AnnounceJob DEF Announce, library
  <2>2. e.type \in ItemEvents \cup Removals /\ e.at \in Version /\ e \in Entry
    BY <2>1 DEF Event, Entry
  <2>3. v \in Version /\ v \in Nat /\ \A u \in Version : Ms[u] \in Nat
    BY Counted DEF TypeInv, TypeOK
  <2> QED BY <2>1, <2>2, <2>3 DEF HeldInv, ItemEvents, Removals
<1>1. \A x \in Writer : x # w => job'[x] = job[x]
  BY DEF Announce, TypeInv, TypeOK
<1>2. /\ e \in About(h) <=> e.type \in ItemEvents /\ e.row = h
      /\ e \in Erasing(h) <=> (e.type = "removed" /\ e.row = h) \/ e.type = "cleared"
      /\ e.type \in ItemEvents => Stamp(h, e) = e.at
  BY <1>0 DEF About, Erasing, Stamp, ItemEvents, Removals
<1>5. e \in About(h) => /\ Dated(h, e.at) /\ Stamp(h, e) = e.at
                         /\ Ms[e.at] \in Nat /\ Ms[v] \in Nat
  BY <1>0, <1>2 DEF TrueEvent
<1>3. ASSUME v = 0
      PROVE  /\ e \notin About(h)
             /\ RemovalPending(h) => RemovalPending(h)' \/ e \in Erasing(h)
  <2>1. e \notin About(h)
    BY <1>3, <1>5 DEF Dated
  <2>2. RemovalPending(h) => RemovalPending(h)' \/ e \in Erasing(h)
    BY <1>1, <1>2 DEF RemovalPending
  <2> QED BY <2>1, <2>2
<1>4. ASSUME v > 0
      PROVE  /\ e \notin Ahead(h, v) /\ e \notin Erasing(h)
             /\ Owed(h) => Owed(h)' \/ (e \in Decisive(h, v) /\ e \notin Spoiling(h, v))
             /\ e \notin Spoiling(h, v) \/ Owed(h)'
  <2>1. e \in About(h) => e.at = v \/ Ms[e.at] < Ms[v]
    BY <1>5 DEF Dated
  <2>2. e \notin Ahead(h, v)
    BY <1>5, <2>1 DEF Ahead
  <2>3. e \notin Erasing(h)
    BY <1>0, <1>2, <1>4 DEF TrueEvent, Present
  <2>4. job[w].todo \in Changes /\ job[w].row = h => Owed(h)'
    <3>1. job[w].todo \in Changes => job'[w].todo = job[w].todo /\ job'[w].row = job[w].row
      BY AnnounceJob, StepsDiffer
    <3> QED BY <3>1 DEF Owed, Owes
  <2>5. CASE e \in About(h) /\ e.type = "classified"
    <3>1. job[w].todo = <<"changed">> /\ job[w].row = h
      BY <1>2, <2>5 DEF JobTidy, ItemEvents
    <3>2. Owed(h)'
      BY <2>4, <3>1, StepsDiffer
    <3> QED BY <2>2, <2>3, <3>2
  <2>6. CASE ~(e \in About(h) /\ e.type = "classified")
    <3>1. e \in About(h) => e.status = e.at
      BY <1>2, <2>6 DEF JobTidy
    <3>2. e \notin Spoiling(h, v)
      BY <1>5, <2>1, <2>3, <2>6, <3>1 DEF Spoiling
    <3>3. ASSUME Owed(h) PROVE Owed(h)' \/ e \in Decisive(h, v)
      <4>1. PICK x \in Writer : Owes(job[x], h, ver[h])
        BY <3>3 DEF Owed
      <4>2. CASE x # w
        BY <1>0, <1>1, <4>1, <4>2 DEF Owed
      <4>3. CASE x = w /\ job[w].todo \in Changes
        BY <2>4, <4>1, <4>3 DEF Owes
      <4>4. CASE x = w /\ e.type = "changed" /\ e.at = ver[h] /\ job[w].row = h
        <5>1. e \in About(h) /\ Stamp(h, e) = v
          BY <1>2, <4>4 DEF JobTidy, ItemEvents
        <5> QED BY <4>4, <5>1 DEF Decisive
      <4> QED BY <4>1, <4>2, <4>3, <4>4 DEF Owes
    <3> QED BY <2>2, <2>3, <3>2, <3>3
  <2> QED BY <2>5, <2>6
<1> QED BY <1>3, <1>4

\* An announcement: the row is no worse off, or what was owed is on its way.
LEMMA AnnounceRow ==
    ASSUME TypeInv, LinkTidy, JobTidy, HeldInv, NEW w \in Writer, Announce(w), Live,
           NEW h \in Row, RowInv(h)
    PROVE  RowInv(h)'
<1>1. PICK e, v : e = job[w].event /\ v = ver[h]
  OBVIOUS
<1>2. /\ Stream' = Append(Stream, e)
      /\ link.state = "reading" => link'.queue = Append(link.queue, e)
      /\ Blank' = Blank /\ shown' = shown /\ ver' = ver
      /\ link'.state = link.state /\ link'.delivered = link.delivered
      /\ e \in Entry /\ Stream \in Seq(Entry) /\ link.queue \in Seq(Entry)
  BY <1>1, AnnouncedStream, StreamTypes
<1>3. ASSUME v = 0 PROVE Gone(h)'
  <2>1. e \notin About(h) /\ (RemovalPending(h) => RemovalPending(h)' \/ e \in Erasing(h))
    BY <1>1, <1>3, AnnouncedEvent
  <2>2. RemovalPending(h) \/ Mended(~Blank /\ shown[h] # Absent, Stream, About(h), Erasing(h))
    BY <1>1, <1>3 DEF RowInv, Gone
  <2>3. RemovalPending(h)' \/ Mended(~Blank /\ shown[h] # Absent, Append(Stream, e), About(h), Erasing(h))
    BY <1>2, <2>1, <2>2, MendedAppend
  <2> QED BY <1>2, <2>3 DEF Gone
<1>4. ASSUME v > 0 PROVE Ranked(h)' /\ (Owed(h)' \/ Streamed(h)' \/ Expected(h)')
  <2>0. /\ e \notin Ahead(h, v) /\ e \notin Erasing(h)
        /\ Owed(h) => Owed(h)' \/ (e \in Decisive(h, v) /\ e \notin Spoiling(h, v))
        /\ e \notin Spoiling(h, v) \/ Owed(h)'
    BY <1>1, <1>4, AnnouncedEvent
  <2>1. Ranked(h) /\ (Owed(h) \/ Streamed(h) \/ Expected(h))
    BY <1>1, <1>4 DEF RowInv
  <2>2. Mended(~Blank /\ shown[h].seen > Ms[v], Append(Stream, e), Ahead(h, v), Erasing(h))
    <3>1. Mended(~Blank /\ shown[h].seen > Ms[v], Stream, Ahead(h, v), Erasing(h))
      BY <1>1, <2>1 DEF Ranked
    <3> QED BY <1>2, <2>0, <3>1, MendedAppend
  <2>3. Ranked(h)'
    BY <1>1, <1>2, <2>2 DEF Ranked
  <2>4. ASSUME e \notin Spoiling(h, v), Streamed(h) \/ e \in Decisive(h, v) PROVE Streamed(h)'
    <3>1. Mended(~Blank /\ shown[h] # Item(v), Stream, Spoiling(h, v), Decisive(h, v))
          \/ e \in Decisive(h, v)
      BY <1>1, <2>4 DEF Streamed
    <3>2. Mended(~Blank /\ shown[h] # Item(v), Append(Stream, e), Spoiling(h, v), Decisive(h, v))
      BY <1>2, <2>4, <3>1, MendedAppend
    <3> QED BY <1>1, <1>2, <3>2 DEF Streamed
  <2>5. ASSUME e \notin Spoiling(h, v), Expected(h) PROVE Expected(h)'
    <3>1. /\ link.state = "reading" /\ h \notin link.delivered /\ link.delivered \subseteq Present
          /\ Cured(link.queue, Spoiling(h, v), Decisive(h, v))
      BY <1>1, <2>5 DEF Expected
    <3>2. Mended(FALSE, link.queue, Spoiling(h, v), Decisive(h, v))
      BY <3>1 DEF Mended
    <3>3. Mended(FALSE, Append(link.queue, e), Spoiling(h, v), Decisive(h, v))
      BY <1>2, <2>5, <3>2, MendedAppend
    <3>4. Cured(link'.queue, Spoiling(h, v), Decisive(h, v))
      BY <1>2, <3>1, <3>3 DEF Mended
    <3>5. Present' = Present
      BY <1>2 DEF Present
    <3> QED BY <1>1, <1>2, <3>1, <3>4, <3>5 DEF Expected
  <2> QED BY <2>0, <2>1, <2>3, <2>4, <2>5
<1> QED BY <1>1, <1>2, <1>3, <1>4 DEF RowInv

-----------------------------------------------------------------------------
\* The rows of a page that have not been sent, the frame they are sent in, and init_done.
Fresh == PageOf(ByName, link.offset) \ link.delivered
Sends(m) ==
    /\ m \in Snapshot /\ m.rows = Versions(Fresh)
    /\ m.type = IF link.first THEN "init" ELSE "init_page"
Done == [type |-> "init_done", rows |-> NoVersions]

\* A page is read: what it sends goes before what is in the buffer, and the connection is
\* read for or drained until it fails.
LEMMA ReadStream ==
    ASSUME TypeInv, LinkTidy, ReadPage, Live'
    PROVE  \E c \in Seq(Entry), m \in Entry :
              /\ Stream = frames \o link.queue /\ Stream' = (frames \o c) \o link.queue
              /\ Sends(m)
              /\ c \in {<<>>, <<m>>, <<Done>>, <<m>> \o <<Done>>}
              /\ link.first \/ Fresh # {} => c \in {<<m>>, <<m>> \o <<Done>>}
              /\ ~Blank' /\ (Blank <=> link.first)
              /\ link'.delivered = link.delivered \cup PageOf(ByName, link.offset)
              /\ link'.queue = link.queue
              /\ \/ link'.state = "reading"
                 \/ Cardinality(link'.delivered) >= Cardinality(Present)
<1> DEFINE rows == PageOf(ByName, link.offset)
           delivered == link.delivered \cup rows
           offset == link.offset + Cardinality(rows)
           init == [type |-> "init", rows |-> Versions(Fresh)]
           more == [type |-> "init_page", rows |-> Versions(Fresh)]
           sent == CASE link.first -> <<init>>
                     [] ~link.first /\ Fresh # {} -> <<more>>
                     [] OTHER -> <<>>
           done == IF offset >= Cardinality(Present) /\ Complete(delivered)
                   THEN <<Done>> ELSE <<>>
           m == IF link.first THEN init ELSE more
<1>0. /\ link \in Link /\ link.state = "reading" /\ link.batch = <<>>
      /\ frames \in Seq(Entry) /\ link.queue \in Seq(Entry)
  BY StreamTypes DEF TypeInv, TypeOK, ReadPage, LinkTidy
<1>1. frames' = (frames \o sent) \o done
  BY DEF ReadPage, Fresh, Done
<1>2. link' # Down
  BY DEF Live, Down
<1>3. /\ \/ link' = [link EXCEPT !.offset = offset, !.delivered = delivered, !.first = FALSE]
         \/ /\ link' = [link EXCEPT !.state = "draining", !.offset = offset,
                                    !.delivered = delivered, !.first = FALSE]
            /\ Complete(delivered)
         \/ link' = [link EXCEPT !.offset = 0, !.delivered = delivered, !.first = FALSE]
  <2> HIDE DEF rows, delivered, offset
  <2> QED BY <1>2 DEF ReadPage, rows, delivered, offset
<1> HIDE DEF delivered, offset
<1>4. /\ link'.delivered = delivered /\ link'.first = FALSE /\ link'.queue = link.queue
      /\ link'.batch = <<>>
      /\ link'.state = "reading" \/ (link'.state = "draining" /\ Complete(delivered))
  BY <1>0, <1>3 DEF Link
<1>5. Versions(Fresh) \in [Row -> Version] /\ NoVersions \in [Row -> Version]
  BY Counted DEF Versions, NoVersions, TypeInv, TypeOK
<1>6. m \in Snapshot /\ Sends(m) /\ Done \in Snapshot
  BY <1>5 DEF Snapshot, Sends, Done
<1>7. /\ sent = <<m>> \/ sent = <<>>
      /\ link.first \/ Fresh # {} => sent = <<m>>
      /\ done = <<Done>> \/ done = <<>>
  BY <1>0 DEF Link
<1> HIDE DEF sent, done, m, rows
<1>8. m \in Entry /\ Done \in Entry
  BY <1>6 DEF Entry
<1>9. sent \in Seq(Entry) /\ done \in Seq(Entry) /\ <<m>> \in Seq(Entry) /\ <<Done>> \in Seq(Entry)
  <2>1. <<>> \in Seq(Entry) /\ \A x \in Entry : <<x>> \in Seq(Entry)
    OBVIOUS
  <2> QED BY <1>7, <1>8, <2>1
<1> DEFINE c == sent \o done
<1>10. c \in Seq(Entry) /\ frames' = frames \o c
  BY <1>0, <1>1, <1>9
<1>11. \A s \in Seq(Entry) : s \o <<>> = s /\ <<>> \o s = s
  OBVIOUS
<1>12. /\ c \in {<<>>, <<m>>, <<Done>>, <<m>> \o <<Done>>}
       /\ link.first \/ Fresh # {} => c \in {<<m>>, <<m>> \o <<Done>>}
  BY <1>7, <1>9, <1>11
<1> HIDE DEF c
<1>13. Stream = frames \o link.queue /\ Stream' = (frames \o c) \o link.queue
  <2>1. frames \o <<>> = frames /\ (frames \o c) \o <<>> = frames \o c
    <3>1. frames \o c \in Seq(Entry)
      BY <1>0, <1>10
    <3> QED BY <1>0, <1>11, <3>1
  <2> QED BY <1>0, <1>4, <1>10, <2>1 DEF Stream, Posted
<1>14. ~Blank' /\ (Blank <=> link.first)
  BY <1>0, <1>4 DEF Blank
<1>15. link'.state = "reading" \/ Cardinality(link'.delivered) >= Cardinality(Present)
  BY <1>4 DEF Complete
<1>16. link'.delivered = link.delivered \cup PageOf(ByName, link.offset)
  BY <1>4 DEF delivered, rows
<1> QED BY <1>4, <1>6, <1>8, <1>10, <1>12, <1>13, <1>14, <1>15, <1>16

\* init_done says nothing of a row; the frame of a page has the rows it has at their
\* versions, and init takes off the others.
LEMMA SentFrames ==
    ASSUME TypeInv, NEW m \in Entry, Sends(m), NEW h \in Row, NEW v, v = ver[h]
    PROVE  /\ \A u : /\ Done \notin About(h) /\ Done \notin Erasing(h)
                     /\ Done \notin Ahead(h, u) /\ Done \notin Spoiling(h, u)
           /\ m \in Erasing(h) <=> link.first
           /\ v = 0 => m \notin About(h)
           /\ v > 0 => m \notin Ahead(h, v)
           /\ v > 0 /\ h \in Fresh => m \in Decisive(h, v) /\ m \notin Spoiling(h, v)
           /\ v > 0 /\ ~link.first => m \notin Spoiling(h, v)
<1>0. /\ v \in Nat /\ Ms[v] \in Nat /\ link \in Link /\ Fresh \subseteq Present
      /\ m.type \in {"init", "init_page"} /\ m.type \notin ItemEvents \cup Removals
      /\ m.rows[h] = IF h \in Fresh THEN v ELSE 0
  BY Counted DEF TypeInv, TypeOK, Fresh, PageOf, Sends, Versions, ItemEvents, Removals
<1>1. \A u : /\ Done \notin About(h) /\ Done \notin Erasing(h)
             /\ Done \notin Ahead(h, u) /\ Done \notin Spoiling(h, u)
  BY DEF Done, About, Erasing, Ahead, Spoiling, ItemEvents
<1>2. m \in Erasing(h) <=> link.first
  BY <1>0 DEF Erasing, Sends, Link
<1>3. /\ m \in About(h) <=> h \in Fresh /\ v > 0
      /\ m \in About(h) => Stamp(h, m) = v
  BY <1>0 DEF About, Stamp
<1>4. m \notin Ahead(h, v)
  BY <1>0, <1>3 DEF Ahead
<1>5. m.type \notin {"classified", "result"}
  BY <1>0
<1>6. h \in Fresh /\ v > 0 => m \in Decisive(h, v)
  BY <1>3, <1>5 DEF Decisive
<1>7. m \in Spoiling(h, v) => m \in Erasing(h) /\ m \notin Decisive(h, v)
  BY <1>3, <1>5 DEF Spoiling
<1> QED BY <1>0, <1>1, <1>2, <1>3, <1>4, <1>6, <1>7

\* What a page sends is harmless to a row that it does not spoil, and cures with its frame.
LEMMA SentPart ==
    ASSUME NEW m \in Entry, NEW c, c \in {<<>>, <<m>>, <<Done>>, <<m>> \o <<Done>>},
           NEW bad, NEW cure, Done \notin bad
    PROVE  /\ m \notin bad => Cured(c, bad, cure)
           /\ c \in {<<m>>, <<m>> \o <<Done>>} /\ m \in cure => Contains(c, cure)
<1>1. Done \in Entry
  BY Counted DEF Done, Entry, Snapshot, NoVersions
<1>2. <<m>> \in Seq(Entry) /\ <<Done>> \in Seq(Entry)
  BY <1>1
<1>3. /\ Contains(<<m>> \o <<Done>>, cure) <=> Contains(<<m>>, cure) \/ Contains(<<Done>>, cure)
      /\ Cured(<<m>> \o <<Done>>, bad, cure)
           <=> Cured(<<Done>>, bad, cure) /\ (Cured(<<m>>, bad, cure) \/ Contains(<<Done>>, cure))
  BY <1>2, ContainsConcat, CuredConcat
<1>4. /\ Contains(<<m>>, cure) <=> m \in cure
      /\ Cured(<<m>>, bad, cure) <=> m \notin bad
      /\ Cured(<<Done>>, bad, cure)
      /\ Cured(<<>>, bad, cure)
  BY One
<1> QED BY <1>3, <1>4

\* A page is read.
LEMMA ReadRow ==
    ASSUME TypeInv, LinkTidy, ReadPage, Live', NEW h \in Row, RowInv(h)
    PROVE  RowInv(h)'
<1> DEFINE rows == PageOf(ByName, link.offset)
<1>1. PICK c \in Seq(Entry), m \in Entry :
              /\ Stream = frames \o link.queue /\ Stream' = (frames \o c) \o link.queue
              /\ Sends(m)
              /\ c \in {<<>>, <<m>>, <<Done>>, <<m>> \o <<Done>>}
              /\ link.first \/ Fresh # {} => c \in {<<m>>, <<m>> \o <<Done>>}
              /\ ~Blank' /\ (Blank <=> link.first)
              /\ link'.delivered = link.delivered \cup rows
              /\ link'.queue = link.queue
              /\ \/ link'.state = "reading"
                 \/ Cardinality(link'.delivered) >= Cardinality(Present)
  BY ReadStream
<1>2. PICK v : v = ver[h]
  OBVIOUS
<1>3. /\ frames \in Seq(Entry) /\ link.queue \in Seq(Entry) /\ link \in Link
      /\ ver' = ver /\ job' = job /\ shown' = shown /\ Present' = Present /\ v \in Nat
      /\ link.state = "reading" /\ (link.first => link.delivered = {})
  <2>1. ver' = ver /\ job' = job /\ shown' = shown
    BY DEF ReadPage, library, page
  <2>2. v \in Nat
    BY <1>2, Counted DEF TypeInv, TypeOK
  <2>3. link.state = "reading" /\ (link.first => link.delivered = {})
    BY DEF ReadPage, LinkTidy
  <2> QED BY <2>1, <2>2, <2>3, StreamTypes DEF TypeInv, TypeOK, Present
<1>4. ASSUME NEW bad, NEW cure, Done \notin bad, m \notin bad, NEW amiss,
             Mended(~Blank /\ amiss, Stream, bad, cure),
             link.first => m \in cure
      PROVE  Mended(~Blank' /\ amiss, Stream', bad, cure)
  <2>1. Cured(c, bad, cure)
    BY <1>1, <1>4, SentPart
  <2>2. Cured(link.queue, bad, cure)
    <3>1. Cured(frames \o link.queue, bad, cure)
      BY <1>1, <1>4 DEF Mended
    <3> QED BY <1>3, <3>1, MendedSuffix
  <2>3. CASE link.first
    <3>1. Contains(c, cure)
      BY <1>1, <1>4, <2>3, SentPart
    <3>2. \A x : Mended(x, (frames \o c) \o link.queue, bad, cure)
      BY <1>3, <2>1, <2>2, <3>1, MendedInsert
    <3> QED BY <1>1, <3>2
  <2>4. CASE ~link.first
    <3>1. Mended(~Blank /\ amiss, frames \o link.queue, bad, cure)
      BY <1>1, <1>4
    <3>2. Mended(~Blank /\ amiss, (frames \o c) \o link.queue, bad, cure)
      BY <1>3, <2>1, <3>1, MendedInsert
    <3> QED BY <1>1, <2>4, <3>2 DEF Mended
  <2> QED BY <2>3, <2>4
<1>5. /\ \A u : /\ Done \notin About(h) /\ Done \notin Erasing(h)
                /\ Done \notin Ahead(h, u) /\ Done \notin Spoiling(h, u)
      /\ m \in Erasing(h) <=> link.first
      /\ v = 0 => m \notin About(h)
      /\ v > 0 => m \notin Ahead(h, v)
      /\ v > 0 /\ h \in Fresh => m \in Decisive(h, v) /\ m \notin Spoiling(h, v)
      /\ v > 0 /\ ~link.first => m \notin Spoiling(h, v)
  BY <1>1, <1>2, SentFrames
<1>6. ASSUME v = 0 PROVE Gone(h)'
  <2>1. RemovalPending(h) => RemovalPending(h)'
    BY <1>3 DEF RemovalPending
  <2>2. ASSUME Mended(~Blank /\ shown[h] # Absent, Stream, About(h), Erasing(h))
        PROVE  Mended(~Blank' /\ shown[h] # Absent, Stream', About(h), Erasing(h))
    BY <1>4, <1>5, <1>6, <2>2
  <2>3. Gone(h)
    BY <1>2, <1>6 DEF RowInv
  <2> QED BY <1>3, <2>1, <2>2, <2>3 DEF Gone
<1>7. ASSUME v > 0 PROVE Ranked(h)' /\ (Owed(h)' \/ Streamed(h)' \/ Expected(h)')
  <2>1. Ranked(h) /\ (Owed(h) \/ Streamed(h) \/ Expected(h))
    BY <1>2, <1>7 DEF RowInv
  <2>2. Ranked(h)'
    <3>1. Mended(~Blank /\ shown[h].seen > Ms[v], Stream, Ahead(h, v), Erasing(h))
      BY <1>2, <2>1 DEF Ranked
    <3>2. Mended(~Blank' /\ shown[h].seen > Ms[v], Stream', Ahead(h, v), Erasing(h))
      BY <1>4, <1>5, <1>7, <3>1
    <3> QED BY <1>2, <1>3, <3>2 DEF Ranked
  <2>3. Owed(h) => Owed(h)'
    BY <1>3 DEF Owed
  <2> DEFINE S == Spoiling(h, v)
             D == Decisive(h, v)
  <2>4. /\ Streamed(h) <=> Mended(~Blank /\ shown[h] # Item(v), Stream, S, D)
        /\ Streamed(h)' <=> Mended(~Blank' /\ shown[h] # Item(v), Stream', S, D)
        /\ Expected(h) <=> /\ link.state = "reading" /\ h \notin link.delivered
                           /\ link.delivered \subseteq Present /\ Cured(link.queue, S, D)
        /\ Expected(h)' <=> /\ link'.state = "reading" /\ h \notin link'.delivered
                            /\ link'.delivered \subseteq Present /\ Cured(link.queue, S, D)
    BY <1>1, <1>2, <1>3 DEF Streamed, Expected
  <2>5. Streamed(h) \/ Expected(h) => Cured(link.queue, S, D)
    <3>1. Streamed(h) => Cured(frames \o link.queue, S, D)
      BY <1>1, <2>4 DEF Mended
    <3> QED BY <1>3, <2>4, <3>1, MendedSuffix
  <2>6. ASSUME h \in Fresh, Streamed(h) \/ Expected(h) PROVE Streamed(h)'
    <3>1. m \in D /\ m \notin S
      BY <1>5, <1>7, <2>6
    <3>2. Cured(c, S, D) /\ Contains(c, D)
      BY <1>1, <1>5, <2>6, <3>1, SentPart
    <3>3. \A x : Mended(x, (frames \o c) \o link.queue, S, D)
      BY <1>3, <2>5, <2>6, <3>2, MendedInsert
    <3> QED BY <1>1, <2>4, <3>3
  <2>7. ASSUME h \notin link'.delivered, link'.delivered \subseteq Present,
               Cured(link.queue, S, D)
        PROVE  Expected(h)'
    <3>1. h \in Present
      BY <1>2, <1>7 DEF Present
    <3>2. IsFiniteSet(Present) /\ Cardinality(Present) \in Nat
      BY Finite DEF Present
    <3>3. ~(Cardinality(link'.delivered) >= Cardinality(Present))
      <4>1. link'.delivered # Present
        BY <2>7, <3>1
      <4> QED BY <2>7, <3>2, <4>1, FS_Subset, FS_CardinalityType
    <3> QED BY <1>1, <2>4, <2>7, <3>3
  <2>8. rows \subseteq Present
    BY DEF PageOf
  <2>9. ASSUME h \notin Fresh, Expected(h) PROVE Expected(h)'
    <3>1. h \notin link'.delivered /\ link'.delivered \subseteq Present
      BY <1>1, <2>4, <2>8, <2>9 DEF Fresh
    <3> QED BY <2>5, <2>7, <2>9, <3>1
  <2>10. ASSUME h \notin Fresh, Streamed(h), link.first PROVE Expected(h)'
    <3>1. h \notin link'.delivered /\ link'.delivered \subseteq Present
      BY <1>1, <1>3, <2>8, <2>10 DEF Fresh
    <3> QED BY <2>5, <2>7, <2>10, <3>1
  <2>11. ASSUME h \notin Fresh, Streamed(h), ~link.first PROVE Streamed(h)'
    <3>1. m \notin S /\ Done \notin S
      BY <1>5, <1>7, <2>11
    <3>2. Mended(~Blank /\ shown[h] # Item(v), Stream, S, D)
      BY <2>4, <2>11
    <3>3. Mended(~Blank' /\ shown[h] # Item(v), Stream', S, D)
      BY <1>4, <2>11, <3>1, <3>2
    <3> QED BY <2>4, <3>3
  <2> QED BY <2>1, <2>2, <2>3, <2>6, <2>9, <2>10, <2>11
<1> QED BY <1>2, <1>3, <1>6, <1>7 DEF RowInv

-----------------------------------------------------------------------------
\* The buffer is taken, sent and found empty: what is on its way stays as it is.
LEMMA DrainStream ==
    ASSUME TypeInv, LinkTidy, TakeBatch \/ SendBatched \/ Activate
    PROVE  Stream' = Stream /\ ~Blank /\ ~Blank' /\ link.state # "reading"
<1>0. /\ frames \in Seq(Entry) /\ link.batch \in Seq(Entry) /\ link.queue \in Seq(Entry)
      /\ link \in Link /\ link.state = "draining"
      /\ \A s \in Seq(Entry) : s \o <<>> = s
  BY StreamTypes DEF TypeInv, TypeOK, TakeBatch, SendBatched, Activate
<1>1. CASE TakeBatch
  <2>1. /\ link.batch = <<>> /\ link'.batch = link.queue /\ link'.queue = <<>> /\ frames' = frames
        /\ link'.state = link.state
    BY <1>0, <1>1 DEF TakeBatch, Link
  <2>2. frames \o link.queue \in Seq(Entry)
    BY <1>0
  <2>3. Stream = frames \o link.queue /\ Stream' = frames \o link.queue
    BY <1>0, <2>1, <2>2 DEF Stream, Posted
  <2> QED BY <1>0, <2>1, <2>3 DEF Blank
<1>2. CASE SendBatched
  <2>1. /\ link.batch # <<>> /\ link'.batch = Tail(link.batch) /\ link'.queue = link.queue
        /\ frames' = Append(frames, Head(link.batch)) /\ link'.state = link.state
    BY <1>0, <1>2 DEF SendBatched, Link
  <2>2. Append(frames, Head(link.batch)) \o Tail(link.batch) = frames \o link.batch
    <3>1. PICK a, b, x, t : a = frames /\ b = link.batch /\ x = Head(b) /\ t = Tail(b)
      OBVIOUS
    <3>2. a \in Seq(Entry) /\ b \in Seq(Entry) /\ b # <<>>
      BY <1>0, <2>1, <3>1
    <3>3. x \in Entry /\ t \in Seq(Entry) /\ <<x>> \in Seq(Entry) /\ b = <<x>> \o t
      BY <3>1, <3>2
    <3>4. Append(a, x) = a \o <<x>>
      BY <3>2, <3>3
    <3>5. (a \o <<x>>) \o t = a \o (<<x>> \o t)
      BY <3>2, <3>3, ConcatAssociative
    <3> QED BY <3>1, <3>3, <3>4, <3>5
  <2>3. Stream' = Stream
    BY <2>1, <2>2 DEF Stream, Posted
  <2> QED BY <1>0, <2>1, <2>3 DEF Blank
<1>3. CASE Activate
  <2>1. /\ link.batch = <<>> /\ link'.batch = <<>> /\ link.queue = <<>> /\ link'.queue = <<>>
        /\ frames' = frames /\ link'.state = "open"
    BY <1>3, NewLinks DEF Activate
  <2> QED BY <1>0, <2>1 DEF Stream, Posted, Blank
<1> QED BY <1>1, <1>2, <1>3

\* A new connection: its page is blank, and every row is still to be read.
LEMMA ConnectRow ==
    ASSUME TypeInv, Connect, NEW h \in Row
    PROVE  RowInv(h)'
<1>1. /\ link'.state = "reading" /\ link'.first = TRUE /\ link'.delivered = {}
      /\ link'.queue = <<>> /\ link'.batch = <<>> /\ frames' = <<>>
  BY NewLinks DEF Connect
<1>2. Blank' /\ Stream' = <<>>
  <2>1. (<<>> \o <<>>) \o <<>> = <<>>
    OBVIOUS
  <2> QED BY <1>1, <2>1 DEF Blank, Stream, Posted
<1>3. \A bad, cure, amiss : Cured(<<>>, bad, cure) /\ Mended(~Blank' /\ amiss, <<>>, bad, cure)
  BY <1>2, One DEF Mended
<1>4. Gone(h)' /\ Ranked(h)'
  BY <1>2, <1>3 DEF Gone, Ranked
<1>5. Expected(h)'
  BY <1>1, <1>3 DEF Expected
<1> QED BY <1>4, <1>5 DEF RowInv

\* A frame arrives: what it leaves amiss, those after it mend.
LEMMA ReceiveRow ==
    ASSUME TypeInv, Receive, NEW h \in Row, RowInv(h)
    PROVE  RowInv(h)'
<1>1. PICK e, v : e = Head(frames) /\ v = ver[h]
  OBVIOUS
<1>2. /\ frames \in Seq(Entry) /\ frames # <<>> /\ e \in Entry
      /\ link.batch \in Seq(Entry) /\ link.queue \in Seq(Entry) /\ Stream \in Seq(Entry)
  BY <1>1, StreamTypes DEF Receive
<1>3. Stream # <<>> /\ Head(Stream) = e /\ Tail(Stream) = Stream'
  <2>1. frames' = Tail(frames) /\ link' = link
    BY DEF Receive
  <2>2. \A a, b \in Seq(Entry) : a # <<>> => /\ a \o b # <<>> /\ a \o b \in Seq(Entry)
                                             /\ Head(a \o b) = Head(a)
                                             /\ Tail(a \o b) = Tail(a) \o b
    OBVIOUS
  <2>3. Posted # <<>> /\ Head(Posted) = e /\ Tail(Posted) = Posted' /\ Posted \in Seq(Entry)
    BY <1>1, <1>2, <2>1, <2>2 DEF Posted
  <2> QED BY <1>2, <2>1, <2>2, <2>3 DEF Stream
<1>4. /\ shown' = Apply(e) /\ ver' = ver /\ job' = job /\ link' = link
      /\ shown \in [Row -> Shown] /\ v \in Version /\ v \in Nat /\ Blank' = Blank
  BY <1>1, Counted DEF Receive, TypeInv, TypeOK, library, Blank
<1>5. ASSUME v = 0 PROVE Gone(h)'
  <2>1. RemovalPending(h) => RemovalPending(h)'
    BY <1>4 DEF RemovalPending
  <2>2. ASSUME Mended(~Blank /\ shown[h] # Absent, Stream, About(h), Erasing(h))
        PROVE  Mended(~Blank' /\ shown'[h] # Absent, Stream', About(h), Erasing(h))
    <3>1. ~Blank' /\ shown'[h] # Absent
            => \/ Head(Stream) \in About(h)
               \/ (~Blank /\ shown[h] # Absent) /\ Head(Stream) \notin Erasing(h)
      BY <1>2, <1>3, <1>4, ApplyGone
    <3>2. Mended(~Blank' /\ shown'[h] # Absent, Tail(Stream), About(h), Erasing(h))
      BY <1>2, <1>3, <2>2, <3>1, MendedTail
    <3> QED BY <1>3, <3>2
  <2> QED BY <1>1, <1>5, <2>1, <2>2 DEF RowInv, Gone
<1>6. ASSUME v > 0 PROVE Ranked(h)' /\ (Owed(h)' \/ Streamed(h)' \/ Expected(h)')
  <2>1. Ranked(h) /\ (Owed(h) \/ Streamed(h) \/ Expected(h))
    BY <1>1, <1>6 DEF RowInv
  <2>2. Mended(~Blank /\ shown[h].seen > Ms[v], Stream, Ahead(h, v), Erasing(h))
    BY <1>1, <2>1 DEF Ranked
  <2>3. Ranked(h)'
    <3>1. ~Blank' /\ shown'[h].seen > Ms[v]
            => \/ Head(Stream) \in Ahead(h, v)
               \/ (~Blank /\ shown[h].seen > Ms[v]) /\ Head(Stream) \notin Erasing(h)
      BY <1>2, <1>3, <1>4, ApplyRanked
    <3>2. Mended(~Blank' /\ shown'[h].seen > Ms[v], Tail(Stream), Ahead(h, v), Erasing(h))
      BY <1>2, <1>3, <2>2, <3>1, MendedTail
    <3> QED BY <1>1, <1>3, <1>4, <3>2 DEF Ranked
  <2>4. Owed(h) => Owed(h)'
    BY <1>4 DEF Owed
  <2>5. Expected(h) => Expected(h)'
    BY <1>4 DEF Expected, Present
  <2>6. ASSUME Streamed(h) PROVE Streamed(h)'
    <3> DEFINE S == Spoiling(h, v)
               D == Decisive(h, v)
    <3>1. Mended(~Blank /\ shown[h] # Item(v), Stream, S, D)
      BY <1>1, <2>6 DEF Streamed
    <3>2. Erasing(h) \subseteq S \cup D
      BY DEF Spoiling
    <3> HIDE DEF S, D
    <3>3. ASSUME ~Blank, shown[h].seen > Ms[v], e \notin Erasing(h) PROVE Contains(Tail(Stream), D)
      <4>1. Contains(Tail(Stream), Erasing(h))
        <5>1. Contains(Stream, Erasing(h))
          BY <2>2, <3>3 DEF Mended
        <5>2. Stream = <<Head(Stream)>> \o Tail(Stream) /\ <<Head(Stream)>> \in Seq(Entry)
              /\ Tail(Stream) \in Seq(Entry)
          BY <1>2, <1>3
        <5>3. PICK a, b : a = <<Head(Stream)>> /\ b = Tail(Stream)
          OBVIOUS
        <5>4. Contains(a, Erasing(h)) \/ Contains(b, Erasing(h))
          BY <5>1, <5>2, <5>3, ContainsConcat
        <5>5. ~Contains(a, Erasing(h))
          BY <1>3, <3>3, <5>3, One
        <5> QED BY <5>3, <5>4, <5>5
      <4>2. Cured(Tail(Stream), S, D)
        <5>1. PICK a, b : a = <<Head(Stream)>> /\ b = Tail(Stream)
          OBVIOUS
        <5>2. Stream = a \o b /\ a \in Seq(Entry) /\ b \in Seq(Entry)
          BY <1>2, <1>3, <5>1
        <5>3. Cured(a \o b, S, D)
          BY <3>1, <5>2 DEF Mended
        <5> QED BY <5>1, <5>2, <5>3, MendedSuffix
      <4>3. PICK t : t = Tail(Stream)
        OBVIOUS
      <4>7. t \in Seq(Entry) /\ Len(t) \in Nat
        BY <1>2, <1>3, <4>3
      <4>4. PICK k \in 1 .. Len(t) : t[k] \in Erasing(h)
        BY <4>1, <4>3 DEF Contains
      <4>5. CASE t[k] \in D
        BY <4>3, <4>5 DEF Contains
      <4>6. CASE t[k] \in S
        <5>1. PICK j \in k + 1 .. Len(t) : t[j] \in D
          BY <4>2, <4>3, <4>6 DEF Cured
        <5> QED BY <4>3, <4>7, <5>1 DEF Contains
      <4> QED BY <3>2, <4>4, <4>5, <4>6
    <3>4. ~Blank' /\ shown'[h] # Item(v)
            => \/ Head(Stream) \in S
               \/ (~Blank /\ shown[h] # Item(v)) /\ Head(Stream) \notin D
               \/ Contains(Tail(Stream), D)
      <4>1. Apply(e)[h] # Item(v)
              => \/ e \in S
                 \/ shown[h] # Item(v) /\ e \notin D
                 \/ shown[h].seen > Ms[v] /\ e \notin Erasing(h)
        BY <1>2, <1>4, <1>6, ApplyDecisive DEF S, D
      <4> QED BY <1>3, <1>4, <3>3, <4>1
    <3>5. Mended(~Blank' /\ shown'[h] # Item(v), Tail(Stream), S, D)
      BY <1>2, <1>3, <3>1, <3>4, MendedTail
    <3> QED BY <1>1, <1>3, <1>4, <3>5 DEF Streamed, S, D
  <2> QED BY <2>1, <2>3, <2>4, <2>5, <2>6
<1> QED BY <1>1, <1>4, <1>5, <1>6 DEF RowInv

-----------------------------------------------------------------------------
\* A step that leaves everything but the page alone.
LEMMA BrowseKept ==
    ASSUME TypeInv, NEW h \in Row, RowInv(h), ver' = ver, job' = job, link' = link,
           frames' = frames,
           ver[h] = 0 /\ shown'[h] # Absent => shown[h] # Absent,
           ver[h] > 0 /\ shown'[h].seen > Ms[ver[h]] => shown[h].seen > Ms[ver[h]],
           ver[h] > 0 /\ shown'[h] # Item(ver[h]) => shown[h] # Item(ver[h])
    PROVE  RowInv(h)'
<1>1. Stream' = Stream /\ Blank' = Blank
  BY DEF Stream, Posted, Blank
<1>2. Expected(h) => Expected(h)'
  BY DEF Expected, Present
<1> QED BY <1>1, <1>2, RowKept

\* What is known of a row that is not beyond its version takes nothing further.
LEMMA UpsertRanked ==
    ASSUME NEW i \in Shown, NEW u \in Version \ {0}, NEW v \in Version \ {0},
           u = v \/ Ms[u] < Ms[v]
    PROVE  /\ Upsert(i, u).seen > Ms[v] => i.seen > Ms[v]
           /\ i = Item(v) => Upsert(i, u) = Item(v)
<1>1. /\ Ms[u] \in Nat /\ Ms[v] \in Nat /\ u # 0 /\ v # 0
      /\ Item(u).seen = Ms[u] /\ Item(v).seen = Ms[v]
  BY Counted DEF Item
<1>2. Upsert(i, u) = IF Ms[u] < i.seen THEN i ELSE Item(u)
  BY DEF Upsert
<1> QED BY <1>1, <1>2

\* A load of several pages that is complete has every row.
LEMMA PagedComplete ==
    ASSUME TypeInv, LoadInv, LoadTidy, load.answer.ready, Paged, Counting >= Total
    PROVE  Listed \cup Answered = Present
<1>1. /\ LoadDated /\ LoadShape /\ Counting \in Nat /\ Total \in Nat
      /\ Cardinality(Listed \cup Answered) = Counting
  BY Joining
<1>2. Listed \cup Answered \subseteq Present
  BY <1>1 DEF LoadDated, Listed, Answered, Dated, Present
<1>3. IsFiniteSet(Present) /\ Cardinality(Present) \in Nat /\ Cardinality(Present) <= Total
  BY <1>1, Finite DEF Present, LoadShape
<1> DEFINE S == Listed \cup Answered
<1>4. S \subseteq Present /\ Cardinality(S) >= Cardinality(Present) /\ Cardinality(S) \in Nat
  BY <1>1, <1>2, <1>3
<1> HIDE DEF S
<1>5. S = Present
  BY <1>3, <1>4, FS_Subset, FS_CardinalityType
<1> QED BY <1>5 DEF S

\* A list arrives: it has nothing of rows that are not there, nothing beyond the others, and
\* takes off only what is not in the store.
LEMMA ReceiveLoadRow ==
    ASSUME TypeInv, LoadTidy, LoadInv, ReceiveLoad, NEW h \in Row, RowInv(h)
    PROVE  RowInv(h)'
<1>0. /\ load.answer.ready /\ ver' = ver /\ job' = job /\ link' = link /\ frames' = frames
      /\ load.since \in Version /\ ver[h] \in Version /\ ver[h] \in Nat /\ shown[h] \in Shown
  BY Counted DEF ReceiveLoad, TypeInv, TypeOK, library, Load
<1>1. \/ shown' = shown
      \/ Counting >= Total /\ shown' = Reconcile(Joined, load.since)
      \/ ~(Counting >= Total) /\ shown' = Merge(Joined)
  BY DEF ReceiveLoad, Joined, Counting, Total, Answered
<1>2. /\ Joined \in [Row -> Version]
      /\ {g \in Row : Joined[g] > 0} = Listed \cup Answered
      /\ \A g \in Listed \cup Answered : Dated(g, Joined[g])
      /\ LoadShape
      /\ ~Paged => Counting = Total /\ Listed = {}
  BY <1>0, Joining
<1>3. PICK u, v : u = Joined[h] /\ v = ver[h]
  OBVIOUS
<1>4. /\ u \in Version /\ v \in Version /\ u \in Nat /\ v \in Nat
      /\ Ms[v] \in Nat /\ Ms[load.since] \in Nat
  BY <1>0, <1>2, <1>3, Counted
<1>5. u > 0 <=> h \in Listed \cup Answered
  BY <1>2, <1>3
<1>6. u > 0 => v > 0 /\ (u = v \/ Ms[u] < Ms[v])
  BY <1>2, <1>3, <1>5 DEF Dated
<1>7. Absent.seen = 0
  BY DEF Absent
<1>8. CASE shown'[h] = shown[h]
  BY <1>0, <1>8, BrowseKept
<1>9. CASE u > 0 /\ shown'[h] = Upsert(shown[h], u)
  <2>1. /\ Upsert(shown[h], u).seen > Ms[v] => shown[h].seen > Ms[v]
        /\ shown[h] = Item(v) => Upsert(shown[h], u) = Item(v)
    BY <1>0, <1>4, <1>6, <1>9, UpsertRanked
  <2> QED BY <1>0, <1>3, <1>6, <1>9, <2>1, BrowseKept
<1>10. CASE /\ u = 0 /\ Counting >= Total
            /\ shown'[h] = IF shown[h].seen > Ms[load.since] THEN shown[h] ELSE Absent
  <2>1. v > 0 /\ shown[h] = Item(v) => shown[h].seen > Ms[load.since]
    <3> SUFFICES ASSUME v > 0, shown[h] = Item(v) PROVE Ms[v] > Ms[load.since]
      BY <1>4 DEF Item
    <3>1. h \in Present /\ h \notin Listed \cup Answered
      BY <1>3, <1>5, <1>10 DEF Present
    <3>2. ~Paged
      BY <1>0, <1>10, <3>1, PagedComplete
    <3>3. h \notin Answered /\ (h \in Answered \/ Ms[ver[h]] > Ms[load.since])
      BY <1>0, <1>2, <3>1, <3>2 DEF LoadShape
    <3> QED BY <1>3, <3>3
  <2>2. shown'[h].seen > Ms[v] => shown[h].seen > Ms[v]
    BY <1>4, <1>7, <1>10
  <2>3. v = 0 /\ shown'[h] # Absent => shown[h] # Absent
    BY <1>10
  <2>4. v > 0 /\ shown'[h] # Item(v) => shown[h] # Item(v)
    BY <1>10, <2>1
  <2> QED BY <1>0, <1>3, <2>2, <2>3, <2>4, BrowseKept
<1>11. \/ shown'[h] = shown[h]
       \/ u > 0 /\ shown'[h] = Upsert(shown[h], u)
       \/ /\ u = 0 /\ Counting >= Total
          /\ shown'[h] = IF shown[h].seen > Ms[load.since] THEN shown[h] ELSE Absent
  BY <1>1, <1>3, <1>4 DEF Reconcile, Merge
<1> QED BY <1>8, <1>9, <1>10, <1>11

\* The page clears itself: it showed nothing that is there.
LEMMA ClearedRow ==
    ASSUME TypeInv, ReceiveCleared, holes' = {}, NEW h \in Row, RowInv(h)
    PROVE  RowInv(h)'
<1>1. /\ ver' = ver /\ job' = job /\ link' = link /\ frames' = frames
      /\ shown'[h] = Absent /\ Absent.seen = 0
      /\ ~(shown[h].row > 0 /\ ver[h] > 0)
  BY DEF ReceiveCleared, library, Nothing, Absent
<1>2. ver[h] \in Nat /\ Ms[ver[h]] \in Nat
  BY Counted DEF TypeInv, TypeOK
<1>3. ver[h] > 0 => Item(ver[h]).row > 0
  BY <1>2 DEF Item
<1>4. ver[h] > 0 => shown[h] # Item(ver[h])
  BY <1>1, <1>3
<1> QED BY <1>1, <1>2, <1>4, BrowseKept

\* Every step leaves every row so.
LEMMA NextRows ==
    ASSUME TypeInv, TypeInv', Stamps, LinkTidy, LoadTidy, JobTidy, HeldInv, LoadInv, RowsInv,
           [Next]_vars, holes' = {}
    PROVE  RowsInv'
<1> SUFFICES ASSUME Live', NEW h \in Row PROVE RowInv(h)'
  BY DEF RowsInv
<1>1. CASE Connect
  BY <1>1, ConnectRow
<1>2. CASE Drop \/ Disconnect
  <2>1. link'.state \in {"dropped", "down"}
    BY <1>2, NewLinks DEF Drop, Disconnect, TypeInv, TypeOK, Link
  <2> QED BY <2>1 DEF Live
<1>3. ASSUME NEW w \in Writer, Alters(w) PROVE RowInv(h)'
  <2>1. Live
    BY <1>3, AltersStill DEF Live
  <2> QED BY <1>3, <2>1, AltersRow DEF RowsInv
<1>4. ASSUME NEW w \in Writer, Announce(w) PROVE RowInv(h)'
  <2>1. PICK e : e = job[w].event
    OBVIOUS
  <2>2. Live
    BY <1>4, <2>1, AnnouncedStream
  <2> QED BY <1>4, <2>2, AnnounceRow DEF RowsInv
<1>5. CASE ReadPage
  <2>1. Live
    BY <1>5 DEF ReadPage, Live
  <2> QED BY <1>5, <2>1, ReadRow DEF RowsInv
<1>6. CASE TakeBatch \/ SendBatched \/ Activate
  <2>1. Stream' = Stream /\ ~Blank /\ ~Blank' /\ link.state # "reading"
    BY <1>6, DrainStream
  <2>2. Live /\ ver' = ver /\ job' = job /\ shown' = shown
    BY <1>6 DEF TakeBatch, SendBatched, Activate, Live, library, page
  <2>3. ~Expected(h)
    BY <2>1 DEF Expected
  <2>4. Blank' = Blank
    BY <2>1 DEF Blank
  <2>5. RowInv(h)
    BY <2>2 DEF RowsInv
  <2> QED BY <2>1, <2>2, <2>3, <2>4, <2>5, RowKept
<1>7. CASE Browse \/ UNCHANGED vars
  <2>1. Live /\ ver' = ver /\ job' = job /\ link' = link
    BY <1>7 DEF Live, Browse, Receive, StartLoad, ServeLoad, ReceiveLoad, FailLoad,
                ReceiveCleared, FailCleared, vars, library
  <2>2. RowInv(h)
    BY <2>1 DEF RowsInv
  <2>3. CASE Receive
    BY <2>2, <2>3, ReceiveRow
  <2>4. CASE ReceiveLoad
    BY <2>2, <2>4, ReceiveLoadRow
  <2>5. CASE ReceiveCleared
    BY <2>2, <2>5, ClearedRow
  <2>6. CASE StartLoad \/ ServeLoad \/ FailLoad \/ FailCleared \/ UNCHANGED vars
    <3>1. shown' = shown /\ frames' = frames
      BY <2>6 DEF StartLoad, ServeLoad, FailLoad, FailCleared, vars, page
    <3> QED BY <2>1, <2>2, <3>1, BrowseKept
  <2> QED BY <1>7, <2>3, <2>4, <2>5, <2>6 DEF Browse
<1>8. ASSUME NEW w \in Writer, Write(w) PROVE Alters(w) \/ Announce(w)
  BY <1>8 DEF Write, Alters
<1> QED BY <1>1, <1>2, <1>3, <1>4, <1>5, <1>6, <1>7, <1>8 DEF Next, Serve

-----------------------------------------------------------------------------
\* The invariant: as long as no race has happened, what is held, loaded and on its way will
\* leave the page with the rows of the store.
ConvInv ==
    /\ TypeInv /\ Stamps /\ LinkTidy /\ LoadTidy /\ JobTidy
    /\ holes = {} => HeldInv /\ LoadInv /\ RowsInv

\* Init: there is no connection.
LEMMA InitConv == Init => ConvInv
<1>1. Init => RowsInv
  BY DEF Init, RowsInv, Live, Down
<1> QED BY <1>1, InitTypes, InitStamps, InitTidy, InitHeld, InitLoad DEF ConvInv

\* Every step keeps it.
LEMMA NextConv == ConvInv /\ [Next]_vars => ConvInv'
<1> SUFFICES ASSUME ConvInv, [Next]_vars PROVE ConvInv'
  OBVIOUS
<1>1. TypeInv /\ Stamps /\ LinkTidy /\ LoadTidy /\ JobTidy
  BY DEF ConvInv
<1>2. (TypeInv /\ Stamps /\ LinkTidy /\ LoadTidy /\ JobTidy)'
  BY <1>1, NextTypes, NextStamps, NextLinkTidy, NextLoadTidy, NextJobTidy
<1>3. ASSUME holes' = {} PROVE (HeldInv /\ LoadInv /\ RowsInv)'
  <2>1. holes = {}
    <3>1. holes \subseteq holes'
      BY DEF Next, Write, Discover, Insert, Change, Fetch, Remove, Clear, Announce, Serve,
             Connect, ReadPage, TakeBatch, SendBatched, Activate, Drop, Disconnect, Browse,
             Receive, StartLoad, ServeLoad, ReceiveLoad, FailLoad, ReceiveCleared, FailCleared,
             vars
    <3> QED BY <1>3, <3>1
  <2>2. HeldInv /\ LoadInv /\ RowsInv
    BY <2>1 DEF ConvInv
  <2> QED BY <1>1, <1>2, <1>3, <2>2, NextHeld, NextLoad, NextRows
<1> QED BY <1>2, <1>3 DEF ConvInv

\* When everything has arrived, nothing is left that could mend a row, so none is amiss.
LEMMA QuietRow ==
    ASSUME ConvInv, Quiet, holes = {}, NEW h \in Row
    PROVE  shown[h] = Item(ver[h])
<1>1. /\ RowsInv /\ Live /\ link.batch = <<>> /\ link.queue = <<>> /\ frames = <<>>
      /\ link.state = "open" /\ \A w \in Writer : job[w] = Idle
  BY DEF ConvInv, Quiet, Live, LinkTidy
<1>2. Stream = <<>> /\ ~Blank
  <2>1. (<<>> \o <<>>) \o <<>> = <<>>
    OBVIOUS
  <2> QED BY <1>1, <2>1 DEF Stream, Posted, Blank
<1>3. ver[h] \in Nat /\ RowInv(h)
  BY <1>1, Counted DEF ConvInv, TypeInv, TypeOK, RowsInv
<1>4. \A bad, cure, amiss : Mended(~Blank /\ amiss, <<>>, bad, cure) => ~amiss
  BY <1>2, One DEF Mended
<1>5. ~RemovalPending(h) /\ ~Owed(h) /\ ~Expected(h)
  <2>1. ~RemovalPending(h)
    BY <1>1, IdleIs DEF RemovalPending, Removals
  <2>2. ~Owed(h)
    BY <1>1, IdleIs, StepsDiffer DEF Owed, Owes, ItemEvents
  <2> QED BY <1>1, <2>1, <2>2 DEF Expected
<1>6. CASE ver[h] = 0
  <2>1. shown[h] = Absent
    BY <1>2, <1>3, <1>4, <1>5, <1>6 DEF RowInv, Gone
  <2> QED BY <1>6, <2>1 DEF Item
<1>7. CASE ver[h] > 0
  BY <1>2, <1>3, <1>4, <1>5, <1>7 DEF RowInv, Streamed
<1> QED BY <1>3, <1>6, <1>7

\* When everything announced has arrived on a connection that is served, the page shows the
\* rows of the store at their versions and no others, unless one of the races named in Holes
\* has happened: whatever the order in which the writers announce, the snapshot is read and
\* the page receives frames, lists and answers.
THEOREM PageConverges == Spec => []Converged
<1>1. ConvInv => Converged
  BY QuietRow DEF Converged
<1> QED BY <1>1, InitConv, NextConv, PTL DEF Spec
=============================================================================
