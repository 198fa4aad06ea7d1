---------------------------- MODULE JobCrawl_proofs ----------------------------
(***************************************************************************)
(* Theorems about a crawl (SiteCrawl) and the job that reads it            *)
(* (JobCrawl), for any site, any limits of pages, depth and queue, any     *)
(* number of subscribers, and any bound on what users and faults do.       *)
(*                                                                         *)
(* The argument is about the events to come: those in the queue, and after *)
(* them those that the session is to put. It only grows at its end, and    *)
(* the caller is given its first; what has been given and what is to come  *)
(* are together what the session has found and counted.                    *)
(***************************************************************************)
EXTENDS JobCrawl, FiniteSetTheorems, FunctionTheorems, SequenceTheorems, TLAPS

-----------------------------------------------------------------------------
(* The invariant of the crawl *)

\* What the session puts into the queue.
Event == {Progress, Error, NoMagnet, Sentinel} \cup [type : {"found"}, hash : Hash]
         \cup [type : {"done"}, total : Nat, errors : Nat]

\* The types, but for the bounds that only the rest of the invariant gives.
CrawlTypes ==
    /\ reader \in {"start", "refused", "away", "waits", "finish", "closing", "over"}
    /\ late \in BOOLEAN
    /\ queue \in Seq(Event) /\ Len(queue) <= QueueSize
    /\ at \in {"put", "next", "turn", "walk", "extract", "over"}
    /\ out \in Seq(Event) /\ found \in Nat /\ errors \in Nat /\ seen \subseteq Hash
    /\ page \in [url : Page \cup {NoPage}, ok : BOOLEAN]
    /\ walk \in {"none", "root", "level", "probe", "rescue", "gone"}
    /\ level \in 0..Depth
    /\ asked \subseteq Page /\ running \subseteq Page /\ todo \subseteq Page
    /\ failed \subseteq Page /\ good \subseteq Page
    /\ browser \in BOOLEAN
    /\ tries \in [Page -> Nat]
    /\ told \subseteq Hash /\ complaints \in Nat
    /\ report = NoReport \/ report \in [total : Nat, errors : Nat]

\* Where the session stands, and what it has to put there.
Places ==
    /\ at = "put" <=> out # <<>>
    /\ \A i \in DOMAIN out : out[i].type = "none" <=> walk = "gone" /\ i = Len(out)
    /\ at \in {"walk", "turn", "extract"} => walk \notin {"none", "gone"}
    /\ at = "next" => walk # "gone"
    /\ page.ok => page.url \in Page
    /\ at = "extract" => page.ok
    /\ reader \in {"start", "refused"} =>
          /\ at = "over" /\ queue = <<>> /\ walk = "none"
          /\ found = 0 /\ errors = 0 /\ seen = {} /\ told = {} /\ ~late /\ report = NoReport
          /\ complaints = IF reader = "start" THEN 0 ELSE 1

\* The walk: what has been asked for, fetched, failed and found, by its phase. No level but the
\* first is begun before some page of the level above has come back, so a page is only fetched
\* again if none has.
WalkInv ==
    /\ IsFiniteSet(asked) /\ Cardinality(asked) <= MaxLinks + 1 /\ Root \in asked
    /\ \A p \in Page : tries[p] > 0 => p \in asked
    /\ \A p \in Page : tries[p] <= 2
    /\ (\E p \in Page : tries[p] = 2) => \A q \in good : tries[q] = 2
    /\ walk = "none" =>
          /\ \A p \in Page : tries[p] = 0
          /\ asked = {Root} /\ running = {} /\ todo = {} /\ failed = {} /\ good = {} /\ level = 0
    /\ walk = "root" =>
          /\ \A p \in Page : tries[p] <= 1 /\ (tries[p] > 0 => p = Root)
          /\ failed = {} /\ good = {} /\ level = 0
          /\ todo \subseteq FirstLinks
          /\ IF at = "turn" THEN todo \subseteq asked ELSE asked = {Root}
          /\ IF at = "walk" THEN todo = {} ELSE running = {}
    /\ walk = "level" =>
          /\ level > 0
          /\ todo \subseteq asked /\ running \cap failed = {}
          /\ \A p \in todo : tries[p] = 0
          /\ \A p \in running \cup failed : tries[p] = 1
          /\ \A p \in Page : tries[p] <= 1
          /\ todo # {} => good # {}
          /\ page.ok /\ at \in {"extract", "put", "next"} => good # {}
    /\ walk \in {"probe", "rescue"} =>
          /\ todo = {}
          /\ \A p \in running \cup good : tries[p] = 2
          /\ \A p \in failed : tries[p] = 1

\* The events to come.
Pending == queue \o out

\* The caller reads on, or the session still runs.
Going == reader \in {"start", "away", "waits"} \/ at # "over"

\* The events of a type in a sequence: where they are, how many, and their magnets.
Of(s, type) == {i \in DOMAIN s : s[i].type = type}
Count(s, type) == Cardinality(Of(s, type))
Hashes(s) == {s[i].hash : i \in Of(s, "found")}

\* The magnets that have been counted: given, in the queue, or the next to go there.
Given == told \cup Hashes(queue)
         \cup (IF out # <<>> /\ Head(out).type = "found" THEN {Head(out).hash} ELSE {})

\* What is to come is new, and nothing that was found is missing.
NewOnes ==
    /\ \A i, j \in Of(Pending, "found") : Pending[i].hash = Pending[j].hash => i = j
    /\ Hashes(Pending) \cap told = {}
    /\ seen = told \cup Hashes(Pending)

\* The counts.
Tally ==
    /\ found = Cardinality(Given)
    /\ ~late => errors = complaints + Count(Pending, "error")

\* The report comes when the walk is over, it says what will have been given then, and nothing
\* comes after it.
Closes ==
    /\ \A i \in Of(Pending, "none") : walk = "gone" /\ i = Len(Pending)
    /\ \A i \in Of(Pending, "done") :
          /\ walk = "gone" /\ report = NoReport
          /\ Pending[i].total = Cardinality(told \cup Hashes(Pending))
          /\ ~late => Pending[i].errors = complaints + Count(Pending, "error")
          /\ \A j \in DOMAIN Pending : j > i => Pending[j].type = "none"
    /\ report # NoReport =>
          /\ walk = "gone"
          /\ \A i \in DOMAIN Pending : Pending[i].type = "none"

\* While the crawl goes on.
StreamInv == Going => NewOnes /\ Tally /\ Closes

\* A crawl that took too long says no less than it told, when its session is over.
LateInv ==
    /\ reader = "finish" => late
    /\ late => /\ reader \notin {"start", "refused", "waits"}
               /\ reader \in {"away", "finish"} => report = NoReport
               /\ found >= Cardinality(told) /\ errors >= complaints

\* The pages whose magnets a crawl without errors owes its caller.
Due == {Root} \cup FirstLinks

\* As long as there was no error, each of them has been searched, or has its turn still to come.
LostInv ==
    Going /\ errors = 0 /\ walk # "none" =>
        \A p \in Due :
            \/ Magnets[p] \subseteq seen
            \/ /\ walk # "gone"
               /\ \/ p \in running
                  \/ level = 0 /\ p \in todo
                  \/ at = "extract" /\ page.url = p
                  \/ walk = "root" /\ at = "walk"

\* When the report has come, all has been given.
GivenInv == report # NoReport /\ complaints = 0 /\ ~late => \A p \in Due : Magnets[p] \subseteq told

\* No magnet is counted twice.
FoundBound == found <= Cardinality(Hash)

\* Some page that was fetched has no magnet.
BarrenTried == \E p \in Page : tries[p] > 0 /\ Magnets[p] = {}

\* Whoever says that a page has no magnet has fetched one that has none.
BarrenInv ==
    /\ walk = "root" => tries[Root] > 0
    /\ \A p \in running : tries[p] > 0
    /\ at = "extract" => tries[page.url] > 0
    /\ (\E i \in DOMAIN Pending : Pending[i] = NoMagnet) => BarrenTried

\* A session that has found nothing, and met no error, has more to search.
QuietInv ==
    /\ todo # {} => level < Depth
    /\ Going /\ errors = 0 /\ seen = {} /\ walk # "none"
          => walk # "gone" /\ (at = "extract" \/ running # {} \/ todo # {})

\* A timeout is told.
TimeoutTold == late => complaints > 0

\* The invariant.
CrawlInv == CrawlTypes /\ Places /\ WalkInv /\ StreamInv /\ LateInv /\ LostInv /\ GivenInv /\ FoundBound
            /\ BarrenInv /\ QuietInv /\ TimeoutTold

-----------------------------------------------------------------------------
(* The invariant of the job *)

\* The values of its variables.
Stage == {"announce", "reading", "looking", "adding", "thread", "claiming", "writing", "final", "over"}
Rows == [status : {"running", "queued", "done", "error"}, reason : {NoReason, "failed", "no_magnet", "fatal"},
         found : Nat, added : Nat]
Shelves == [Hash -> {"absent", "pending", "classifying", "classified", "other"}]

\* The job only has magnets that it was told of.
JobTypes ==
    /\ run \in Stage /\ left \in 0..Subscribers
    /\ row \in Rows
    /\ library \in Shelves
    /\ excused \subseteq Hash /\ inserted \subseteq told /\ item \subseteq told
    /\ events \in 0..MaxEvents

\* Where the job has a magnet in hand.
Handling == {"looking", "adding", "thread", "claiming", "writing"}

\* The row against what was told and inserted, by the place where the job stands.
JobInv ==
    /\ run \in {"announce", "reading"} => item = {}
    /\ run \in Handling => \E h \in told : item = {h}
    /\ run \in {"looking", "adding"} => item \cap inserted = {}
    /\ run \in {"thread", "claiming", "writing"} => item \subseteq inserted
    /\ run \in {"announce", "reading"} \cup Handling =>
         /\ row.status = "running"
         /\ row.reason = NoReason <=> complaints = 0
    /\ row.found = Cardinality(told \ item) /\ row.added = Cardinality(inserted \ item)
    /\ row.status = "done" =>
          /\ run \in {"final", "over"}
          /\ item = {}
          /\ row.reason = NoReason <=> told # {}
          /\ told = {} => complaints > 0

\* A job whose crawl comes to its end was told of a magnet or of an error.
EndTold ==
    run \notin {"final", "over"} /\ reader \in {"finish", "closing", "over"}
        => told # {} \/ complaints > 0

\* A row that says that there is no magnet has a page to show for it.
RowBarren == row.reason = "no_magnet" => BarrenTried

\* What the library has of the magnets that were not told, were counted, or are in hand.
Shelved ==
    /\ \A h \in Hash \ (told \cup excused) : library[h] \in {"absent", "other"}
    /\ \A h \in told \ (item \cup excused) :
          library[h] \in (IF h \in inserted THEN {"classified", "other"} ELSE {"other"})
    /\ \A h \in item \ excused :
          /\ run \in {"looking", "adding"} => library[h] \in {"absent", "other"}
          /\ run \in {"thread", "claiming"} => library[h] \in {"pending", "other"}
          /\ run = "writing" => library[h] \in {"classifying", "other"}

\* The answer under way is by the rules of now, unless they were reloaded meanwhile.
Answering ==
    /\ rules \in Nat \ {0} /\ clearing \in BOOLEAN /\ cache \in [Name -> Nat]
    /\ call = Classifier!NoCall \/ call \in [name : Name, by : Nat \ {0}]
    /\ call # Classifier!NoCall => call.by = rules \/ call.name \in raced
    /\ CacheTrue

-----------------------------------------------------------------------------
(* Sequences of events *)

\* The types and the fields of events.
LEMMA EventTypes ==
    /\ Progress \in Event /\ Error \in Event /\ NoMagnet \in Event /\ Sentinel \in Event
    /\ \A h \in Hash : Found(h) \in Event
    /\ \A t, e \in Nat : Done(t, e) \in Event
    /\ \A e \in Event : e.type = "none" <=> e = Sentinel
    /\ \A e \in Event : e.type = "found" => e.hash \in Hash
    /\ \A e \in Event : e.type = "done" => e.total \in Nat /\ e.errors \in Nat
    /\ \A e \in Event : e.type = "error" <=> e \in {Error, NoMagnet}
    /\ Progress.type = "progress" /\ Error.type = "error" /\ Sentinel.type = "none"
    /\ NoMagnet.type = "error" /\ Error.reason = "failed" /\ NoMagnet.reason = "no_magnet"
    /\ \A h : Found(h).type = "found" /\ Found(h).hash = h
    /\ \A t, e : Done(t, e).type = "done" /\ Done(t, e).total = t /\ Done(t, e).errors = e
<1>1. /\ Progress \in Event /\ Error \in Event /\ NoMagnet \in Event /\ Sentinel \in Event
      /\ \A h \in Hash : Found(h) \in Event
      /\ \A t, e \in Nat : Done(t, e) \in Event
  BY DEF Event, Found, Done
<1>2. \A e \in Event : e.type = "none" <=> e = Sentinel
  BY DEF Event, Progress, Error, NoMagnet, Sentinel
<1>3. /\ \A e \in Event : e.type = "found" => e.hash \in Hash
      /\ \A e \in Event : e.type = "done" => e.total \in Nat /\ e.errors \in Nat
  BY DEF Event, Progress, Error, NoMagnet, Sentinel
<1>4. /\ Progress.type = "progress" /\ Error.type = "error" /\ Sentinel.type = "none"
      /\ NoMagnet.type = "error" /\ Error.reason = "failed" /\ NoMagnet.reason = "no_magnet"
      /\ \A h : Found(h).type = "found" /\ Found(h).hash = h
      /\ \A t, e : Done(t, e).type = "done" /\ Done(t, e).total = t /\ Done(t, e).errors = e
  BY DEF Progress, Error, NoMagnet, Sentinel, Found, Done
<1>5. \A e \in Event : e.type = "error" <=> e \in {Error, NoMagnet}
  BY DEF Event, Progress, Error, NoMagnet, Sentinel
<1> QED BY <1>1, <1>2, <1>3, <1>4, <1>5

\* What the indices of a kind of event are in a sequence that is continued, or begun.
LEMMA OfConcat ==
    ASSUME NEW s \in Seq(Event), NEW t \in Seq(Event), NEW type
    PROVE  /\ s \o t \in Seq(Event) /\ Len(s \o t) = Len(s) + Len(t)
           /\ Of(s \o t, type) = Of(s, type) \cup {Len(s) + i : i \in Of(t, type)}
           /\ \A i \in DOMAIN s : i \in DOMAIN (s \o t) /\ (s \o t)[i] = s[i]
           /\ \A i \in DOMAIN t : Len(s) + i \in DOMAIN (s \o t) /\ (s \o t)[Len(s) + i] = t[i]
           /\ \A i \in DOMAIN (s \o t) :
                 i \in DOMAIN s \/ (i > Len(s) /\ i - Len(s) \in DOMAIN t)
<1> DEFINE st == s \o t
<1>1. /\ st \in Seq(Event) /\ Len(st) = Len(s) + Len(t)
      /\ \A i \in 1 .. Len(s) + Len(t) : st[i] = IF i <= Len(s) THEN s[i] ELSE t[i - Len(s)]
  BY ConcatProperties
<1>2. Len(s) \in Nat /\ Len(t) \in Nat BY LenProperties
<1>3. DOMAIN s = 1..Len(s) /\ DOMAIN t = 1..Len(t) /\ DOMAIN st = 1..Len(s) + Len(t)
  BY <1>1, LenProperties
<1> HIDE DEF st
<1>4. \A i \in DOMAIN s : i \in DOMAIN st /\ st[i] = s[i] BY <1>1, <1>2, <1>3
<1>5. \A i \in DOMAIN t : Len(s) + i \in DOMAIN st /\ st[Len(s) + i] = t[i] BY <1>1, <1>2, <1>3
<1>6. \A i \in DOMAIN st : i \in DOMAIN s \/ (i > Len(s) /\ i - Len(s) \in DOMAIN t)
  <2> SUFFICES ASSUME NEW i \in 1..Len(s) + Len(t)
               PROVE  i \in 1..Len(s) \/ (i > Len(s) /\ i - Len(s) \in 1..Len(t))
    BY <1>3
  <2> DEFINE m == Len(s)
             n == Len(t)
  <2>1. m \in Nat /\ n \in Nat BY <1>2
  <2> HIDE DEF m, n
  <2>2. i \in 1..m + n => i \in 1..m \/ (i > m /\ i - m \in 1..n) BY <2>1
  <2> QED BY <2>2 DEF m, n
<1>7. ASSUME NEW i \in Of(st, type) PROVE i \in Of(s, type) \cup {Len(s) + j : j \in Of(t, type)}
  <2>1. CASE i \in DOMAIN s BY <1>4, <2>1 DEF Of
  <2>2. CASE i > Len(s) /\ i - Len(s) \in DOMAIN t
    <3>1. i = Len(s) + (i - Len(s)) /\ i \in Nat BY <1>2, <1>3 DEF Of
    <3>2. t[i - Len(s)] = st[i] BY <1>5, <2>2, <3>1
    <3> QED BY <2>2, <3>1, <3>2 DEF Of
  <2> QED BY <1>6, <2>1, <2>2 DEF Of
<1>8. Of(st, type) = Of(s, type) \cup {Len(s) + i : i \in Of(t, type)}
  BY <1>4, <1>5, <1>7 DEF Of
<1> QED BY <1>1, <1>4, <1>5, <1>6, <1>8 DEF st

\* The magnets of a sequence that is continued.
LEMMA HashesConcat ==
    ASSUME NEW s \in Seq(Event), NEW t \in Seq(Event)
    PROVE  Hashes(s \o t) = Hashes(s) \cup Hashes(t)
<1>1. \A i \in Of(s, "found") : i \in Of(s \o t, "found") /\ (s \o t)[i] = s[i]
  BY OfConcat DEF Of
<1>2. \A i \in Of(t, "found") : Len(s) + i \in Of(s \o t, "found") /\ (s \o t)[Len(s) + i] = t[i]
  BY OfConcat DEF Of
<1>3. Of(s \o t, "found") = Of(s, "found") \cup {Len(s) + i : i \in Of(t, "found")}
  BY OfConcat
<1>4. ASSUME NEW h \in Hashes(s \o t) PROVE h \in Hashes(s) \cup Hashes(t)
  <2>1. PICK i \in Of(s \o t, "found") : h = (s \o t)[i].hash BY DEF Hashes
  <2>2. CASE i \in Of(s, "found") BY <1>1, <2>1, <2>2 DEF Hashes
  <2>3. CASE \E j \in Of(t, "found") : i = Len(s) + j BY <1>2, <2>1, <2>3 DEF Hashes
  <2> QED BY <1>3, <2>2, <2>3
<1>5. Hashes(s) \subseteq Hashes(s \o t) BY <1>1 DEF Hashes
<1>6. Hashes(t) \subseteq Hashes(s \o t) BY <1>2 DEF Hashes
<1> QED BY <1>4, <1>5, <1>6

\* The indices of a kind of event after the first event has gone.
LEMMA OfTail ==
    ASSUME NEW s \in Seq(Event), s # <<>>, NEW type
    PROVE  /\ Tail(s) \in Seq(Event) /\ Head(s) = s[1] /\ Head(s) \in Event /\ 1 \in DOMAIN s
           /\ Len(Tail(s)) = Len(s) - 1
           /\ \A i \in DOMAIN Tail(s) : i + 1 \in DOMAIN s /\ i + 1 > 1 /\ Tail(s)[i] = s[i + 1]
           /\ \A i \in DOMAIN s : i = 1 \/ (i - 1 \in DOMAIN Tail(s) /\ Tail(s)[i - 1] = s[i])
           /\ \A i : i \in Of(Tail(s), type) <=> i \in Nat \ {0} /\ i + 1 \in Of(s, type)
<1>1. /\ Tail(s) \in Seq(Event) /\ Head(s) \in Event /\ Len(Tail(s)) = Len(s) - 1
      /\ \A i \in 1 .. Len(Tail(s)) : Tail(s)[i] = s[i + 1]
  BY HeadTailProperties
<1>2. Len(s) \in Nat \ {0} BY EmptySeq
<1>3. DOMAIN s = 1..Len(s) /\ DOMAIN Tail(s) = 1..(Len(s) - 1)
  <2>1. DOMAIN Tail(s) = 1..Len(Tail(s)) BY <1>1, LenProperties
  <2> QED BY <1>1, <2>1, LenProperties
<1>4. Head(s) = s[1] BY <1>2, HeadTailOfSubSeq, SubSeqFull
<1> DEFINE t == Tail(s)
           n == Len(s)
<1>5. /\ \A i \in DOMAIN t : i + 1 \in DOMAIN s /\ i + 1 > 1 /\ t[i] = s[i + 1]
      /\ \A i \in DOMAIN s : i = 1 \/ (i - 1 \in DOMAIN t /\ t[i - 1] = s[i])
      /\ 1 \in DOMAIN s
  <2>1. /\ n \in Nat \ {0} /\ DOMAIN s = 1..n /\ DOMAIN t = 1..n - 1
        /\ \A i \in 1..n - 1 : t[i] = s[i + 1]
    BY <1>1, <1>2, <1>3
  <2> HIDE DEF t, n
  <2> QED BY <2>1
<1>6. \A i : i \in Of(t, type) <=> i \in Nat \ {0} /\ i + 1 \in Of(s, type)
  <2>1. ASSUME NEW i \in Of(t, type) PROVE i \in Nat \ {0} /\ i + 1 \in Of(s, type)
    BY <1>3, <1>5, <2>1 DEF Of
  <2>2. ASSUME NEW i \in Nat \ {0}, i + 1 \in Of(s, type) PROVE i \in Of(t, type)
    <3>1. i = (i + 1) - 1 /\ i + 1 # 1 OBVIOUS
    <3>2. i \in DOMAIN t /\ t[i] = s[i + 1] BY <1>5, <2>2, <3>1 DEF Of
    <3> QED BY <2>2, <3>2 DEF Of
  <2> QED BY <2>1, <2>2
<1> QED BY <1>1, <1>4, <1>5, <1>6

\* The magnets of a sequence are that of its first event and those of the rest.
LEMMA HashesTail ==
    ASSUME NEW s \in Seq(Event), s # <<>>
    PROVE  Hashes(s) = Hashes(Tail(s)) \cup (IF Head(s).type = "found" THEN {Head(s).hash} ELSE {})
<1>1. \A i \in Of(Tail(s), "found") : i + 1 \in Of(s, "found") /\ Tail(s)[i] = s[i + 1]
  BY OfTail DEF Of
<1>2. \A i \in Of(s, "found") : i = 1 \/ (i - 1 \in Of(Tail(s), "found") /\ Tail(s)[i - 1] = s[i])
  BY OfTail DEF Of
<1>3. Head(s) = s[1] /\ 1 \in DOMAIN s BY OfTail
<1>4. 1 \in Of(s, "found") <=> Head(s).type = "found" BY <1>3 DEF Of
<1>5. Hashes(Tail(s)) \subseteq Hashes(s) BY <1>1 DEF Hashes
<1>6. Head(s).type = "found" => Head(s).hash \in Hashes(s) BY <1>3, <1>4 DEF Hashes
<1>7. ASSUME NEW h \in Hashes(s), h \notin Hashes(Tail(s))
      PROVE  Head(s).type = "found" /\ h = Head(s).hash
  <2>1. PICK i \in Of(s, "found") : h = s[i].hash BY DEF Hashes
  <2>2. i = 1 BY <1>2, <1>7, <2>1 DEF Hashes
  <2> QED BY <1>3, <1>4, <2>1, <2>2
<1> QED BY <1>5, <1>6, <1>7

\* A sequence has finitely many events of a type.
LEMMA CountType ==
    ASSUME NEW s \in Seq(Event), NEW type
    PROVE  /\ IsFiniteSet(Of(s, type)) /\ Count(s, type) \in Nat
           /\ Count(s, type) = 0 <=> Of(s, type) = {}
<1>1. DOMAIN s = 1..Len(s) /\ Len(s) \in Nat BY LenProperties
<1>2. IsFiniteSet(DOMAIN s) BY <1>1, FS_Interval
<1>3. Of(s, type) \subseteq DOMAIN s BY DEF Of
<1>4. IsFiniteSet(Of(s, type)) BY <1>2, <1>3, FS_Subset
<1> QED BY <1>4, FS_CardinalityType, FS_EmptySet DEF Count

\* A continuation with one event of a type, or none, counts as one more, or as none.
LEMMA CountConcat ==
    ASSUME NEW s \in Seq(Event), NEW t \in Seq(Event), NEW type
    PROVE  /\ Of(t, type) = {} => Count(s \o t, type) = Count(s, type)
           /\ (\E k : Of(t, type) = {k}) => Count(s \o t, type) = Count(s, type) + 1
<1>1. Of(s \o t, type) = Of(s, type) \cup {Len(s) + i : i \in Of(t, type)} BY OfConcat
<1>2. ASSUME NEW k, Of(t, type) = {k} PROVE Count(s \o t, type) = Count(s, type) + 1
  <2>1. Of(s \o t, type) = Of(s, type) \cup {Len(s) + k} BY <1>1, <1>2
  <2>2. k \in 1..Len(t) /\ Len(t) \in Nat BY <1>2, LenProperties DEF Of
  <2>3. DOMAIN s = 1..Len(s) /\ Len(s) \in Nat BY LenProperties
  <2>4. Len(s) + k \notin Of(s, type) BY <2>2, <2>3 DEF Of
  <2> QED BY <2>1, <2>4, CountType, FS_AddElement DEF Count
<1> QED BY <1>1, <1>2 DEF Count

\* And so does the first event.
LEMMA CountTail ==
    ASSUME NEW s \in Seq(Event), s # <<>>, NEW type
    PROVE  Count(s, type) = Count(Tail(s), type) + (IF Head(s).type = type THEN 1 ELSE 0)
<1> DEFINE S == Of(Tail(s), type)
           T == Of(s, type) \ {1}
           f == [i \in S |-> i + 1]
<1>1. \A i : i \in S <=> i \in Nat \ {0} /\ i + 1 \in Of(s, type) BY OfTail
<1>2. Of(s, type) \subseteq Nat \ {0}
  <2>1. DOMAIN s = 1..Len(s) /\ Len(s) \in Nat BY LenProperties
  <2> QED BY <2>1 DEF Of
<1>3. f \in Bijection(S, T)
  <2> HIDE DEF S
  <2>1. f \in [S -> T] BY <1>1
  <2>2. \A i, j \in S : f[i] = f[j] => i = j BY <1>1
  <2>3. \A u \in T : \E i \in S : f[i] = u
    <3> TAKE u \in T
    <3>1. u - 1 \in S /\ f[u - 1] = u BY <1>1, <1>2
    <3> QED BY <3>1
  <2> QED BY <2>1, <2>2, <2>3, Fun_IsBij
<1>4. IsFiniteSet(S) /\ IsFiniteSet(Of(s, type)) BY OfTail, CountType
<1>5. Cardinality(T) = Cardinality(S)
  <2>1. ExistsBijection(S, T) BY <1>3 DEF ExistsBijection
  <2> QED BY <1>4, <2>1, FS_Bijection
<1>6. 1 \in Of(s, type) <=> Head(s).type = type BY OfTail DEF Of
<1>7. Cardinality(T) = IF 1 \in Of(s, type) THEN Count(s, type) - 1 ELSE Count(s, type)
  BY <1>4, FS_RemoveElement DEF Count
<1>8. Count(s, type) \in Nat BY CountType
<1> HIDE DEF S, T
<1>9. Count(Tail(s), type) = Cardinality(S) BY DEF Count, S
<1> QED BY <1>5, <1>6, <1>7, <1>8, <1>9

\* SetToSeq puts each element of a finite set at one place.
LEMMA SetToSeqFacts ==
    ASSUME NEW S, IsFiniteSet(S)
    PROVE  /\ SetToSeq(S) \in [1..Cardinality(S) -> S] /\ Cardinality(S) \in Nat
           /\ \A i, j \in 1..Cardinality(S) : SetToSeq(S)[i] = SetToSeq(S)[j] => i = j
           /\ \A x \in S : \E i \in 1..Cardinality(S) : SetToSeq(S)[i] = x
<1> DEFINE D == 1..Cardinality(S)
<1>1. Cardinality(S) \in Nat /\ ExistsBijection(D, S) BY FS_CardinalityType
<1>2. PICK b : b \in Bijection(D, S) BY <1>1 DEF ExistsBijection
<1>3. b \in [D -> S] /\ IsInjective(b) BY <1>2 DEF Bijection, Injection
<1>4. SetToSeq(S) \in [D -> S] /\ IsInjective(SetToSeq(S)) BY <1>3 DEF SetToSeq
<1>5. SetToSeq(S) \in Injection(D, S) BY <1>4 DEF Injection
<1>6. IsFiniteSet(D) /\ Cardinality(D) = Cardinality(S) BY <1>1, FS_Interval
<1>7. SetToSeq(S) \in Surjection(D, S) BY <1>5, <1>6, FS_Injection
<1> QED BY <1>1, <1>4, <1>7 DEF IsInjective, Surjection

-----------------------------------------------------------------------------
(* Types and places *)

\* The short sequences of events that the session puts.
LEMMA ShortSeqs ==
    /\ <<>> \in Seq(Event)
    /\ \A e \in Event :
          /\ <<e>> \in Seq(Event) /\ <<e>> # <<>> /\ DOMAIN <<e>> = {1} /\ Len(<<e>>) = 1
          /\ <<e>>[1] = e /\ Head(<<e>>) = e
    /\ \A e, f \in Event :
          /\ <<e, f>> \in Seq(Event) /\ <<e, f>> # <<>> /\ DOMAIN <<e, f>> = {1, 2} /\ Len(<<e, f>>) = 2
          /\ <<e, f>>[1] = e /\ <<e, f>>[2] = f /\ Head(<<e, f>>) = e
    /\ \A e, f, g \in Event :
          /\ <<e, f, g>> \in Seq(Event) /\ <<e, f, g>> # <<>> /\ DOMAIN <<e, f, g>> = {1, 2, 3}
          /\ <<e, f, g>>[1] = e /\ <<e, f, g>>[2] = f /\ <<e, f, g>>[3] = g /\ Head(<<e, f, g>>) = e
          /\ Len(<<e, f, g>>) = 3
OBVIOUS

\* What the session is to put is a sequence of events.
LEMMA PutsTypes ==
    ASSUME found \in Nat, NEW s \in Seq(Event), Puts(s)
    PROVE  /\ out' = s /\ found' \in Nat
           /\ found' = IF s # <<>> /\ Head(s).type = "found" THEN found + 1 ELSE found
BY DEF Puts

\* Links lead to pages.
LEMMA LinkTypes ==
    /\ FirstLinks \subseteq Page
    /\ \A p \in Page : NewLinks(p) \subseteq Page
<1>1. \A p \in Page : Links[p] \in Seq(Page) BY CrawlAssumption
<1>2. \A p \in Page : \A i \in DOMAIN Links[p] : Links[p][i] \in Page
  BY <1>1, LenProperties, ElementOfSeq
<1>3. FirstLinks \subseteq Page BY <1>2, CrawlAssumption DEF FirstLinks
<1>4. \A p \in Page : NewLinks(p) \subseteq Page BY <1>2 DEF NewLinks
<1> QED BY <1>3, <1>4

\* What a session has to put of a page that has been searched.
News(p) == [i \in DOMAIN Fresh(p) |-> Found(Fresh(p)[i])]
Searched(p) == News(p) \o (IF Barren(p) THEN <<NoMagnet>> ELSE <<>>)
                       \o (IF Fresh(p) # <<>> THEN <<Progress>> ELSE <<>>)

\* The new magnets of a page become events, each one.
LEMMA FreshFacts ==
    ASSUME NEW p \in Page
    PROVE  /\ News(p) \in Seq(Event) /\ Fresh(p) \in Seq(Hash)
           /\ Of(News(p), "found") = DOMAIN News(p)
           /\ \A type : type # "found" => Of(News(p), type) = {}
           /\ \A i, j \in DOMAIN News(p) : News(p)[i].hash = News(p)[j].hash => i = j
           /\ Hashes(News(p)) = Magnets[p] \ seen
           /\ News(p) = <<>> <=> Fresh(p) = <<>>
<1> DEFINE S == Magnets[p] \ seen
           n == Cardinality(S)
           s == SetToSeq(S)
<1>1. IsFiniteSet(S) /\ S \subseteq Hash BY CrawlAssumption, FS_Subset
<1>2. /\ s \in [1..n -> S] /\ n \in Nat
      /\ \A i, j \in 1..n : s[i] = s[j] => i = j
      /\ \A x \in S : \E i \in 1..n : s[i] = x
  BY <1>1, SetToSeqFacts
<1>3. Fresh(p) = s BY DEF Fresh
<1> HIDE DEF S, n, s
<1>4. DOMAIN s = 1..n /\ s \in Seq(Hash) /\ Len(s) = n BY <1>1, <1>2
<1>5. News(p) = [i \in 1..n |-> Found(s[i])] BY <1>3, <1>4 DEF News
<1>6. \A i \in 1..n : Found(s[i]) \in Event BY <1>1, <1>2, EventTypes
<1>7. News(p) \in Seq(Event) /\ DOMAIN News(p) = 1..n /\ Len(News(p)) = n BY <1>2, <1>5, <1>6
<1>8. \A i \in 1..n : News(p)[i].type = "found" /\ News(p)[i].hash = s[i] BY <1>5, EventTypes
<1>9. Hashes(News(p)) = S
  <2>1. Of(News(p), "found") = 1..n BY <1>7, <1>8 DEF Of
  <2>2. Hashes(News(p)) = {s[i] : i \in 1..n} BY <1>8, <2>1 DEF Hashes
  <2> QED BY <1>2, <2>2
<1>10. News(p) = <<>> <=> Fresh(p) = <<>> BY <1>3, <1>4, <1>7
<1> QED BY <1>2, <1>3, <1>4, <1>7, <1>8, <1>9, <1>10 DEF Of, S

\* The indices of a kind of event in a sequence of one.
LEMMA OfShort ==
    ASSUME NEW type
    PROVE  /\ Of(<<>>, type) = {}
           /\ \A e \in Event : Of(<<e>>, type) = IF e.type = type THEN {1} ELSE {}
BY ShortSeqs DEF Of

\* What the search of a page has to tell: its new magnets, each once, and an error if it is barren.
LEMMA SearchedFacts ==
    ASSUME NEW p \in Page
    PROVE  /\ Searched(p) \in Seq(Event)
           /\ Hashes(Searched(p)) = Magnets[p] \ seen
           /\ \A i, j \in Of(Searched(p), "found") : Searched(p)[i].hash = Searched(p)[j].hash => i = j
           /\ Of(Searched(p), "none") = {} /\ Of(Searched(p), "done") = {}
           /\ IF Barren(p) THEN \E k : Of(Searched(p), "error") = {k} ELSE Of(Searched(p), "error") = {}
<1> DEFINE b == IF Barren(p) THEN <<NoMagnet>> ELSE <<>>
           c == IF Fresh(p) # <<>> THEN <<Progress>> ELSE <<>>
           n == News(p)
<1>1. b \in Seq(Event) /\ c \in Seq(Event) BY EventTypes, ShortSeqs
<1>2. /\ Of(b, "error") = IF Barren(p) THEN {1} ELSE {}
      /\ Of(b, "found") = {} /\ Of(b, "none") = {} /\ Of(b, "done") = {}
  BY EventTypes, OfShort
<1>3. Of(c, "error") = {} /\ Of(c, "found") = {} /\ Of(c, "none") = {} /\ Of(c, "done") = {}
  BY EventTypes, OfShort
<1> HIDE DEF b, c
<1>4. /\ n \in Seq(Event) /\ Of(n, "error") = {} /\ Of(n, "none") = {} /\ Of(n, "done") = {}
      /\ Of(n, "found") = DOMAIN n
      /\ \A i, j \in DOMAIN n : n[i].hash = n[j].hash => i = j
      /\ Hashes(n) = Magnets[p] \ seen
  BY FreshFacts
<1>5. Searched(p) = (n \o b) \o c BY DEF Searched, b, c
<1> HIDE DEF n
<1>6. n \o b \in Seq(Event) BY <1>1, <1>4, OfConcat
<1>7. Hashes(b) = {} /\ Hashes(c) = {} BY <1>2, <1>3 DEF Hashes
<1>8. Hashes(Searched(p)) = Magnets[p] \ seen
  <2>1. Hashes(n \o b) = Hashes(n) \cup Hashes(b) BY <1>1, <1>4, HashesConcat
  <2>2. Hashes((n \o b) \o c) = Hashes(n \o b) \cup Hashes(c) BY <1>1, <1>6, HashesConcat
  <2> QED BY <1>4, <1>5, <1>7, <2>1, <2>2
<1>9. ASSUME NEW type
      PROVE  /\ Of(n \o b, type) = Of(n, type) \cup {Len(n) + i : i \in Of(b, type)}
             /\ Of(Searched(p), type) = Of(n \o b, type) \cup {Len(n \o b) + i : i \in Of(c, type)}
  <2>1. Of(n \o b, type) = Of(n, type) \cup {Len(n) + i : i \in Of(b, type)}
    BY <1>1, <1>4, OfConcat
  <2>2. Of((n \o b) \o c, type) = Of(n \o b, type) \cup {Len(n \o b) + i : i \in Of(c, type)}
    BY <1>1, <1>6, OfConcat
  <2> QED BY <1>5, <2>1, <2>2
<1>10. Of(Searched(p), "none") = {} /\ Of(Searched(p), "done") = {}
  BY <1>2, <1>3, <1>4, <1>9
<1>11. IF Barren(p) THEN \E k : Of(Searched(p), "error") = {k} ELSE Of(Searched(p), "error") = {}
  <2>1. Of(Searched(p), "error") = {Len(n) + i : i \in Of(b, "error")} BY <1>3, <1>4, <1>9
  <2>2. Barren(p) => Of(Searched(p), "error") = {Len(n) + 1} BY <1>2, <2>1
  <2> QED BY <1>2, <2>1, <2>2
<1>12. Of(Searched(p), "found") = DOMAIN n
  <2>1. {Len(n) + i : i \in Of(b, "found")} = {} /\ {Len(n \o b) + i : i \in Of(c, "found")} = {}
    BY <1>2, <1>3
  <2> QED BY <1>4, <1>9, <2>1
<1>13. \A i \in DOMAIN n : Searched(p)[i] = n[i]
  <2>1. \A i \in DOMAIN n : i \in DOMAIN (n \o b) /\ (n \o b)[i] = n[i] BY <1>1, <1>4, OfConcat
  <2>2. \A i \in DOMAIN (n \o b) : ((n \o b) \o c)[i] = (n \o b)[i] BY <1>1, <1>6, OfConcat
  <2> QED BY <1>5, <2>1, <2>2
<1>14. Searched(p) \in Seq(Event) BY <1>1, <1>5, <1>6, OfConcat
<1> QED BY <1>4, <1>8, <1>10, <1>11, <1>12, <1>13, <1>14

\* The three ways in which the search of a page can come out.
LEMMA ExtractWays ==
    ASSUME Extract, CrawlTypes, page.url \in Page
    PROVE  /\ at = "extract" /\ UNCHANGED <<crawl, queue, walker, caller, page>>
           /\ \/ errors' = errors + 1 /\ Puts(<<Error>>) /\ at' = "put" /\ UNCHANGED seen
              \/ /\ Puts(Searched(page.url))
                 /\ at' = IF Searched(page.url) = <<>> THEN "next" ELSE "put"
                 /\ errors' = IF Barren(page.url) THEN errors + 1 ELSE errors
                 /\ seen' = seen \cup Magnets[page.url]
BY DEF Extract, Fails, Searched, News

\* The walker raises.
LEMMA BreaksTypes ==
    ASSUME CrawlTypes, Places, Breaks, at # "over", UNCHANGED <<crawl, queue, caller>>,
           running' \subseteq Page
    PROVE  /\ CrawlTypes' /\ Places'
           /\ out' = <<Error, Done(found, errors + 1), Sentinel>> /\ found' = found
<1> USE DEF CrawlTypes, crawl, caller
<1> DEFINE d == Done(found, errors + 1)
           s == <<Error, d, Sentinel>>
<1>1. d \in Event /\ d.type = "done" BY EventTypes
<1> HIDE DEF d
<1>2. /\ s \in Seq(Event) /\ s # <<>> /\ DOMAIN s = {1, 2, 3} /\ Len(s) = 3 /\ Head(s) = Error
      /\ s[1] = Error /\ s[2] = d /\ s[3] = Sentinel
  BY <1>1, EventTypes, ShortSeqs
<1> HIDE DEF s
<1>3. Puts(s) BY DEF Breaks, s, d
<1>4. out' = s /\ found' = found BY <1>2, <1>3, EventTypes, PutsTypes
<1>5. \A i \in DOMAIN s : s[i].type = "none" <=> i = Len(s) BY <1>1, <1>2, EventTypes
<1>6. CrawlTypes' BY <1>2, <1>4 DEF Breaks
<1>7. Places' BY <1>2, <1>4, <1>5 DEF Breaks, Places
<1> QED BY <1>4, <1>6, <1>7 DEF s, d

\* What comes back to the session keeps the types and the places.
LEMMA AwaitsTypes ==
    ASSUME CrawlTypes, Places, Awaits
    PROVE  CrawlTypes' /\ Places'
<1> USE DEF CrawlTypes, crawl, caller
<1> DEFINE Session == /\ at' \in {"put", "next", "turn", "walk", "extract", "over"}
                      /\ out' \in Seq(Event) /\ found' \in Nat /\ errors' \in Nat /\ seen' \subseteq Hash
           Stands == /\ at' = "put" <=> out' # <<>>
                     /\ \A i \in DOMAIN out' : out'[i].type = "none" <=> walk' = "gone" /\ i = Len(out')
<1>1. CASE Extract
  <2>1. page.url \in Page /\ walk \notin {"none", "gone"} BY <1>1 DEF Places, Extract
  <2>2. CASE errors' = errors + 1 /\ Puts(<<Error>>) /\ at' = "put" /\ UNCHANGED seen
    <3>1. out' = <<Error>> /\ found' \in Nat BY <2>2, EventTypes, ShortSeqs, PutsTypes
    <3>2. /\ <<Error>> \in Seq(Event) /\ <<Error>> # <<>> /\ DOMAIN <<Error>> = {1}
          /\ <<Error>>[1] = Error /\ Error.type # "none"
      BY EventTypes, ShortSeqs
    <3>3. UNCHANGED <<crawl, queue, walker, caller, page>> BY <1>1, <2>1, ExtractWays
    <3>4. CrawlTypes' BY <2>2, <3>1, <3>2, <3>3 DEF walker
    <3>5. Places' BY <1>1, <2>1, <2>2, <3>1, <3>2, <3>3 DEF Places, walker
    <3> QED BY <3>4, <3>5
  <2>3. CASE /\ Puts(Searched(page.url))
             /\ at' = IF Searched(page.url) = <<>> THEN "next" ELSE "put"
             /\ errors' = IF Barren(page.url) THEN errors + 1 ELSE errors
             /\ seen' = seen \cup Magnets[page.url]
    <3>1. /\ Searched(page.url) \in Seq(Event)
          /\ \A i \in DOMAIN Searched(page.url) : Searched(page.url)[i].type # "none"
      BY <2>1, SearchedFacts DEF Of
    <3>2. out' = Searched(page.url) /\ found' \in Nat BY <2>3, <3>1, PutsTypes
    <3>3. Magnets[page.url] \subseteq Hash BY <2>1, CrawlAssumption
    <3> QED BY <1>1, <2>1, <2>3, <3>1, <3>2, <3>3, ExtractWays DEF Places, walker, session
  <2> QED BY <1>1, <2>1, <2>2, <2>3, ExtractWays
<1>2. ASSUME NEW p \in Page, NEW ok \in BOOLEAN, Takes(p, ok), at = "walk", UNCHANGED walk
      PROVE  /\ Session /\ Stands /\ page' = [url |-> p, ok |-> ok]
             /\ at' \in {"extract", "put"}
  <2>1. walk \notin {"none", "gone"} /\ out = <<>> BY <1>2 DEF Places
  <2>2. CASE ok BY <1>2, <2>1, <2>2, ShortSeqs DEF Takes
  <2>3. CASE ~ok
    <3>1. out' = <<Error>> /\ found' \in Nat
      BY <1>2, <2>3, EventTypes, ShortSeqs, PutsTypes DEF Takes
    <3> QED BY <1>2, <2>1, <2>3, <3>1, EventTypes, ShortSeqs DEF Takes
  <2> QED BY <2>2, <2>3
<1>3. CASE TakeRoot
  <2>1. at = "walk" /\ walk = "root" /\ UNCHANGED <<reader, late, queue, told, complaints, report>> /\ running' = {}
    BY <1>3 DEF TakeRoot
  <2>2. CASE \E ok \in BOOLEAN :
                /\ Takes(Root, ok) /\ browser' \in {FALSE, ok} /\ todo' = IF ok THEN FirstLinks ELSE {}
                /\ UNCHANGED <<walk, level, asked, failed, good, tries>>
    <3>1. Root \in Page BY CrawlAssumption
    <3>2. PICK ok \in BOOLEAN :
             /\ Takes(Root, ok) /\ browser' \in {FALSE, ok} /\ todo' = IF ok THEN FirstLinks ELSE {}
             /\ UNCHANGED <<walk, level, asked, failed, good, tries>>
      BY <2>2
    <3>3. Session /\ Stands /\ page' = [url |-> Root, ok |-> ok] /\ at' = IF ok THEN "extract" ELSE "put"
      BY <1>2, <2>1, <3>1, <3>2 DEF Takes
    <3>4. CrawlTypes' BY <1>3, <2>1, <3>1, <3>2, <3>3, LinkTypes DEF TakeRoot
    <3> QED BY <2>1, <3>1, <3>2, <3>3, <3>4 DEF Places
  <2>3. CASE Breaks
    <3> QED BY <2>1, <2>3, BreaksTypes
  <2> QED BY <1>3, <2>2, <2>3 DEF TakeRoot
<1>4. ASSUME NEW p \in Page, TakePage(p) PROVE CrawlTypes' /\ Places'
  <2>1. PICK ok \in BOOLEAN :
           /\ Takes(p, ok)
           /\ good' = IF ok THEN good \cup {p} ELSE good
           /\ failed' = IF ok \/ walk # "level" THEN failed ELSE failed \cup {p}
           /\ browser' = (browser \/ (ok /\ walk = "probe"))
    BY <1>4 DEF TakePage
  <2>2. /\ at = "walk" /\ running' = running \ {p}
        /\ UNCHANGED <<reader, late, queue, walk, level, asked, todo, tries, told, complaints, report>>
    BY <1>4 DEF TakePage
  <2>3. Session /\ Stands /\ page' = [url |-> p, ok |-> ok] /\ at' = IF ok THEN "extract" ELSE "put"
    BY <1>2, <2>1, <2>2 DEF Takes
  <2>4. CrawlTypes' BY <2>1, <2>2, <2>3
  <2> QED BY <2>1, <2>2, <2>3, <2>4 DEF Places
<1> QED BY <1>1, <1>3, <1>4 DEF Awaits

\* A sequence is its first element and the rest.
LEMMA HeadAndTail ==
    ASSUME NEW s \in Seq(Event), s # <<>>
    PROVE  s = <<Head(s)>> \o Tail(s)
<1>1. Len(s) \in Nat \ {0} BY EmptySeq
<1>2. 1 \in 1..Len(s) /\ Len(s) \in 1..Len(s) BY <1>1
<1>3. SubSeq(s, 1, Len(s)) = <<s[1]>> \o SubSeq(s, 1 + 1, Len(s)) BY <1>2, SubSeqRecursiveFirst
<1>4. SubSeq(s, 1, Len(s)) = s BY SubSeqFull
<1>5. Tail(s) = SubSeq(s, 2, Len(s)) BY TailIsSubSeq
<1>6. Head(s) = s[1] BY OfTail
<1> QED BY <1>3, <1>4, <1>5, <1>6

\* An event that goes into the queue is neither lost nor moved among those to come.
LEMMA PutMoves ==
    ASSUME CrawlTypes, Places, Put
    PROVE  /\ out # <<>> /\ Head(out) \in Event /\ Tail(out) \in Seq(Event)
           /\ queue' = Append(queue, Head(out)) /\ queue' \in Seq(Event) /\ Len(queue') <= QueueSize
           /\ out' = Tail(out) /\ found' \in Nat
           /\ found' = IF Tail(out) # <<>> /\ Head(Tail(out)).type = "found" THEN found + 1 ELSE found
           /\ Pending' = Pending
           /\ Hashes(queue') = Hashes(queue) \cup (IF Head(out).type = "found" THEN {Head(out).hash} ELSE {})
<1> USE DEF CrawlTypes
<1>1. out # <<>> BY DEF Put, Places
<1>2. Head(out) \in Event /\ Tail(out) \in Seq(Event) BY <1>1, OfTail
<1>3. queue' = Append(queue, Head(out)) /\ out' = Tail(out)
      /\ found' \in Nat
      /\ found' = IF Tail(out) # <<>> /\ Head(Tail(out)).type = "found" THEN found + 1 ELSE found
  BY <1>2, PutsTypes DEF Put
<1>4. queue' = queue \o <<Head(out)>> BY <1>2, <1>3, AppendIsConcat
<1>5. <<Head(out)>> \in Seq(Event) /\ Hashes(<<Head(out)>>) = IF Head(out).type = "found" THEN {Head(out).hash} ELSE {}
  <2>1. Of(<<Head(out)>>, "found") = IF Head(out).type = "found" THEN {1} ELSE {} BY <1>2, OfShort
  <2>2. <<Head(out)>>[1] = Head(out) /\ <<Head(out)>> \in Seq(Event) BY <1>2, ShortSeqs
  <2> QED BY <2>1, <2>2 DEF Hashes
<1>6. queue' \in Seq(Event) /\ Len(queue') = Len(queue) + 1 BY <1>2, <1>3, AppendProperties
<1>7. Len(queue') <= QueueSize BY <1>6, CrawlAssumption, LenProperties DEF Put
<1>8. Pending' = Pending
  <2>1. (queue \o <<Head(out)>>) \o Tail(out) = queue \o (<<Head(out)>> \o Tail(out))
    BY <1>2, <1>5, ConcatAssociative
  <2> QED BY <1>1, <1>3, <1>4, <2>1, HeadAndTail DEF Pending
<1>9. Hashes(queue') = Hashes(queue) \cup Hashes(<<Head(out)>>) BY <1>4, <1>5, HashesConcat
<1> QED BY <1>1, <1>2, <1>3, <1>5, <1>6, <1>7, <1>8, <1>9

\* So does what it does by itself,
LEMMA RunsTypes ==
    ASSUME CrawlTypes, Places, Runs
    PROVE  CrawlTypes' /\ Places'
<1> USE DEF CrawlTypes, crawl, caller, session, walker
<1>1. CASE Put
  <2>1. /\ out # <<>> /\ queue' \in Seq(Event) /\ Len(queue') <= QueueSize
        /\ out' = Tail(out) /\ Tail(out) \in Seq(Event) /\ found' \in Nat /\ Head(out) \in Event
    BY <1>1, PutMoves
  <2>2. at' = IF Tail(out) # <<>> THEN "put" ELSE IF Head(out) = Sentinel THEN "over" ELSE "next"
    BY <1>1 DEF Put, AfterPut
  <2>3. CrawlTypes' BY <1>1, <2>1, <2>2 DEF Put
  <2>4. \A i \in DOMAIN Tail(out) : Tail(out)[i].type = "none" <=> walk = "gone" /\ i = Len(Tail(out))
    <3> TAKE i \in DOMAIN Tail(out)
    <3>1. i + 1 \in DOMAIN out /\ Tail(out)[i] = out[i + 1] /\ Len(Tail(out)) = Len(out) - 1
      BY <2>1, OfTail
    <3>2. Len(out) \in Nat /\ i \in Nat BY <2>1, LenProperties
    <3>3. i + 1 = Len(out) <=> i = Len(Tail(out)) BY <3>1, <3>2
    <3> QED BY <3>1, <3>3 DEF Places
  <2>5. Tail(out) = <<>> => (Head(out) = Sentinel <=> walk = "gone")
    <3> HAVE Tail(out) = <<>>
    <3>1. Len(out) = 1 /\ Head(out) = out[1] /\ 1 \in DOMAIN out
      <4>1. Len(out) \in Nat /\ Len(Tail(out)) = Len(out) - 1 BY <2>1, OfTail, LenProperties
      <4>2. Len(Tail(out)) = 0 BY EmptySeq
      <4> QED BY <2>1, <4>1, <4>2, OfTail
    <3>2. out[1].type = "none" <=> walk = "gone" BY <3>1 DEF Places
    <3> QED BY <2>1, <3>1, <3>2, EventTypes
  <2>6. Places' BY <1>1, <2>1, <2>2, <2>4, <2>5 DEF Places, Put
  <2> QED BY <2>3, <2>6
<1>2. CASE FetchRoot
  <2>1. CrawlTypes' BY <1>2, CrawlAssumption DEF FetchRoot, Fetches
  <2>2. Places' BY <1>2 DEF Places, FetchRoot, Fetches
  <2> QED BY <2>1, <2>2
<1>3. CASE Follow
  <2>1. CASE Breaks BY <1>3, <2>1, BreaksTypes DEF Follow
  <2>2. CASE ~Breaks
    <3>1. /\ Turn /\ at = "next" /\ asked' \subseteq Page /\ todo' \subseteq Page
          /\ UNCHANGED <<reader, late, queue, told, complaints, report>>
          /\ UNCHANGED <<walk, level, running, failed, good, browser, tries>>
      BY <1>3, <2>2, LinkTypes DEF Follow, Places
    <3>2. walk \notin {"none", "gone"} BY <1>3 DEF Follow, Places
    <3>3. CrawlTypes' BY <3>1 DEF Turn
    <3>4. Places' BY <3>1, <3>2 DEF Turn, Places
    <3> QED BY <3>3, <3>4
  <2> QED BY <2>1, <2>2
<1>4. CASE Waits
  BY <1>4 DEF Waits, Places
<1>5. CASE Probe \/ Rescue \/ Descend
  <2>1. /\ running' \subseteq Page /\ failed' \subseteq Page /\ todo' \subseteq Page
        /\ tries' \in [Page -> Nat] /\ at' = "walk" /\ walk' \in {"probe", "rescue", "level"} /\ level' \in 0..Depth
        /\ UNCHANGED <<reader, late, queue, told, complaints, report, out, found, errors, seen, page, asked, good, browser>>
        /\ at = "turn"
    <3>1. CASE Probe BY <3>1 DEF Probe, Fetches
    <3>2. CASE Rescue BY <3>2 DEF Rescue, Fetches
    <3>3. CASE Descend
      <4>1. level' \in 0..Depth BY <3>3, CrawlAssumption DEF Descend
      <4> QED BY <3>3, <4>1 DEF Descend, Fetches
    <3> QED BY <1>5, <3>1, <3>2, <3>3
  <2>2. CrawlTypes' BY <2>1
  <2>3. Places' BY <2>1 DEF Places
  <2> QED BY <2>2, <2>3
<1>6. CASE Ends
  <2> DEFINE d == Done(found, errors)
             s == <<d, Sentinel>>
  <2>1. d \in Event /\ d.type = "done" BY EventTypes
  <2> HIDE DEF d
  <2>2. s \in Seq(Event) /\ s # <<>> /\ DOMAIN s = {1, 2} /\ Len(s) = 2 /\ Head(s) = d /\ s[1] = d /\ s[2] = Sentinel
    BY <2>1, EventTypes, ShortSeqs
  <2> HIDE DEF s
  <2>3. Puts(s) BY <1>6 DEF Ends, s, d
  <2>4. out' = s /\ found' = found BY <2>1, <2>2, <2>3, PutsTypes
  <2>5. \A i \in DOMAIN s : s[i].type = "none" <=> i = Len(s) BY <2>1, <2>2, EventTypes
  <2>6. CrawlTypes' BY <1>6, <2>2, <2>4 DEF Ends
  <2>7. Places' BY <1>6, <2>2, <2>4, <2>5 DEF Ends, Places
  <2> QED BY <2>6, <2>7
<1> QED BY <1>1, <1>2, <1>3, <1>4, <1>5, <1>6 DEF Runs

\* A sequence that begins with an event.
LEMMA TailOfBegun ==
    ASSUME NEW e \in Event, NEW t \in Seq(Event)
    PROVE  <<e>> \o t # <<>> /\ Tail(<<e>> \o t) = t /\ Head(<<e>> \o t) = e
<1> DEFINE s == <<e>> \o t
<1>1. <<e>> \in Seq(Event) /\ Len(<<e>>) = 1 /\ <<e>>[1] = e BY ShortSeqs
<1>2. /\ s \in Seq(Event) /\ Len(s) = Len(<<e>>) + Len(t)
      /\ \A i \in 1..Len(<<e>>) + Len(t) : s[i] = IF i <= Len(<<e>>) THEN <<e>>[i] ELSE t[i - Len(<<e>>)]
  BY <1>1, ConcatProperties
<1>3. Len(t) \in Nat BY LenProperties
<1> HIDE DEF s
<1>4. Len(s) = 1 + Len(t) /\ s[1] = e /\ \A i \in 1..Len(t) : s[i + 1] = t[i]
  BY <1>1, <1>2, <1>3
<1>5. s # <<>> BY <1>2, <1>3, <1>4, EmptySeq
<1>6. Head(s) = e BY <1>2, <1>4, <1>5, OfTail
<1>7. Tail(s) = t
  <2>1. /\ Tail(s) \in Seq(Event) /\ Len(Tail(s)) = Len(t)
        /\ \A i \in 1..Len(t) : Tail(s)[i] = s[i + 1]
    BY <1>2, <1>3, <1>4, <1>5, HeadTailProperties
  <2> QED BY <1>4, <2>1, SeqEqual
<1> QED BY <1>5, <1>6, <1>7 DEF s

\* What the caller is given is the first of the events to come.
LEMMA DeliversMoves ==
    ASSUME CrawlTypes, queue # <<>>, Delivers
    PROVE  /\ Head(queue) \in Event /\ queue' = Tail(queue) /\ Tail(queue) \in Seq(Event) /\ Len(queue') <= QueueSize
           /\ told' \subseteq Hash /\ complaints' \in Nat /\ (report' = NoReport \/ report' \in [total : Nat, errors : Nat])
           /\ reader' \in {"closing", "away"}
           /\ out' = out =>
                 /\ Pending # <<>> /\ Pending' = Tail(Pending) /\ Head(Pending) = Head(queue)
<1> USE DEF CrawlTypes
<1>1. Head(queue) \in Event /\ queue' = Tail(queue) /\ Tail(queue) \in Seq(Event) /\ Len(Tail(queue)) = Len(queue) - 1
  BY OfTail DEF Delivers
<1>2. Len(queue') <= QueueSize BY <1>1, CrawlAssumption, LenProperties
<1>3. /\ told' \subseteq Hash /\ complaints' \in Nat /\ (report' = NoReport \/ report' \in [total : Nat, errors : Nat])
      /\ reader' \in {"closing", "away"}
  <2> DEFINE e == Head(queue)
  <2>1. e \in Event /\ (e.type = "found" => e.hash \in Hash) /\ (e.type = "done" => e.total \in Nat /\ e.errors \in Nat)
    BY <1>1, EventTypes
  <2> HIDE DEF e
  <2>2. /\ reader' = IF e = Sentinel THEN "closing" ELSE "away"
        /\ told' = IF e.type = "found" THEN told \cup {e.hash} ELSE told
        /\ complaints' = IF e.type = "error" THEN complaints + 1 ELSE complaints
        /\ report' = IF e.type = "done" THEN [total |-> e.total, errors |-> e.errors] ELSE report
    BY DEF Delivers, e
  <2> QED BY <2>1, <2>2
<1>4. ASSUME out' = out PROVE Pending # <<>> /\ Pending' = Tail(Pending) /\ Head(Pending) = Head(queue)
  <2> DEFINE h == <<Head(queue)>>
             t == Tail(queue) \o out
  <2>1. h \in Seq(Event) /\ t \in Seq(Event) /\ Len(h) = 1 /\ h[1] = Head(queue)
    BY <1>1, OfConcat, ShortSeqs
  <2>2. Pending = h \o t
    <3>1. queue = h \o Tail(queue) BY HeadAndTail
    <3>2. (h \o Tail(queue)) \o out = h \o t BY <1>1, <2>1, ConcatAssociative
    <3> QED BY <3>1, <3>2 DEF Pending
  <2>3. Pending' = t BY <1>1, <1>4 DEF Pending
  <2> HIDE DEF t
  <2> QED BY <1>1, <2>1, <2>2, <2>3, TailOfBegun DEF h
<1> QED BY <1>1, <1>2, <1>3, <1>4

\* and so do the generator and its caller.
LEMMA ReadsTypes ==
    ASSUME CrawlTypes, Places, Reads \/ Close \/ CancelSession \/ Closed \/ Reap \/ UNCHANGED vars
    PROVE  CrawlTypes' /\ Places'
<1> USE DEF CrawlTypes, crawl, caller, session, walker
<1>1. CASE Refuse \/ Refused \/ Timeout \/ Finish \/ Close \/ Closed \/ Reap \/ UNCHANGED vars
  <2>1. CrawlTypes'
    <3>1. CASE Refuse \/ Close \/ Closed \/ Reap \/ UNCHANGED vars
      BY <3>1 DEF Refuse, Close, Closed, Reap, vars
    <3>2. CASE Refused BY <3>2 DEF Refused
    <3>3. CASE Timeout BY <3>3 DEF Timeout
    <3>4. CASE Finish BY <3>4 DEF Finish
    <3> QED BY <1>1, <3>1, <3>2, <3>3, <3>4
  <2>2. Places' BY <1>1 DEF Refuse, Refused, Timeout, Finish, Close, Closed, Reap, vars, Places
  <2> QED BY <2>1, <2>2
<1>2. CASE Begin
  <2>1. out' = <<Progress>> /\ found' = found
    <3>1. Progress \in Event /\ Progress.type # "found" BY EventTypes
    <3>2. <<Progress>> \in Seq(Event) /\ Head(<<Progress>>) = Progress BY <3>1, ShortSeqs
    <3>3. Puts(<<Progress>>) BY <1>2 DEF Begin
    <3> QED BY <3>1, <3>2, <3>3, PutsTypes
  <2>2. CrawlTypes' BY <1>2, <2>1, EventTypes, ShortSeqs DEF Begin
  <2>3. Places' BY <1>2, <2>1, EventTypes, ShortSeqs DEF Begin, Places
  <2> QED BY <2>2, <2>3
<1>3. CASE CancelSession
  <2>1. CrawlTypes' BY <1>3, ShortSeqs DEF CancelSession
  <2>2. Places' BY <1>3, ShortSeqs DEF CancelSession, Places
  <2> QED BY <2>1, <2>2
<1>4. CASE reader \in {"away", "waits"} /\ queue # <<>> /\ Delivers /\ UNCHANGED <<late, session, walker>>
  <2>1. CrawlTypes' BY <1>4, DeliversMoves
  <2>2. Places' BY <1>4, DeliversMoves DEF Places
  <2> QED BY <2>1, <2>2
<1>5. CASE reader = "away" /\ reader' \in {"finish", "waits"} /\ UNCHANGED <<late, queue, session, walker, caller>>
  BY <1>5 DEF Places
<1>6. CASE Ask \/ Get BY <1>4, <1>5, <1>6 DEF Ask, Get
<1> QED BY <1>1, <1>2, <1>3, <1>6 DEF Reads

-----------------------------------------------------------------------------
(* What is on its way to the caller *)

\* What is to come is a sequence of events.
LEMMA PendingType == CrawlTypes => Pending \in Seq(Event)
BY ConcatProperties DEF CrawlTypes, Pending

\* The magnets of events are finitely many hashes.
LEMMA HashesType ==
    ASSUME NEW s \in Seq(Event)
    PROVE  Hashes(s) \subseteq Hash /\ IsFiniteSet(Hashes(s))
<1>1. \A i \in DOMAIN s : s[i] \in Event BY LenProperties, ElementOfSeq
<1>2. Hashes(s) \subseteq Hash BY <1>1, EventTypes DEF Hashes, Of
<1> QED BY <1>2, CrawlAssumption, FS_Subset

\* And so are those that have been counted.
LEMMA GivenType ==
    ASSUME CrawlTypes
    PROVE  Given \subseteq Hash /\ IsFiniteSet(Given) /\ Cardinality(Given) \in Nat
           /\ Cardinality(Given) <= Cardinality(Hash)
<1>1. Hashes(queue) \subseteq Hash BY HashesType DEF CrawlTypes
<1>2. out # <<>> => Head(out) \in Event BY OfTail DEF CrawlTypes
<1>3. Given \subseteq Hash BY <1>1, <1>2, EventTypes DEF Given, CrawlTypes
<1> QED BY <1>3, CrawlAssumption, FS_Subset, FS_CardinalityType

\* A step that leaves what is on its way.
LEMMA StreamStays ==
    ASSUME StreamInv, UNCHANGED <<late, queue, out, seen, found, errors, told, complaints, report>>,
           walk = "gone" => walk' = "gone", Going' => Going
    PROVE  StreamInv'
BY DEF StreamInv, NewOnes, Tally, Closes, Pending, Given

\* The session has more to put.
LEMMA StreamGrows ==
    ASSUME CrawlTypes, StreamInv, Going, out = <<>>, walk # "gone",
           NEW s \in Seq(Event), Puts(s), UNCHANGED <<late, queue, told, complaints, report>>,
           \A i, j \in Of(s, "found") : s[i].hash = s[j].hash => i = j,
           Hashes(s) \cap seen = {}, seen' = seen \cup Hashes(s),
           \/ Of(s, "error") = {} /\ errors' = errors
           \/ (\E k : Of(s, "error") = {k}) /\ errors' = errors + 1,
           \/ Of(s, "none") = {} /\ Of(s, "done") = {}
           \/ /\ walk' = "gone" /\ Hashes(s) = {} /\ Of(s, "none") = {Len(s)}
              /\ Of(s, "done") = {Len(s) - 1} /\ s[Len(s) - 1] = Done(found, errors')
    PROVE  StreamInv'
<1>0. queue \in Seq(Event) BY DEF CrawlTypes
<1>8. /\ Of(s, "error") = {} => Count(queue \o s, "error") = Count(queue, "error")
      /\ (\E k : Of(s, "error") = {k}) => Count(queue \o s, "error") = Count(queue, "error") + 1
  BY <1>0, CountConcat
<1> USE DEF CrawlTypes
<1>1. NewOnes /\ Tally /\ Closes BY DEF StreamInv
<1>2. Pending = queue /\ Pending' = queue \o s BY ConcatEmptySeq, PutsTypes DEF Pending
<1>3. out' = s /\ found' = IF s # <<>> /\ Head(s).type = "found" THEN found + 1 ELSE found
  BY PutsTypes
<1> DEFINE q == queue \o s
<1>4. /\ q \in Seq(Event) /\ Len(q) = Len(queue) + Len(s)
      /\ \A i \in DOMAIN queue : i \in DOMAIN q /\ q[i] = queue[i]
      /\ \A i \in DOMAIN s : Len(queue) + i \in DOMAIN q /\ q[Len(queue) + i] = s[i]
      /\ \A i \in DOMAIN q : i \in DOMAIN queue \/ (i > Len(queue) /\ i - Len(queue) \in DOMAIN s)
  BY OfConcat
<1>5. \A type : Of(q, type) = Of(queue, type) \cup {Len(queue) + i : i \in Of(s, type)} BY OfConcat
<1>6. Hashes(q) = Hashes(queue) \cup Hashes(s) BY HashesConcat
<1>7. Len(queue) \in Nat /\ Len(s) \in Nat /\ DOMAIN queue = 1..Len(queue) /\ DOMAIN s = 1..Len(s)
  BY LenProperties
<1> HIDE DEF q
<1>9. NewOnes'
  <2>1. ASSUME NEW i \in Of(q, "found"), NEW j \in Of(q, "found"), q[i].hash = q[j].hash PROVE i = j
    <3>1. \A k \in Of(queue, "found") : q[k] = queue[k] /\ q[k].hash \in seen
      BY <1>1, <1>2, <1>4 DEF NewOnes, Hashes, Of
    <3>2. \A k \in Of(s, "found") : q[Len(queue) + k] = s[k] /\ q[Len(queue) + k].hash \notin seen
      BY <1>4 DEF Hashes, Of
    <3>3. i \in Of(queue, "found") \/ \E k \in Of(s, "found") : i = Len(queue) + k BY <1>5
    <3>4. j \in Of(queue, "found") \/ \E k \in Of(s, "found") : j = Len(queue) + k BY <1>5
    <3>5. \A k, l \in Of(queue, "found") : queue[k].hash = queue[l].hash => k = l
      BY <1>1, <1>2 DEF NewOnes
    <3> QED BY <2>1, <3>1, <3>2, <3>3, <3>4, <3>5
  <2>2. Hashes(q) \cap told = {} /\ seen' = told \cup Hashes(q) BY <1>1, <1>2, <1>6 DEF NewOnes
  <2> QED BY <1>2, <2>1, <2>2 DEF NewOnes, q
<1>10. found' = Cardinality(Given')
  <2>1. Given = seen /\ found = Cardinality(Given) BY <1>1, <1>2 DEF Given, NewOnes, Tally
  <2>2. CASE s # <<>> /\ Head(s).type = "found"
    <3>1. Given' = Given \cup {Head(s).hash} BY <1>3, <2>2 DEF Given
    <3>2. Head(s).hash \in Hashes(s) BY <2>2, HashesTail
    <3>3. Head(s).hash \notin Given BY <2>1, <3>2
    <3>4. Cardinality(Given \cup {Head(s).hash}) = Cardinality(Given) + 1
      BY <3>3, GivenType, FS_AddElement
    <3> QED BY <1>3, <2>1, <2>2, <3>1, <3>4
  <2>3. CASE ~(s # <<>> /\ Head(s).type = "found")
    <3>1. Given' = Given BY <1>3, <2>3 DEF Given
    <3> QED BY <1>3, <2>1, <2>3, <3>1
  <2> QED BY <2>2, <2>3
<1>11. ~late => errors' = complaints + Count(q, "error")
  <2>1. ~late => errors = complaints + Count(queue, "error") BY <1>1, <1>2 DEF Tally
  <2>2. Count(queue, "error") \in Nat BY CountType
  <2>3. CASE Of(s, "error") = {} /\ errors' = errors BY <1>8, <2>1, <2>3 DEF q
  <2>4. CASE (\E k : Of(s, "error") = {k}) /\ errors' = errors + 1
    <3>1. Count(q, "error") = Count(queue, "error") + 1 BY <1>8, <2>4 DEF q
    <3> QED BY <2>1, <2>2, <2>4, <3>1
  <2> QED BY <2>3, <2>4
<1>12. Closes'
  <2>1. /\ Of(queue, "none") = {} /\ Of(queue, "done") = {} /\ report = NoReport
    BY <1>1, <1>2 DEF Closes
  <2>2. CASE Of(s, "none") = {} /\ Of(s, "done") = {}
    <3>1. Of(q, "none") = {} /\ Of(q, "done") = {} BY <1>5, <2>1, <2>2
    <3> QED BY <1>2, <2>1, <3>1 DEF Closes, q
  <2>3. CASE /\ walk' = "gone" /\ Hashes(s) = {} /\ Of(s, "none") = {Len(s)}
             /\ Of(s, "done") = {Len(s) - 1} /\ s[Len(s) - 1] = Done(found, errors')
    <3>0. \A k : {Len(queue) + i : i \in {k}} = {Len(queue) + k} OBVIOUS
    <3>1. Of(q, "none") = {Len(q)}
      <4>1. {Len(queue) + i : i \in Of(s, "none")} = {Len(q)} BY <1>4, <2>3, <3>0
      <4> QED BY <1>5, <2>1, <4>1
    <3>2. Of(q, "done") = {Len(q) - 1} /\ q[Len(q) - 1] = Done(found, errors')
      <4>1. Len(s) - 1 \in DOMAIN s BY <2>3 DEF Of
      <4>2. Len(queue) + (Len(s) - 1) = Len(q) - 1 BY <1>4, <1>7
      <4>3. {Len(queue) + i : i \in Of(s, "done")} = {Len(q) - 1} BY <2>3, <3>0, <4>2
      <4> QED BY <1>4, <1>5, <2>1, <2>3, <4>1, <4>2, <4>3
    <3>3. \A j \in DOMAIN q : j > Len(q) - 1 => q[j].type = "none"
      <4>1. Len(q) \in Nat /\ DOMAIN q = 1..Len(q) BY <1>4, <1>7, LenProperties
      <4>2. q[Len(q)].type = "none" BY <3>1 DEF Of
      <4> QED BY <4>1, <4>2
    <3>4. found = Cardinality(told \cup Hashes(q))
      <4>1. told \cup Hashes(q) = Given BY <1>6, <2>3 DEF Given
      <4> QED BY <1>1, <4>1 DEF Tally
    <3>5. q[Len(q) - 1].total = found /\ q[Len(q) - 1].errors = errors' BY <3>2, EventTypes
    <3> QED BY <1>2, <1>11, <2>1, <2>3, <3>1, <3>2, <3>3, <3>4, <3>5 DEF Closes, q
  <2> QED BY <2>2, <2>3
<1> QED BY <1>2, <1>9, <1>10, <1>11, <1>12 DEF StreamInv, Tally, q

\* An event goes into the queue; a magnet that is next is counted.
LEMMA StreamPut ==
    ASSUME CrawlTypes, Places, StreamInv, Put
    PROVE  StreamInv'
<1> USE DEF CrawlTypes
<1>1. NewOnes /\ Tally /\ Closes BY DEF StreamInv, Going, Put
<1>2. /\ out # <<>> /\ Head(out) \in Event /\ Tail(out) \in Seq(Event)
      /\ out' = Tail(out) /\ queue' \in Seq(Event)
      /\ found' = IF Tail(out) # <<>> /\ Head(Tail(out)).type = "found" THEN found + 1 ELSE found
      /\ Pending' = Pending
      /\ Hashes(queue') = Hashes(queue) \cup (IF Head(out).type = "found" THEN {Head(out).hash} ELSE {})
  BY PutMoves
<1>3. UNCHANGED <<late, errors, seen, walk, told, complaints, report>>
  BY DEF Put, crawl, walker, caller
<1>4. NewOnes' /\ Closes' BY <1>1, <1>2, <1>3 DEF NewOnes, Closes
<1> DEFINE x == Head(Tail(out)).hash
<1>5. Given' = Given \cup (IF Tail(out) # <<>> /\ Head(Tail(out)).type = "found" THEN {x} ELSE {})
  BY <1>2, <1>3 DEF Given
<1>6. ASSUME Tail(out) # <<>>, Head(Tail(out)).type = "found" PROVE x \notin Given
  <2> DEFINE n == Len(queue)
  <2>1. /\ Head(out) = out[1] /\ 1 \in DOMAIN out /\ Head(Tail(out)) = Tail(out)[1] /\ 1 \in DOMAIN Tail(out)
        /\ Tail(out)[1] = out[2] /\ 2 \in DOMAIN out
    <3>1. Head(out) = out[1] /\ 1 \in DOMAIN out BY <1>2, OfTail
    <3>2. Head(Tail(out)) = Tail(out)[1] /\ 1 \in DOMAIN Tail(out) BY <1>2, <1>6, OfTail
    <3>3. Tail(out)[1] = out[1 + 1] /\ 1 + 1 \in DOMAIN out BY <1>2, <3>2, OfTail
    <3> QED BY <3>1, <3>2, <3>3
  <2>2. /\ n + 1 \in DOMAIN Pending /\ Pending[n + 1] = out[1]
        /\ n + 2 \in DOMAIN Pending /\ Pending[n + 2] = out[2]
        /\ \A i \in DOMAIN queue : i \in DOMAIN Pending /\ Pending[i] = queue[i]
    BY <2>1, OfConcat DEF Pending
  <2>3. n \in Nat /\ \A i \in DOMAIN queue : i <= n BY LenProperties
  <2> HIDE DEF n
  <2>4. n + 2 \in Of(Pending, "found") /\ Pending[n + 2].hash = x BY <1>6, <2>1, <2>2 DEF Of
  <2>5. x \notin told BY <1>1, <2>4 DEF NewOnes, Hashes
  <2>6. x \notin Hashes(queue)
    <3> SUFFICES ASSUME NEW i \in Of(queue, "found"), queue[i].hash = x PROVE FALSE BY DEF Hashes
    <3>1. i \in Of(Pending, "found") /\ Pending[i].hash = x /\ i <= n BY <2>2, <2>3 DEF Of
    <3>2. i = n + 2 BY <1>1, <2>4, <3>1 DEF NewOnes
    <3> QED BY <2>3, <3>1, <3>2
  <2>7. ~(Head(out).type = "found" /\ Head(out).hash = x)
    <3> SUFFICES ASSUME Head(out).type = "found", Head(out).hash = x PROVE FALSE OBVIOUS
    <3>1. n + 1 \in Of(Pending, "found") /\ Pending[n + 1].hash = x BY <2>1, <2>2 DEF Of
    <3>2. n + 1 = n + 2 BY <1>1, <2>4, <3>1 DEF NewOnes
    <3> QED BY <2>3, <3>2
  <2> HIDE DEF x
  <2> QED BY <2>5, <2>6, <2>7 DEF Given
<1>7. found' = Cardinality(Given')
  <2> HIDE DEF x
  <2>1. found = Cardinality(Given) BY <1>1 DEF Tally
  <2>2. CASE Tail(out) # <<>> /\ Head(Tail(out)).type = "found"
    <3>1. Cardinality(Given \cup {x}) = Cardinality(Given) + 1
      BY <1>6, <2>2, GivenType, FS_AddElement
    <3> QED BY <1>2, <1>5, <2>1, <2>2, <3>1
  <2>3. CASE ~(Tail(out) # <<>> /\ Head(Tail(out)).type = "found")
    BY <1>2, <1>5, <2>1, <2>3
  <2> QED BY <2>2, <2>3
<1>8. ~late => errors = complaints + Count(Pending, "error") BY <1>1 DEF Tally
<1> QED BY <1>2, <1>3, <1>4, <1>7, <1>8 DEF StreamInv, Tally

\* What can be said of the first event to come.
LEMMA FirstToCome ==
    ASSUME CrawlTypes, StreamInv, Going, ~late, queue # <<>>
    PROVE  LET e == Head(queue)
           IN  /\ e.type = "found" => e.hash \in Hash \ told
               /\ e.type \in {"found", "error", "done"} => report = NoReport
               /\ e.type = "done" =>
                     /\ e.total = Cardinality(told) /\ e.errors = complaints /\ walk = "gone"
                     /\ errors = complaints /\ seen = told
<1> USE DEF CrawlTypes
<1>1. NewOnes /\ Tally /\ Closes BY DEF StreamInv
<1>2. Pending \in Seq(Event) BY PendingType
<1>3. Head(queue) = Pending[1] /\ 1 \in DOMAIN Pending /\ Head(queue) \in Event
  <2>1. Head(queue) = queue[1] /\ 1 \in DOMAIN queue /\ Head(queue) \in Event BY OfTail
  <2> QED BY <2>1, OfConcat DEF Pending
<1>4. Head(queue).type = "found" => Head(queue).hash \in Hash \ told
  BY <1>1, <1>3, EventTypes DEF NewOnes, Hashes, Of
<1>5. Head(queue).type \in {"found", "error", "done"} => report = NoReport
  BY <1>1, <1>3 DEF Closes
<1>6. ASSUME Head(queue).type = "done"
      PROVE  /\ Head(queue).total = Cardinality(told) /\ Head(queue).errors = complaints /\ walk = "gone"
             /\ errors = complaints /\ seen = told
  <2>1. 1 \in Of(Pending, "done") BY <1>3, <1>6 DEF Of
  <2>2. \A j \in DOMAIN Pending : j > 1 => Pending[j].type = "none" BY <1>1, <2>1 DEF Closes
  <2>3. \A j \in DOMAIN Pending : j = 1 \/ j > 1 BY <1>2, LenProperties
  <2>4. Of(Pending, "found") = {} /\ Of(Pending, "error") = {}
    BY <1>3, <1>6, <2>2, <2>3 DEF Of
  <2>5. Hashes(Pending) = {} /\ Count(Pending, "error") = 0 BY <1>2, <2>4, CountType DEF Hashes
  <2>6. told \cup Hashes(Pending) = told /\ complaints + Count(Pending, "error") = complaints
    BY <2>5
  <2> QED BY <1>1, <1>3, <2>1, <2>6 DEF Closes, NewOnes, Tally
<1> QED BY <1>4, <1>5, <1>6

\* The first event is given.
LEMMA StreamGiven ==
    ASSUME CrawlTypes, StreamInv, Going, ~late, queue # <<>>, Delivers, UNCHANGED <<late, session, walker>>
    PROVE  StreamInv'
<1> USE DEF CrawlTypes
<1> DEFINE e == Head(queue)
           P == Pending
           T == Tail(Pending)
<1>1. NewOnes /\ Tally /\ Closes BY DEF StreamInv
<1>2. P \in Seq(Event) /\ P # <<>> /\ Pending' = T /\ Head(P) = e
  BY PendingType, DeliversMoves DEF session
<1>3. UNCHANGED <<out, found, errors, seen, walk>> BY DEF session, walker
<1>4. /\ queue' = Tail(queue)
      /\ told' = IF e.type = "found" THEN told \cup {e.hash} ELSE told
      /\ complaints' = IF e.type = "error" THEN complaints + 1 ELSE complaints
      /\ report' = IF e.type = "done" THEN [total |-> e.total, errors |-> e.errors] ELSE report
  BY DEF Delivers
<1>5. Hashes(P) = Hashes(T) \cup (IF e.type = "found" THEN {e.hash} ELSE {}) BY <1>2, HashesTail
<1>6. Hashes(queue) = Hashes(queue') \cup (IF e.type = "found" THEN {e.hash} ELSE {})
  BY <1>4, HashesTail
<1>7. \A type : Count(P, type) = Count(T, type) + (IF e.type = type THEN 1 ELSE 0)
  BY <1>2, CountTail
<1>8. /\ T \in Seq(Event) /\ e = P[1] /\ 1 \in DOMAIN P /\ Len(T) = Len(P) - 1
      /\ \A i \in DOMAIN T : i + 1 \in DOMAIN P /\ i + 1 > 1 /\ T[i] = P[i + 1]
      /\ \A type, i : i \in Of(T, type) => i \in Nat \ {0} /\ i + 1 \in Of(P, type)
  BY <1>2, OfTail
<1>9. DOMAIN T \subseteq Nat \ {0} /\ Len(P) \in Nat BY <1>2, <1>8, LenProperties
<1>10. Count(T, "error") \in Nat BY <1>8, CountType
<1> HIDE DEF e, P, T
<1>11. told' \cup Hashes(T) = told \cup Hashes(P) BY <1>4, <1>5
<1>12. complaints' + Count(T, "error") = complaints + Count(P, "error") BY <1>4, <1>7, <1>10
<1>13. NewOnes'
  <2>1. ASSUME NEW i \in Of(T, "found"), NEW j \in Of(T, "found"), T[i].hash = T[j].hash PROVE i = j
    <3>1. i \in DOMAIN T /\ j \in DOMAIN T BY DEF Of
    <3>2. P[i + 1].hash = P[j + 1].hash BY <1>8, <2>1, <3>1
    <3>3. i + 1 = j + 1 BY <1>1, <1>8, <3>2 DEF NewOnes, P
    <3> QED BY <1>9, <3>1, <3>3
  <2>2. Hashes(T) \cap told' = {}
    <3>1. Hashes(P) \cap told = {} BY <1>1 DEF NewOnes, P
    <3>2. ASSUME e.type = "found", e.hash \in Hashes(T) PROVE FALSE
      <4>1. PICK i \in Of(T, "found") : T[i].hash = e.hash BY <3>2 DEF Hashes
      <4>2. i \in DOMAIN T /\ i + 1 \in Of(P, "found") BY <1>8, <4>1 DEF Of
      <4>3. 1 \in Of(P, "found") BY <1>8, <3>2 DEF Of
      <4>4. i + 1 = 1 BY <1>1, <1>8, <4>1, <4>2, <4>3 DEF NewOnes, P
      <4> QED BY <1>9, <4>2, <4>4
    <3> QED BY <1>4, <1>5, <3>1, <3>2
  <2>3. seen' = told' \cup Hashes(T) BY <1>1, <1>3, <1>11 DEF NewOnes, P
  <2> QED BY <1>2, <2>1, <2>2, <2>3 DEF NewOnes
<1>14. Tally'
  <2>1. Given' = Given BY <1>3, <1>4, <1>6 DEF Given
  <2> QED BY <1>1, <1>2, <1>3, <1>12, <2>1 DEF Tally, P
<1>15. Closes'
  <2>1. \A i \in Of(T, "none") : walk = "gone" /\ i = Len(T)
    <3> TAKE i \in Of(T, "none")
    <3>1. i \in Nat /\ i + 1 \in Of(P, "none") BY <1>8
    <3> QED BY <1>1, <1>8, <1>9, <3>1 DEF Closes, P
  <2>2. ASSUME NEW i \in Of(T, "done")
        PROVE  /\ walk = "gone" /\ report' = NoReport
               /\ T[i].total = Cardinality(told' \cup Hashes(T))
               /\ ~late => T[i].errors = complaints' + Count(T, "error")
               /\ \A j \in DOMAIN T : j > i => T[j].type = "none"
    <3>1. i \in DOMAIN T /\ i \in Nat \ {0} /\ i + 1 \in Of(P, "done") /\ T[i] = P[i + 1]
      BY <1>8 DEF Of
    <3>2. /\ walk = "gone" /\ report = NoReport
          /\ P[i + 1].total = Cardinality(told \cup Hashes(P))
          /\ ~late => P[i + 1].errors = complaints + Count(P, "error")
          /\ \A j \in DOMAIN P : j > i + 1 => P[j].type = "none"
      BY <1>1, <3>1 DEF Closes, P
    <3>3. e.type # "done"
      <4> SUFFICES ASSUME e.type = "done" PROVE FALSE OBVIOUS
      <4>1. 1 \in Of(P, "done") BY <1>8 DEF Of
      <4>2. P[i + 1].type = "none" BY <1>1, <1>8, <3>1, <4>1 DEF Closes, P, Of
      <4> QED BY <3>1, <4>2 DEF Of
    <3>4. \A j \in DOMAIN T : j > i => T[j].type = "none"
      <4> TAKE j \in DOMAIN T
      <4>1. j \in Nat /\ j + 1 \in DOMAIN P /\ T[j] = P[j + 1] BY <1>8, <1>9
      <4> QED BY <3>1, <3>2, <4>1
    <3> QED BY <1>4, <1>11, <1>12, <3>1, <3>2, <3>3, <3>4
  <2>3. report' # NoReport => walk = "gone" /\ \A i \in DOMAIN T : T[i].type = "none"
    <3>1. CASE e.type = "done"
      <4>1. 1 \in Of(P, "done") BY <1>8, <3>1 DEF Of
      <4>2. walk = "gone" /\ \A j \in DOMAIN P : j > 1 => P[j].type = "none"
        BY <1>1, <4>1 DEF Closes, P
      <4> QED BY <1>8, <4>2
    <3>2. CASE e.type # "done"
      <4>1. report # NoReport => walk = "gone" /\ \A j \in DOMAIN P : P[j].type = "none"
        BY <1>1 DEF Closes, P
      <4> QED BY <1>4, <1>8, <3>2, <4>1
    <3> QED BY <3>1, <3>2
  <2> QED BY <1>2, <1>3, <2>1, <2>2, <2>3 DEF Closes
<1> QED BY <1>13, <1>14, <1>15 DEF StreamInv

\* The search of a page, a page that failed, the start and the end of the session put new events.
LEMMA StreamPuts ==
    ASSUME CrawlTypes, Places, StreamInv,
           \/ Begin \/ Extract \/ Ends
           \/ Breaks /\ at \in {"next", "walk"} /\ UNCHANGED <<crawl, queue, caller>>
           \/ /\ at = "walk" /\ \E p \in Page : Takes(p, FALSE)
              /\ UNCHANGED <<crawl, queue, caller>>
    PROVE  StreamInv'
<1> USE DEF CrawlTypes, crawl, caller, walker
<1>1. Progress \in Event /\ Error \in Event /\ Sentinel \in Event BY EventTypes
<1>2. ASSUME Puts(<<Error>>), errors' = errors + 1, at \in {"walk", "extract"},
             UNCHANGED <<late, queue, seen, told, complaints, report>>
      PROVE StreamInv'
  <2>1. Going /\ out = <<>> /\ walk # "gone" BY <1>2 DEF Going, Places
  <2>2. <<Error>> \in Seq(Event) BY <1>1, ShortSeqs
  <2>3. /\ Of(<<Error>>, "found") = {} /\ Of(<<Error>>, "none") = {} /\ Of(<<Error>>, "done") = {}
        /\ Of(<<Error>>, "error") = {1}
    BY <1>1, EventTypes, OfShort
  <2>4. Hashes(<<Error>>) = {} BY <2>3 DEF Hashes
  <2> QED BY <1>2, <2>1, <2>2, <2>3, <2>4, StreamGrows
<1>3. CASE Begin
  <2> DEFINE s == <<Progress>>
  <2>1. Going /\ out = <<>> /\ walk # "gone" BY <1>3 DEF Begin, Going, Places
  <2>2. s \in Seq(Event) BY <1>1, ShortSeqs
  <2>3. Of(s, "found") = {} /\ Of(s, "none") = {} /\ Of(s, "done") = {} /\ Of(s, "error") = {}
    BY <1>1, EventTypes, OfShort
  <2>4. Hashes(s) = {} BY <2>3 DEF Hashes
  <2>5. Puts(s) /\ UNCHANGED <<late, queue, errors, seen, told, complaints, report>>
    BY <1>3 DEF Begin
  <2> HIDE DEF s
  <2> QED BY <2>1, <2>2, <2>3, <2>4, <2>5, StreamGrows
<1>4. CASE Extract
  <2>1. page.url \in Page /\ Going /\ out = <<>> /\ walk # "gone" BY <1>4 DEF Places, Extract, Going
  <2>2. CASE errors' = errors + 1 /\ Puts(<<Error>>) /\ at' = "put" /\ UNCHANGED seen
    BY <1>2, <1>4, <2>2 DEF Extract
  <2>3. CASE /\ Puts(Searched(page.url))
             /\ errors' = IF Barren(page.url) THEN errors + 1 ELSE errors
             /\ seen' = seen \cup Magnets[page.url]
    <3> DEFINE s == Searched(page.url)
    <3>1. /\ s \in Seq(Event) /\ Hashes(s) = Magnets[page.url] \ seen
          /\ \A i, j \in Of(s, "found") : s[i].hash = s[j].hash => i = j
          /\ Of(s, "none") = {} /\ Of(s, "done") = {}
          /\ IF Barren(page.url) THEN \E k : Of(s, "error") = {k} ELSE Of(s, "error") = {}
      BY <2>1, SearchedFacts
    <3>2. Puts(s) BY <2>3
    <3> HIDE DEF s
    <3>3. Hashes(s) \cap seen = {} /\ seen' = seen \cup Hashes(s) BY <2>3, <3>1
    <3>4. UNCHANGED <<late, queue, told, complaints, report>> BY <1>4 DEF Extract
    <3>5. \/ Of(s, "error") = {} /\ errors' = errors
          \/ (\E k : Of(s, "error") = {k}) /\ errors' = errors + 1
      BY <2>3, <3>1
    <3> QED BY <2>1, <3>1, <3>2, <3>3, <3>4, <3>5, StreamGrows
  <2> QED BY <1>4, <2>1, <2>2, <2>3, ExtractWays
<1>5. CASE Ends
  <2> DEFINE d == Done(found, errors)
             s == <<d, Sentinel>>
  <2>1. d \in Event /\ d.type = "done" BY EventTypes
  <2>2. Going /\ out = <<>> /\ walk # "gone" BY <1>5 DEF Ends, Going, Places
  <2>3. Puts(s) /\ walk' = "gone" /\ UNCHANGED <<late, queue, errors, seen, told, complaints, report>>
    BY <1>5 DEF Ends
  <2> HIDE DEF d
  <2>4. /\ s \in Seq(Event) /\ DOMAIN s = {1, 2} /\ Len(s) = 2 /\ s[1] = d /\ s[2] = Sentinel
    BY <1>1, <2>1, ShortSeqs
  <2> HIDE DEF s
  <2>5. /\ Of(s, "found") = {} /\ Of(s, "error") = {} /\ Of(s, "none") = {2} /\ Of(s, "done") = {1}
    BY <2>1, <2>4, EventTypes DEF Of
  <2>6. Hashes(s) = {} BY <2>5 DEF Hashes
  <2>7. s[Len(s) - 1] = Done(found, errors') /\ Len(s) - 1 = 1 BY <2>3, <2>4 DEF d
  <2> QED BY <2>2, <2>3, <2>4, <2>5, <2>6, <2>7, StreamGrows
<1>6. CASE Breaks /\ at \in {"next", "walk"} /\ UNCHANGED <<crawl, queue, caller>>
  <2> DEFINE d == Done(found, errors + 1)
             s == <<Error, d, Sentinel>>
  <2>1. d \in Event /\ d.type = "done" BY EventTypes
  <2>2. Going /\ out = <<>> /\ walk # "gone" BY <1>6 DEF Going, Places
  <2>3. Puts(s) /\ walk' = "gone" /\ errors' = errors + 1 /\ UNCHANGED <<late, queue, seen, told, complaints, report>>
    BY <1>6 DEF Breaks
  <2> HIDE DEF d
  <2>4. /\ s \in Seq(Event) /\ DOMAIN s = {1, 2, 3} /\ Len(s) = 3 /\ s[1] = Error /\ s[2] = d /\ s[3] = Sentinel
    BY <1>1, <2>1, ShortSeqs
  <2> HIDE DEF s
  <2>5. /\ Of(s, "found") = {} /\ Of(s, "error") = {1} /\ Of(s, "none") = {3} /\ Of(s, "done") = {2}
    BY <2>1, <2>4, EventTypes DEF Of
  <2>6. Hashes(s) = {} BY <2>5 DEF Hashes
  <2>7. s[Len(s) - 1] = Done(found, errors') /\ Len(s) - 1 = 2 BY <2>3, <2>4 DEF d
  <2> QED BY <2>2, <2>3, <2>4, <2>5, <2>6, <2>7, StreamGrows
<1>7. CASE /\ at = "walk" /\ \E p \in Page : Takes(p, FALSE)
           /\ UNCHANGED <<crawl, queue, caller>>
  BY <1>2, <1>7 DEF Takes
<1> QED BY <1>3, <1>4, <1>5, <1>6, <1>7

\* Every step keeps what the stream promises.
LEMMA StreamKept ==
    ASSUME CrawlTypes, Places, LateInv, StreamInv, [Next]_vars
    PROVE  StreamInv'
<1> USE DEF crawl, caller, walker, session
<1>1. CASE Put BY <1>1, StreamPut
<1>2. CASE Begin \/ Extract \/ Ends BY <1>2, StreamPuts
<1>3. CASE FetchRoot \/ Waits \/ Probe \/ Rescue \/ Descend \/ Reap \/ Refuse \/ Refused \/ Finish \/ Close \/ Closed \/ UNCHANGED vars
  <2>1. Going' => Going /\ UNCHANGED <<told, complaints, report>>
    BY <1>3
       DEF FetchRoot, Waits, Probe, Rescue, Descend, Fetches, Reap, Refuse, Refused, Finish, Close,
          Closed, vars, Going,
                Places
  <2>2. UNCHANGED <<late, queue, out, seen, found, errors>> /\ (walk = "gone" => walk' = "gone")
    BY <1>3
       DEF FetchRoot, Waits, Probe, Rescue, Descend, Fetches, Reap, Refuse, Refused, Finish, Close,
          Closed, vars,
                Places
  <2>3. CASE Going' BY <2>1, <2>2, <2>3, StreamStays
  <2> QED BY <2>3 DEF StreamInv
<1>4. CASE TakeRoot
  <2>1. at = "walk" /\ UNCHANGED <<crawl, queue, caller>> /\ Root \in Page
    BY <1>4, CrawlAssumption DEF TakeRoot
  <2>2. CASE Breaks BY <2>1, <2>2, StreamPuts
  <2>3. CASE Takes(Root, FALSE) BY <2>1, <2>3, StreamPuts
  <2>4. CASE Takes(Root, TRUE) /\ UNCHANGED walk
    BY <2>1, <2>4, StreamStays DEF Takes, Going
  <2> QED BY <1>4, <2>2, <2>3, <2>4 DEF TakeRoot
<1>5. ASSUME NEW p \in Page, TakePage(p) PROVE StreamInv'
  <2>1. at = "walk" /\ UNCHANGED <<crawl, queue, walk, caller>> BY <1>5 DEF TakePage
  <2>2. CASE Takes(p, FALSE) BY <2>1, <2>2, StreamPuts
  <2>3. CASE Takes(p, TRUE) BY <2>1, <2>3, StreamStays DEF Takes, Going
  <2> QED BY <1>5, <2>2, <2>3 DEF TakePage
<1>6. CASE Follow
  <2>1. at = "next" /\ UNCHANGED <<crawl, queue, caller>> BY <1>6 DEF Follow
  <2>2. CASE Breaks BY <2>1, <2>2, StreamPuts
  <2>3. CASE Turn /\ UNCHANGED walk BY <2>1, <2>3, StreamStays DEF Turn, Going
  <2> QED BY <1>6, <2>2, <2>3 DEF Follow
<1>7. CASE Ask \/ Get
  <2>1. CASE queue # <<>> /\ Delivers /\ ~late /\ reader \in {"away", "waits"} /\ UNCHANGED <<late, session, walker>>
    BY <2>1, StreamGiven DEF Going
  <2>2. CASE UNCHANGED <<queue, caller>> /\ Ask
    BY <2>2, StreamStays DEF Ask, Going
  <2> QED BY <1>7, <2>1, <2>2 DEF Ask, Get, LateInv, CrawlTypes
<1>8. CASE Timeout
  <2>1. out = <<>> /\ queue = <<>> /\ Going BY <1>8 DEF Timeout, Places, Going
  <2>2. UNCHANGED <<queue, out, seen, told, found, walk, report>> /\ late' BY <1>8 DEF Timeout
  <2>3. Pending = <<>> BY <2>1, ConcatEmptySeq, EmptySeq DEF Pending
  <2>4. Pending' = Pending /\ Given' = Given BY <2>2 DEF Pending, Given
  <2>5. DOMAIN Pending = {} /\ Of(Pending, "none") = {} /\ Of(Pending, "done") = {} BY <2>3 DEF Of
  <2>6. NewOnes /\ Tally /\ Closes BY <2>1 DEF StreamInv
  <2>7. NewOnes' BY <2>2, <2>4, <2>6 DEF NewOnes
  <2>8. Tally' BY <2>2, <2>4, <2>6 DEF Tally
  <2>9. Closes' BY <2>2, <2>4, <2>5, <2>6 DEF Closes
  <2> QED BY <2>7, <2>8, <2>9 DEF StreamInv
<1>9. CASE CancelSession BY <1>9 DEF CancelSession, StreamInv, Going
<1> QED BY <1>1, <1>2, <1>3, <1>4, <1>5, <1>6, <1>7, <1>8, <1>9 DEF Next, Runs, Awaits, Reads

-----------------------------------------------------------------------------
(* The walk *)

\* The root does not list more pages than may be taken on, nor itself.
LEMMA FirstLinksBound ==
    IsFiniteSet(FirstLinks) /\ Cardinality(FirstLinks) <= MaxLinks /\ Cardinality(FirstLinks) \in Nat
    /\ Root \notin FirstLinks
<1>1. CASE RootIsDetail
  BY <1>1, CrawlAssumption, FS_EmptySet DEF FirstLinks
<1>2. CASE ~RootIsDetail
  <2> DEFINE L == Links[Root]
             I == {j \in DOMAIN L : j <= MaxLinks}
             f == [j \in I |-> L[j]]
  <2>1. L \in Seq(Page) /\ Root \notin Range(L) /\ MaxLinks \in Nat BY CrawlAssumption
  <2>2. DOMAIN L = 1..Len(L) /\ Len(L) \in Nat BY <2>1, LenProperties
  <2> HIDE DEF L
  <2>3. I \subseteq 1..MaxLinks BY <2>1, <2>2
  <2>4. IsFiniteSet(1..MaxLinks) /\ Cardinality(1..MaxLinks) = MaxLinks BY <2>1, FS_Interval
  <2>5. IsFiniteSet(I) /\ Cardinality(I) <= MaxLinks /\ Cardinality(I) \in Nat
    BY <2>3, <2>4, FS_Subset, FS_CardinalityType
  <2>6. FirstLinks = {L[j] : j \in I} BY <1>2 DEF FirstLinks, L
  <2> HIDE DEF I
  <2>7. f \in Surjection(I, FirstLinks) BY <2>6, Fun_IsSurj
  <2>8. IsFiniteSet(FirstLinks) /\ Cardinality(FirstLinks) <= Cardinality(I)
    BY <2>5, <2>7, FS_Surjection
  <2>9. Cardinality(FirstLinks) \in Nat BY <2>8, FS_CardinalityType
  <2>10. Root \notin FirstLinks BY <2>1, <2>6 DEF Range, I
  <2> QED BY <2>1, <2>5, <2>8, <2>9, <2>10
<1> QED BY <1>1, <1>2, CrawlAssumption

\* With the links of a page that it takes on the walker has asked for no more pages than it may.
LEMMA NewLinksBound ==
    ASSUME NEW p \in Page, IsFiniteSet(asked), Cardinality(asked) <= MaxLinks + 1
    PROVE  /\ NewLinks(p) \cap asked = {}
           /\ IsFiniteSet(asked \cup NewLinks(p)) /\ Cardinality(asked \cup NewLinks(p)) <= MaxLinks + 1
<1> DEFINE L == Links[p]
           new == {j \in DOMAIN L : L[j] \notin asked}
           J == {k \in new : Cardinality(new \cap 1..k) <= Room(p)}
           before(k) == new \cap 1..k
           f == [k \in J |-> Cardinality(before(k))]
           g == [k \in J |-> L[k]]
<1>1. MaxLinks \in Nat /\ L \in Seq(Page) BY CrawlAssumption
<1>2. Cardinality(asked) \in Nat BY FS_CardinalityType
<1>3. Room(p) \in Nat /\ Cardinality(asked) + Room(p) <= MaxLinks + 1 BY <1>1, <1>2 DEF Room
<1>4. DOMAIN L = 1..Len(L) /\ Len(L) \in Nat BY <1>1, LenProperties
<1>5. NewLinks(p) = {L[k] : k \in J} BY DEF NewLinks
<1>6. NewLinks(p) \cap asked = {} BY <1>5
<1> HIDE DEF L
<1>7. IsFiniteSet(new) /\ new \subseteq Nat \ {0}
  <2>1. IsFiniteSet(1..Len(L)) BY <1>4, FS_Interval
  <2> QED BY <1>4, <2>1, FS_Subset
<1> HIDE DEF new
<1>8. IsFiniteSet(J) BY <1>7, FS_Subset
<1>9. \A k \in J : IsFiniteSet(before(k)) /\ Cardinality(before(k)) \in Nat /\ k \in before(k)
  BY <1>7, FS_Subset, FS_CardinalityType
<1>10. f \in Injection(J, 1..Room(p))
  <2>1. \A k \in J : Cardinality(before(k)) \in 1..Room(p)
    <3> TAKE k \in J
    <3>1. Cardinality(before(k)) # 0 BY <1>9, FS_EmptySet
    <3> QED BY <1>3, <1>9, <3>1
  <2>2. ASSUME NEW k \in J, NEW l \in J, k < l PROVE Cardinality(before(k)) # Cardinality(before(l))
    <3>1. before(k) \subseteq before(l) /\ l \notin before(k) BY <1>7, <2>2
    <3> QED BY <1>9, <3>1, FS_Subset
  <2>3. J \subseteq Nat BY <1>7
  <2> HIDE DEF J, before
  <2>4. \A k, l \in J : f[k] = f[l] => k = l BY <2>2, <2>3
  <2>5. f \in [J -> 1..Room(p)] BY <2>1
  <2> QED BY <2>4, <2>5, Fun_IsInj
<1>11. Cardinality(J) <= Room(p)
  <2>1. IsFiniteSet(1..Room(p)) /\ Cardinality(1..Room(p)) = Room(p) BY <1>3, FS_Interval
  <2> QED BY <1>10, <2>1, FS_Injection
<1> HIDE DEF J
<1>12. g \in Surjection(J, NewLinks(p)) BY <1>5, Fun_IsSurj
<1>13. IsFiniteSet(NewLinks(p)) /\ Cardinality(NewLinks(p)) <= Cardinality(J)
  BY <1>8, <1>12, FS_Surjection
<1>14. Cardinality(NewLinks(p)) \in Nat /\ Cardinality(J) \in Nat BY <1>8, <1>13, FS_CardinalityType
<1>15. /\ IsFiniteSet(asked \cup NewLinks(p))
       /\ Cardinality(asked \cup NewLinks(p)) = Cardinality(asked) + Cardinality(NewLinks(p))
  <2>1. asked \cap NewLinks(p) = {} BY <1>6
  <2> QED BY <1>2, <1>13, <1>14, <2>1, FS_Union, FS_EmptySet
<1> QED BY <1>1, <1>2, <1>3, <1>6, <1>11, <1>13, <1>14, <1>15

\* A step that leaves the walk as it is.
LEMMA WalkStays ==
    ASSUME WalkInv, UNCHANGED <<asked, todo, failed, good, tries, level>>, running' \subseteq running, walk' = walk,
           walk = "root" => (at' = "turn" <=> at = "turn") /\ (at' = "walk" <=> at = "walk"),
           walk = "level" /\ page'.ok /\ at' \in {"extract", "put", "next"}
               => page.ok /\ at \in {"extract", "put", "next"}
    PROVE  WalkInv'
BY DEF WalkInv, FirstLinks

\* The walk is over, or given up.
LEMMA WalkGone ==
    ASSUME WalkInv, UNCHANGED <<asked, good, tries>>, walk' = "gone"
    PROVE  WalkInv'
BY DEF WalkInv

\* Every step of the walker keeps to its limits.
LEMMA WalkKept ==
    ASSUME CrawlTypes, Places, WalkInv, [Next]_vars
    PROVE  WalkInv'
<1> USE DEF crawl, caller, walker, session
<1>1. CASE FetchRoot
  <2>1. /\ walk = "none" /\ walk' = "root" /\ at' = "walk" /\ running' = {Root}
        /\ UNCHANGED <<level, asked, todo, failed, good>>
        /\ tries' = [p \in Page |-> IF p \in {Root} THEN tries[p] + 1 ELSE tries[p]]
    BY <1>1 DEF FetchRoot, Fetches
  <2>2. \A p \in Page : tries'[p] = IF p = Root THEN 1 ELSE 0 BY <2>1 DEF WalkInv
  <2> HIDE DEF WalkInv
  <2> QED BY <2>1, <2>2, CrawlAssumption DEF WalkInv
<1>2. CASE TakeRoot
  <2>1. CASE Breaks BY <2>1, WalkGone DEF Breaks
  <2>2. CASE \E ok \in BOOLEAN :
                /\ Takes(Root, ok) /\ todo' = IF ok THEN FirstLinks ELSE {}
                /\ UNCHANGED <<walk, level, asked, failed, good, tries>>
    <3>1. walk = "root" /\ walk' = "root" /\ at = "walk" /\ at' \in {"extract", "put"} /\ todo' \subseteq FirstLinks
          /\ running' = {} /\ UNCHANGED <<level, asked, failed, good, tries>>
      BY <1>2, <2>2 DEF TakeRoot, Takes
    <3> QED BY <3>1 DEF WalkInv, FirstLinks
  <2> QED BY <1>2, <2>1, <2>2 DEF TakeRoot
<1>3. ASSUME NEW p \in Page, TakePage(p) PROVE WalkInv'
  <2>1. PICK ok \in BOOLEAN :
           /\ Takes(p, ok)
           /\ good' = IF ok THEN good \cup {p} ELSE good
           /\ failed' = IF ok \/ walk # "level" THEN failed ELSE failed \cup {p}
    BY <1>3 DEF TakePage
  <2>2. /\ walk # "root" /\ at = "walk" /\ p \in running /\ running' = running \ {p}
        /\ UNCHANGED <<walk, level, asked, todo, tries>>
    BY <1>3 DEF TakePage
  <2>3. page' = [url |-> p, ok |-> ok] /\ at' \in {"extract", "put"} BY <2>1 DEF Takes
  <2>4. walk \in {"level", "probe", "rescue"} BY <2>2 DEF Places, CrawlTypes
  <2>5. CASE walk = "level"
    <3>1. \A q \in Page : tries[q] <= 1 /\ tries[q] \in Nat BY <2>5 DEF WalkInv, CrawlTypes
    <3>2. ~\E q \in Page : tries[q] = 2 BY <3>1
    <3> QED BY <2>1, <2>2, <2>3, <2>5, <3>2 DEF WalkInv
  <2>6. CASE walk \in {"probe", "rescue"}
    <3>1. tries[p] = 2 BY <2>2, <2>6 DEF WalkInv
    <3> QED BY <2>1, <2>2, <2>3, <2>6, <3>1 DEF WalkInv
  <2> QED BY <2>4, <2>5, <2>6
<1>4. CASE Follow
  <2>1. CASE Breaks BY <1>4, <2>1, WalkGone DEF Follow, Breaks
  <2>2. CASE /\ walk = "level" /\ page.ok /\ asked' = asked \cup NewLinks(page.url)
             /\ todo' = todo \cup NewLinks(page.url) /\ Turn
             /\ UNCHANGED <<walk, level, running, failed, good, browser, tries>>
    <3>1. page.url \in Page /\ at = "next" BY <1>4, <2>2 DEF Places, Follow
    <3>2. /\ NewLinks(page.url) \cap asked = {} /\ NewLinks(page.url) \subseteq Page
          /\ IsFiniteSet(asked') /\ Cardinality(asked') <= MaxLinks + 1
      BY <2>2, <3>1, LinkTypes, NewLinksBound DEF WalkInv
    <3>3. \A p \in NewLinks(page.url) : tries[p] = 0 BY <3>2 DEF WalkInv, CrawlTypes
    <3>4. good # {} BY <2>2, <3>1 DEF WalkInv
    <3> QED BY <2>2, <3>2, <3>3, <3>4 DEF WalkInv, Turn
  <2>3. CASE /\ ~(walk = "level" /\ page.ok /\ level < Depth) /\ asked' = asked \cup todo /\ Turn
             /\ UNCHANGED <<walk, level, running, todo, failed, good, browser, tries>>
    <3>1. CASE walk = "root"
      <4>1. asked = {Root} /\ todo \subseteq FirstLinks /\ running = {}
        BY <1>4, <3>1 DEF WalkInv, Follow
      <4>2. IsFiniteSet(asked') /\ Cardinality(asked') <= MaxLinks + 1
        <5>1. IsFiniteSet(todo) /\ Cardinality(todo) <= MaxLinks /\ Cardinality(todo) \in Nat
          <6>1. IsFiniteSet(FirstLinks) /\ Cardinality(FirstLinks) <= MaxLinks /\ Cardinality(FirstLinks) \in Nat
            BY FirstLinksBound
          <6>2. IsFiniteSet(todo) /\ Cardinality(todo) <= Cardinality(FirstLinks)
            BY <4>1, <6>1, FS_Subset
          <6>3. Cardinality(todo) \in Nat BY <6>2, FS_CardinalityType
          <6> QED BY <6>1, <6>2, <6>3, CrawlAssumption
        <5>2. asked' = todo \cup {Root} BY <2>3, <4>1
        <5>3. IsFiniteSet(todo \cup {Root}) /\ Cardinality(todo \cup {Root}) <= Cardinality(todo) + 1
          BY <5>1, FS_AddElement
        <5>4. Cardinality(todo \cup {Root}) \in Nat BY <5>3, FS_CardinalityType
        <5> QED BY <5>1, <5>2, <5>3, <5>4, CrawlAssumption
      <4>3. todo' \subseteq asked' /\ todo' = todo /\ at' = "turn" BY <2>3 DEF Turn
      <4> QED BY <2>3, <3>1, <4>1, <4>2, <4>3 DEF WalkInv, FirstLinks
    <3>2. CASE walk # "root"
      <4>1. todo \subseteq asked BY <1>4, <3>2 DEF WalkInv, Follow, Places, CrawlTypes
      <4>2. asked' = asked BY <2>3, <4>1
      <4> QED BY <2>3, <3>2, <4>2, WalkStays DEF Turn
    <3> QED BY <3>1, <3>2
  <2> QED BY <1>4, <2>1, <2>2, <2>3 DEF Follow
<1>5. CASE Waits
  <2>1. /\ UNCHANGED <<walk, level, asked, running, todo, failed, good, tries, page>> /\ at = "turn" /\ at' = "walk"
        /\ running # {}
    BY <1>5 DEF Waits
  <2>2. walk # "root" BY <2>1 DEF WalkInv
  <2> QED BY <2>1, <2>2, WalkStays
<1>6. CASE Probe
  <2>1. PICK p \in failed : failed' = failed \ {p} /\ Fetches({p}, "probe") BY <1>6 DEF Probe
  <2>2. walk = "level" /\ good = {} /\ UNCHANGED <<level, asked, todo, good>>
    BY <1>6 DEF Probe, NeedsProbe
  <2>3. todo = {} /\ tries[p] = 1 /\ p \in Page /\ \A q \in failed : tries[q] = 1
    BY <2>2 DEF WalkInv, CrawlTypes
  <2>4. \A q \in Page : tries'[q] = IF q = p THEN 2 ELSE tries[q] BY <2>1, <2>3 DEF Fetches
  <2>5. running' = {p} /\ walk' = "probe" BY <2>1 DEF Fetches
  <2> QED BY <2>1, <2>2, <2>3, <2>4, <2>5 DEF WalkInv, CrawlTypes
<1>7. CASE Rescue
  <2>1. failed' = {} /\ Fetches(failed, "rescue") /\ walk = "probe" /\ UNCHANGED <<level, asked, todo, good>>
    BY <1>7 DEF Rescue, NeedsRescue
  <2>2. todo = {} /\ (\A q \in failed : tries[q] = 1) /\ (\A q \in good : tries[q] = 2)
    BY <2>1 DEF WalkInv
  <2>3. \A q \in Page : tries'[q] = IF q \in failed THEN 2 ELSE tries[q] BY <2>1, <2>2 DEF Fetches
  <2>4. running' = failed /\ walk' = "rescue" BY <2>1 DEF Fetches
  <2> QED BY <2>1, <2>2, <2>3, <2>4 DEF WalkInv, CrawlTypes
<1>8. CASE Descend
  <2>1. /\ todo # {} /\ level' = level + 1 /\ todo' = {} /\ failed' = {} /\ Fetches(todo, "level")
        /\ UNCHANGED <<asked, good>> /\ at = "turn"
    BY <1>8 DEF Descend
  <2>2. walk \in {"root", "level"} BY <2>1 DEF WalkInv, Places, CrawlTypes
  <2>3. /\ todo \subseteq asked /\ \A p \in todo : tries[p] = 0
        /\ \A p \in Page : tries[p] <= 1
    <3>1. CASE walk = "root" BY <2>1, <3>1, FirstLinksBound DEF WalkInv, CrawlTypes
    <3>2. CASE walk = "level" BY <3>2 DEF WalkInv
    <3> QED BY <2>2, <3>1, <3>2
  <2>4. \A p \in Page : tries'[p] = IF p \in todo THEN 1 ELSE tries[p] BY <2>1, <2>3 DEF Fetches
  <2>5. running' = todo /\ walk' = "level" /\ at' = "walk" BY <2>1 DEF Fetches
  <2>6. level' > 0 BY <2>1 DEF CrawlTypes
  <2>7. \A p \in Page : tries'[p] \in Nat /\ tries'[p] <= 1 BY <2>3, <2>4 DEF CrawlTypes
  <2> QED BY <2>1, <2>3, <2>4, <2>5, <2>6, <2>7 DEF WalkInv, CrawlTypes
<1>9. CASE Ends \/ CancelSession BY <1>9, WalkGone DEF Ends, CancelSession
<1>10. CASE Put \/ Extract
  <2>1. UNCHANGED <<walker, page>> BY <1>10, ExtractWays DEF Put, Places, Extract
  <2>2. at \in {"put", "extract"} /\ at' \in {"put", "next", "over"}
    BY <1>10, ExtractWays DEF Put, AfterPut, Places, Extract
  <2> QED BY <2>1, <2>2, WalkStays
<1>11. CASE Reap BY <1>11, WalkGone DEF Reap
<1>12. CASE Begin
  BY <1>12 DEF Begin, WalkInv, Places
<1>13. CASE Refuse \/ Refused \/ Ask \/ Get \/ Timeout \/ Finish \/ Close \/ Closed \/ UNCHANGED vars
  <2>1. UNCHANGED <<walker, page, at>>
    BY <1>13 DEF Refuse, Refused, Ask, Get, Timeout, Finish, Close, Closed, vars
  <2> QED BY <2>1, WalkStays
<1> QED BY <1>1, <1>2, <1>3, <1>4, <1>5, <1>6, <1>7, <1>8, <1>9, <1>10, <1>11, <1>12, <1>13
     DEF Next, Runs, Awaits, Reads

-----------------------------------------------------------------------------
(* The end of a crawl *)

\* The session counts upwards, and leaves the caller alone.
LEMMA SessionAlone ==
    ASSUME CrawlTypes, Places, Runs \/ Awaits \/ Reap \/ CancelSession
    PROVE  UNCHANGED <<crawl, caller>> /\ found' >= found /\ errors' >= errors /\ found' \in Nat
<1> USE DEF CrawlTypes, crawl, caller, session, walker
<1>1. ASSUME NEW s, Puts(s) PROVE found' >= found /\ found' \in Nat BY <1>1 DEF Puts
<1>2. CASE Extract
  <2>1. UNCHANGED <<crawl, caller>> BY <1>2 DEF Extract
  <2>2. errors' >= errors
    <3>1. errors' = errors \/ errors' = errors + 1 BY <1>2, ExtractWays DEF Places, Extract
    <3> QED BY <3>1
  <2>3. \E s : Puts(s) BY <1>2 DEF Extract, Fails
  <2> QED BY <1>1, <2>1, <2>2, <2>3
<1>3. CASE TakeRoot
  <2>1. UNCHANGED <<crawl, caller>> BY <1>3 DEF TakeRoot
  <2>2. ASSUME NEW ok \in BOOLEAN, Takes(Root, ok)
        PROVE  found' >= found /\ errors' >= errors /\ found' \in Nat
    <3>1. CASE ok BY <2>2, <3>1 DEF Takes
    <3>2. CASE ~ok BY <1>1, <2>2, <3>2 DEF Takes
    <3> QED BY <3>1, <3>2
  <2>3. CASE Breaks
    <3>1. errors' = errors + 1 /\ Puts(<<Error, Done(found, errors + 1), Sentinel>>)
      BY <2>3 DEF Breaks
    <3>2. found' >= found /\ found' \in Nat BY <1>1, <3>1
    <3> QED BY <2>1, <3>1, <3>2
  <2> QED BY <1>3, <2>1, <2>2, <2>3 DEF TakeRoot
<1>4. ASSUME NEW p \in Page, TakePage(p) PROVE UNCHANGED <<crawl, caller>> /\ found' >= found /\ errors' >= errors /\ found' \in Nat
  BY <1>1, <1>4 DEF TakePage, Takes
<1>5. CASE Put \/ FetchRoot \/ Waits BY <1>1, <1>5 DEF Put, FetchRoot, Fetches, Waits
<1>6. CASE Follow BY <1>1, <1>6 DEF Follow, Breaks, Turn
<1>7. CASE Probe \/ Rescue \/ Descend BY <1>7 DEF Probe, Rescue, Descend, Fetches
<1>8. CASE Ends \/ Reap \/ CancelSession BY <1>1, <1>8 DEF Ends, Reap, CancelSession
<1> QED BY <1>2, <1>3, <1>4, <1>5, <1>6, <1>7, <1>8 DEF Runs, Awaits

\* Once late, a crawl says no more than its report, which says no less than was told.
LEMMA LateKept ==
    ASSUME CrawlTypes, Places, StreamInv, LateInv, [Next]_vars
    PROVE  LateInv'
<1> USE DEF CrawlTypes, crawl, caller, session, walker
<1>1. Cardinality(told) \in Nat BY CrawlAssumption, FS_Subset, FS_CardinalityType
<1>2. CASE Runs \/ Awaits \/ Reap \/ CancelSession
  <2>1. UNCHANGED <<reader, late, told, complaints, report>> BY <1>2, SessionAlone
  <2>2. found' >= found /\ errors' >= errors /\ found' \in Nat BY <1>2, SessionAlone
  <2>3. errors' \in Nat BY <1>2, RunsTypes, AwaitsTypes, ReadsTypes
  <2> QED BY <1>1, <2>1, <2>2, <2>3 DEF LateInv
<1>3. CASE Timeout
  <2>1. NewOnes /\ Tally /\ ~late BY <1>3 DEF StreamInv, Going, Timeout, LateInv
  <2>2. Cardinality(told) <= found
    <3>1. told \subseteq Given BY DEF Given
    <3> QED BY <2>1, <3>1, GivenType, FS_Subset DEF Tally
  <2>3. errors >= complaints
    <3>1. Count(Pending, "error") \in Nat BY PendingType, CountType
    <3> QED BY <2>1, <3>1 DEF Tally
  <2>4. report = NoReport
    <3>1. walk # "gone" BY <1>3 DEF Timeout, Places
    <3> QED BY <1>3, <3>1 DEF Timeout, StreamInv, Going, Closes
  <2> QED BY <1>1, <1>3, <2>2, <2>3, <2>4 DEF Timeout, LateInv
<1>4. CASE Begin BY <1>4 DEF Begin, LateInv, Places
<1>5. CASE Ask
  <2>1. CASE late BY <1>5, <2>1 DEF Ask, LateInv
  <2>2. CASE ~late BY <1>5, <2>2 DEF Ask, LateInv, Delivers
  <2> QED BY <2>1, <2>2
<1>6. CASE Get BY <1>6 DEF Get, LateInv, Delivers
<1>7. CASE Refuse \/ Refused \/ Finish \/ Close \/ Closed \/ UNCHANGED vars
  BY <1>7 DEF Refuse, Refused, Finish, Close, Closed, vars, LateInv, Places
<1> QED BY <1>2, <1>3, <1>4, <1>5, <1>6, <1>7 DEF Next, Reads

\* A step that leaves no page behind.
LEMMA LostStays ==
    ASSUME LostInv, UNCHANGED <<walk, level>>, errors' = 0 => errors = 0, seen \subseteq seen', Going' => Going,
           \A p \in Due : at = "extract" /\ page.url = p
                              => (at' = "extract" /\ page'.url = p) \/ Magnets[p] \subseteq seen' \/ errors' # 0,
           \A p \in running : p \in running' \/ (at' = "extract" /\ page'.url = p) \/ errors' # 0,
           todo \subseteq todo', walk = "root" /\ at = "walk" => at' = "walk"
    PROVE  LostInv'
BY DEF LostInv, Due, FirstLinks

\* No step leaves a page behind that has not been searched, without an error.
LEMMA LostKept ==
    ASSUME CrawlTypes, Places, WalkInv, LostInv, [Next]_vars
    PROVE  LostInv'
<1> USE DEF crawl, caller, walker, session
<1>0. errors \in Nat /\ errors + 1 # 0 BY DEF CrawlTypes
<1>1. CASE FetchRoot
  <2>1. walk' = "root" /\ at' = "walk" BY <1>1 DEF FetchRoot, Fetches
  <2> QED BY <2>1 DEF LostInv, Due, FirstLinks
<1>2. CASE TakeRoot
  <2>1. CASE Takes(Root, TRUE) /\ todo' = FirstLinks /\ UNCHANGED <<walk, level>>
    <3>1. walk' = "root" /\ level' = 0 /\ at' = "extract" /\ page'.url = Root
      BY <1>2, <2>1 DEF TakeRoot, Takes, WalkInv
    <3> QED BY <2>1, <3>1 DEF LostInv, Due, FirstLinks
  <2>2. CASE Takes(Root, FALSE) \/ Breaks BY <1>0, <2>2 DEF Takes, Breaks, LostInv
  <2> QED BY <1>2, <2>1, <2>2 DEF TakeRoot
<1>3. ASSUME NEW p \in Page, TakePage(p) PROVE LostInv'
  <2>1. /\ at = "walk" /\ walk # "root" /\ p \in running /\ running' = running \ {p}
        /\ UNCHANGED <<walk, level, asked, todo, tries, crawl>>
    BY <1>3 DEF TakePage
  <2>2. CASE Takes(p, TRUE)
    <3>1. at' = "extract" /\ page'.url = p /\ UNCHANGED <<errors, seen>> /\ (Going' => Going)
      BY <2>1, <2>2 DEF Takes, Going
    <3> QED BY <2>1, <3>1, LostStays
  <2>3. CASE Takes(p, FALSE) BY <1>0, <2>3 DEF Takes, LostInv
  <2> QED BY <1>3, <2>2, <2>3 DEF TakePage
<1>4. CASE Follow
  <2>1. CASE Breaks BY <1>0, <2>1 DEF Breaks, LostInv
  <2>2. CASE Turn /\ todo \subseteq todo' /\ UNCHANGED <<walk, level, running, crawl>>
    BY <1>4, <2>2, LostStays DEF Turn, Follow, Going
  <2> QED BY <1>4, <2>1, <2>2 DEF Follow
<1>5. CASE Waits \/ Put
  <2>1. at \in {"turn", "put"} /\ UNCHANGED <<crawl, walk, level, running, todo, errors, seen, page>>
    BY <1>5 DEF Waits, Put
  <2> QED BY <2>1, LostStays DEF Going
<1>6. CASE Probe \/ Rescue \/ Descend \/ Ends
  <2>1. /\ at = "turn" /\ running = {} /\ Going /\ walk \notin {"none", "gone"} /\ UNCHANGED <<errors, seen>>
    BY <1>6 DEF Probe, Rescue, Descend, Ends, Fetches, Going, Places
  <2>2. CASE todo = {} \/ level # 0
    <3>1. errors = 0 => \A p \in Due : Magnets[p] \subseteq seen BY <2>1, <2>2 DEF LostInv
    <3> QED BY <2>1, <3>1 DEF LostInv, Due, FirstLinks
  <2>3. CASE Descend
    <3>1. running' = todo /\ walk' = "level" BY <2>3 DEF Descend, Fetches
    <3>2. errors = 0 => \A p \in Due : Magnets[p] \subseteq seen \/ p \in todo BY <2>1 DEF LostInv
    <3> QED BY <2>1, <3>1, <3>2 DEF LostInv, Due, FirstLinks
  <2>4. CASE Probe \/ Rescue BY <2>2, <2>4 DEF Probe, Rescue, NeedsProbe, NeedsRescue, WalkInv
  <2>5. CASE Ends
    <3>1. todo = {} \/ level # 0 BY <2>5, CrawlAssumption DEF Ends
    <3> QED BY <2>2, <3>1
  <2> QED BY <1>6, <2>3, <2>4, <2>5
<1>7. CASE Extract
  <2>1. /\ at = "extract" /\ UNCHANGED <<crawl, queue, walker, caller, page>>
    BY <1>7 DEF Extract, Fails
  <2>2. page.url \in Page BY <1>7 DEF Places, Extract
  <2>3. errors' = errors + 1 \/ (errors' = errors /\ seen' = seen \cup Magnets[page.url])
    BY <1>7, <2>2, ExtractWays
  <2>4. CASE errors' = errors + 1 BY <1>0, <2>4 DEF LostInv
  <2>5. CASE errors' = errors /\ seen' = seen \cup Magnets[page.url]
    BY <1>7, <2>1, <2>5, LostStays DEF Going
  <2> QED BY <2>3, <2>4, <2>5
<1>8. CASE Reap
  <2>1. walk = "gone" /\ UNCHANGED <<crawl, session, walk, level>> BY <1>8 DEF Reap
  <2> QED BY <2>1 DEF LostInv, Due, FirstLinks, Going
<1>9. CASE CancelSession BY <1>9 DEF CancelSession, LostInv, Going
<1>10. CASE Timeout BY <1>0, <1>10 DEF Timeout, LostInv
<1>11. CASE Begin
  BY <1>11 DEF Begin, LostInv, Places
<1>12. CASE Refuse \/ Refused \/ Ask \/ Get \/ Finish \/ Close \/ Closed \/ UNCHANGED vars
  <2>1. UNCHANGED <<session, walker>> /\ (Going' => Going)
    BY <1>12 DEF Refuse, Refused, Ask, Get, Delivers, Finish, Close, Closed, vars, Going
  <2> QED BY <2>1, LostStays
<1> QED BY <1>1, <1>2, <1>3, <1>4, <1>5, <1>6, <1>7, <1>8, <1>9, <1>10, <1>11, <1>12
     DEF Next, Runs, Awaits, Reads

\* The report finds nothing on its way that has not been given.
LEMMA GivenKept ==
    ASSUME CrawlTypes, Places, StreamInv, LateInv, LostInv, GivenInv, [Next]_vars
    PROVE  GivenInv'
<1> USE DEF CrawlTypes, crawl, caller, session, walker
<1>1. CASE UNCHANGED <<late, caller>> BY <1>1 DEF GivenInv, Due, FirstLinks
<1>2. CASE reader \in {"away", "waits"} /\ ~late /\ queue # <<>> /\ Delivers /\ UNCHANGED late
  <2> DEFINE e == Head(queue)
  <2>1. /\ told \subseteq told' /\ (complaints' = 0 => complaints = 0)
        /\ e.type # "done" => report' = report
    BY <1>2 DEF Delivers
  <2>2. CASE e.type = "done"
    <3>1. errors = complaints /\ seen = told /\ walk = "gone" BY <1>2, <2>2, FirstToCome DEF Going
    <3>2. complaints = 0 => \A p \in Due : Magnets[p] \subseteq told
      BY <1>2, <3>1 DEF LostInv, Going
    <3> QED BY <2>1, <3>2 DEF GivenInv, Due, FirstLinks
  <2>3. CASE e.type # "done" BY <1>2, <2>1, <2>3 DEF GivenInv, Due, FirstLinks
  <2> QED BY <2>2, <2>3
<1>3. CASE Refuse \/ Refused \/ Timeout \/ Finish
  BY <1>3 DEF Refuse, Refused, Timeout, Finish, GivenInv, LateInv, Places
<1>4. CASE Runs \/ Awaits \/ Reap \/ CancelSession BY <1>1, <1>4, SessionAlone
<1>5. CASE Ask \/ Get BY <1>1, <1>2, <1>5 DEF Ask, Get, LateInv
<1>6. CASE Begin \/ Close \/ Closed \/ UNCHANGED vars BY <1>1, <1>6 DEF Begin, Close, Closed, vars
<1> QED BY <1>3, <1>4, <1>5, <1>6 DEF Next, Reads

\* The session counts no more magnets than there are.
LEMMA FoundBoundKept ==
    ASSUME CrawlTypes, Places, StreamInv, LateInv, FoundBound, [Next]_vars
    PROVE  FoundBound'
<1>1. CrawlTypes' /\ StreamInv'
  <2>1. CrawlTypes' BY AwaitsTypes, RunsTypes, ReadsTypes DEF Next
  <2> QED BY <2>1, StreamKept
<1>2. CASE Going'
  <2>1. found' = Cardinality(Given') BY <1>1, <1>2 DEF StreamInv, Tally
  <2>2. /\ told' \subseteq Hash /\ queue' \in Seq(Event) /\ out' \in Seq(Event)
    BY <1>1 DEF CrawlTypes
  <2>3. Hashes(queue') \subseteq Hash BY <2>2, HashesType
  <2>4. out' # <<>> => Head(out') \in Event BY <2>2, HeadTailProperties
  <2>5. Given' \subseteq Hash BY <2>2, <2>3, <2>4, EventTypes DEF Given
  <2> QED BY <2>1, <2>5, CrawlAssumption, FS_Subset DEF FoundBound
<1>3. CASE ~Going'
  <2>0. at' = "over" BY <1>3 DEF Going
  <2>1. CASE Put
    <3>1. Tail(out) = <<>> BY <2>0, <2>1 DEF Put, AfterPut
    <3>2. found' = found BY <2>1, <3>1, PutMoves
    <3> QED BY <3>2 DEF FoundBound
  <2>2. ~(FetchRoot \/ Waits \/ Probe \/ Rescue \/ Descend \/ Ends \/ Begin)
    BY <2>0 DEF FetchRoot, Waits, Probe, Rescue, Descend, Ends, Fetches, Begin
  <2>3. ~Follow BY <2>0 DEF Follow, Breaks, Turn
  <2>4. ~Extract BY <2>0, ExtractWays DEF Places, Extract
  <2>5. ASSUME NEW p, NEW ok \in BOOLEAN, Takes(p, ok) PROVE FALSE BY <2>0, <2>5 DEF Takes
  <2>6. ~TakeRoot BY <2>0, <2>5 DEF TakeRoot, Breaks
  <2>7. ASSUME NEW p \in Page, TakePage(p) PROVE FALSE BY <2>5, <2>7 DEF TakePage
  <2>8. CASE Reap \/ CancelSession \/ Refuse \/ Refused \/ Ask \/ Get \/ Timeout \/ Finish \/ Close \/ Closed \/ UNCHANGED vars
    <3>1. found' = found
      BY <2>8
         DEF Reap, CancelSession, Refuse, Refused, Ask, Get, Timeout, Finish, Close, Closed, vars,
            session
    <3> QED BY <3>1 DEF FoundBound
  <2> QED BY <2>1, <2>2, <2>3, <2>4, <2>6, <2>7, <2>8 DEF Next, Runs, Awaits, Reads
<1> QED BY <1>2, <1>3

-----------------------------------------------------------------------------
(* What an error says, and a crawl that finds nothing *)

\* What the session does to the events to come: it puts a page without a magnet only if it has
\* searched one.
LEMMA BarrenComes ==
    ASSUME CrawlTypes, Places, [Next]_vars, NEW i \in DOMAIN Pending', Pending'[i] = NoMagnet
    PROVE  \/ \E j \in DOMAIN Pending : Pending[j] = NoMagnet
           \/ at = "extract" /\ Magnets[page.url] = {}
<1> USE DEF CrawlTypes, crawl, caller, session, walker
<1>1. CASE UNCHANGED <<queue, out>> BY <1>1 DEF Pending
<1>2. CASE Put BY <1>2, PutMoves
<1>3. ASSUME Delivers, queue # <<>>, out' = out PROVE \E j \in DOMAIN Pending : Pending[j] = NoMagnet
  <2>1. Pending \in Seq(Event) /\ Pending # <<>> /\ Pending' = Tail(Pending)
    BY <1>3, PendingType, DeliversMoves
  <2> QED BY <2>1, OfTail
<1>4. ASSUME NEW s \in Seq(Event), out = <<>>, out' = s, queue' = queue,
             \A j \in DOMAIN s : s[j] # NoMagnet
      PROVE  \E j \in DOMAIN Pending : Pending[j] = NoMagnet
  <2>1. Pending = queue /\ Pending' = queue \o s BY <1>4, ConcatEmptySeq DEF Pending
  <2>2. /\ \A j \in DOMAIN queue : (queue \o s)[j] = queue[j]
        /\ \A j \in DOMAIN s : (queue \o s)[Len(queue) + j] = s[j]
        /\ \A j \in DOMAIN (queue \o s) :
              j \in DOMAIN queue \/ (j > Len(queue) /\ j - Len(queue) \in DOMAIN s)
    BY OfConcat
  <2>3. CASE i \in DOMAIN queue BY <2>1, <2>2, <2>3
  <2>4. CASE i - Len(queue) \in DOMAIN s
    <3>1. Len(queue) \in Nat /\ i \in Nat BY <2>1, OfConcat, LenProperties
    <3>2. Len(queue) + (i - Len(queue)) = i BY <3>1
    <3>3. (queue \o s)[i] = s[i - Len(queue)] BY <2>2, <2>4, <3>2
    <3> QED BY <1>4, <2>1, <2>4, <3>3
  <2> QED BY <2>1, <2>2, <2>3, <2>4
<1>5. /\ Error \in Event /\ Error # NoMagnet /\ Progress \in Event /\ Progress # NoMagnet
      /\ Sentinel \in Event /\ Sentinel # NoMagnet
      /\ \A t, e \in Nat : Done(t, e) \in Event /\ Done(t, e) # NoMagnet
  <2>1. /\ Error \in Event /\ Progress \in Event /\ Sentinel \in Event
        /\ \A t, e \in Nat : Done(t, e) \in Event
    BY EventTypes
  <2>2. Error.reason # NoMagnet.reason /\ Progress.type # NoMagnet.type /\ Sentinel.type # NoMagnet.type
    BY EventTypes
  <2>3. \A t, e \in Nat : Done(t, e).type # NoMagnet.type BY EventTypes
  <2> QED BY <2>1, <2>2, <2>3
<1>6. ASSUME Puts(<<Error>>) \/ Puts(<<Progress>>), out = <<>>, queue' = queue
      PROVE  \E j \in DOMAIN Pending : Pending[j] = NoMagnet
  <2>1. \A e \in Event : <<e>> \in Seq(Event) /\ DOMAIN <<e>> = {1} /\ <<e>>[1] = e BY ShortSeqs
  <2>2. out' = <<Error>> \/ out' = <<Progress>> BY <1>6 DEF Puts
  <2>3. CASE out' = <<Error>> BY <1>4, <1>5, <1>6, <2>1, <2>3
  <2>4. CASE out' = <<Progress>> BY <1>4, <1>5, <1>6, <2>1, <2>4
  <2> QED BY <2>2, <2>3, <2>4
<1>7. ASSUME Breaks, out = <<>>, queue' = queue PROVE \E j \in DOMAIN Pending : Pending[j] = NoMagnet
  <2> DEFINE d == Done(found, errors + 1)
             s == <<Error, d, Sentinel>>
  <2>1. d \in Event /\ d # NoMagnet BY <1>5
  <2>2. out' = s BY <1>7 DEF Breaks, Puts
  <2> HIDE DEF d
  <2>3. s \in Seq(Event) /\ DOMAIN s = {1, 2, 3} /\ s[1] = Error /\ s[2] = d /\ s[3] = Sentinel
    BY <1>5, <2>1, ShortSeqs
  <2> HIDE DEF s
  <2>4. \A j \in DOMAIN s : s[j] # NoMagnet BY <1>5, <2>1, <2>3
  <2> QED BY <1>4, <1>7, <2>2, <2>3, <2>4
<1>8. CASE Ends
  <2> DEFINE d == Done(found, errors)
             s == <<d, Sentinel>>
  <2>1. d \in Event /\ d # NoMagnet BY <1>5
  <2>2. out' = s /\ out = <<>> /\ queue' = queue BY <1>8 DEF Ends, Puts, Places
  <2> HIDE DEF d
  <2>3. s \in Seq(Event) /\ DOMAIN s = {1, 2} /\ s[1] = d /\ s[2] = Sentinel BY <1>5, <2>1, ShortSeqs
  <2> HIDE DEF s
  <2>4. \A j \in DOMAIN s : s[j] # NoMagnet BY <1>5, <2>1, <2>3
  <2> QED BY <1>4, <2>2, <2>3, <2>4
<1>9. CASE Extract
  <2>1. at = "extract" /\ out = <<>> /\ queue' = queue /\ page.url \in Page
    BY <1>9 DEF Extract, Places
  <2>2. CASE Puts(<<Error>>) BY <1>6, <2>1, <2>2
  <2>3. CASE Puts(Searched(page.url))
    <3>1. Searched(page.url) \in Seq(Event) BY <2>1, SearchedFacts
    <3>2. out' = Searched(page.url) BY <2>3, <3>1 DEF Puts
    <3>3. CASE Barren(page.url) BY <2>1, <3>3 DEF Barren
    <3>4. CASE ~Barren(page.url)
      <4>1. Of(Searched(page.url), "error") = {} BY <2>1, <3>4, SearchedFacts
      <4>2. \A j \in DOMAIN Searched(page.url) : Searched(page.url)[j] # NoMagnet
        BY <4>1, EventTypes DEF Of
      <4> QED BY <1>4, <2>1, <3>1, <3>2, <4>2
    <3> QED BY <3>3, <3>4
  <2> QED BY <1>9, <2>1, <2>2, <2>3, ExtractWays
<1>10. CASE CancelSession
  <2>1. Pending' = queue BY <1>10, ConcatEmptySeq DEF CancelSession, Pending
  <2>2. \A j \in DOMAIN queue : j \in DOMAIN Pending /\ Pending[j] = queue[j] BY OfConcat DEF Pending
  <2> QED BY <2>1, <2>2
<1>11. CASE TakeRoot
  <2>1. at = "walk" /\ out = <<>> /\ queue' = queue BY <1>11 DEF TakeRoot, Places
  <2>2. Breaks \/ Puts(<<Error>>) \/ UNCHANGED out BY <1>11 DEF TakeRoot, Takes
  <2> QED BY <1>1, <1>6, <1>7, <2>1, <2>2
<1>12. ASSUME NEW p \in Page, TakePage(p) PROVE \E j \in DOMAIN Pending : Pending[j] = NoMagnet
  <2>1. at = "walk" /\ out = <<>> /\ queue' = queue BY <1>12 DEF TakePage, Places
  <2>2. Puts(<<Error>>) \/ UNCHANGED out BY <1>12 DEF TakePage, Takes
  <2> QED BY <1>1, <1>6, <2>1, <2>2
<1>13. CASE Follow
  <2>1. at = "next" /\ out = <<>> /\ queue' = queue BY <1>13 DEF Follow, Places
  <2>2. Breaks \/ UNCHANGED out BY <1>13 DEF Follow, Turn
  <2> QED BY <1>1, <1>7, <2>1, <2>2
<1>14. CASE Begin
  <2>1. out = <<>> /\ queue' = queue /\ Puts(<<Progress>>) BY <1>14 DEF Begin, Places
  <2> QED BY <1>6, <2>1
<1>15. CASE FetchRoot \/ Waits \/ Probe \/ Rescue \/ Descend \/ Reap
  <2>1. UNCHANGED <<queue, out>>
    BY <1>15 DEF FetchRoot, Waits, Probe, Rescue, Descend, Reap, Fetches
  <2> QED BY <1>1, <2>1
<1>16. CASE Refuse \/ Refused \/ Timeout \/ Finish \/ Close \/ Closed \/ UNCHANGED vars
  <2>1. UNCHANGED <<queue, out>>
    BY <1>16 DEF Refuse, Refused, Timeout, Finish, Close, Closed, vars
  <2> QED BY <1>1, <2>1
<1>17. CASE Ask \/ Get BY <1>1, <1>3, <1>17 DEF Ask, Get
<1> QED BY <1>2, <1>8, <1>9, <1>10, <1>11, <1>12, <1>13, <1>14, <1>15, <1>16, <1>17
     DEF Next, Runs, Awaits, Reads

\* What has been fetched stays fetched.
LEMMA TriesGrow ==
    ASSUME CrawlTypes, [Next]_vars
    PROVE  /\ \A p \in Page : tries[p] > 0 => tries'[p] > 0
           /\ BarrenTried => BarrenTried'
<1> USE DEF CrawlTypes, crawl, caller, session, walker
<1>1. \A p \in Page : tries[p] > 0 => tries'[p] > 0
  <2>1. ASSUME NEW pages, NEW where, Fetches(pages, where)
        PROVE  \A p \in Page : tries[p] > 0 => tries'[p] > 0
    BY <2>1 DEF Fetches
  <2>2. CASE FetchRoot BY <2>1, <2>2 DEF FetchRoot
  <2>3. CASE Probe BY <2>1, <2>3 DEF Probe
  <2>4. CASE Rescue BY <2>1, <2>4 DEF Rescue
  <2>5. CASE Descend BY <2>1, <2>5 DEF Descend
  <2>6. CASE UNCHANGED tries BY <2>6
  <2>7. Put \/ Follow \/ Waits \/ Ends \/ Reap \/ CancelSession \/ Extract \/ TakeRoot \/ UNCHANGED vars
           => UNCHANGED tries
    BY DEF Put, Follow, Breaks, Waits, Ends, Reap, CancelSession, Extract, TakeRoot, vars
  <2>8. \A p \in Page : TakePage(p) => UNCHANGED tries BY DEF TakePage
  <2>9. Reads \/ Close \/ Closed => UNCHANGED tries
    BY DEF Reads, Refuse, Refused, Begin, Ask, Get, Timeout, Finish, Close, Closed
  <2> QED BY <2>2, <2>3, <2>4, <2>5, <2>6, <2>7, <2>8, <2>9 DEF Next, Runs, Awaits
<1> QED BY <1>1 DEF BarrenTried

\* No step says of the pages what is not so.
LEMMA BarrenKept ==
    ASSUME CrawlTypes, Places, BarrenInv, [Next]_vars
    PROVE  BarrenInv'
<1> USE DEF CrawlTypes, crawl, caller, session, walker
<1>1. (\E i \in DOMAIN Pending' : Pending'[i] = NoMagnet) => BarrenTried'
  <2> SUFFICES ASSUME NEW i \in DOMAIN Pending', Pending'[i] = NoMagnet PROVE BarrenTried'
    OBVIOUS
  <2>1. CASE \E j \in DOMAIN Pending : Pending[j] = NoMagnet
    BY <2>1, TriesGrow DEF BarrenInv
  <2>2. CASE at = "extract" /\ Magnets[page.url] = {}
    <3>1. page.url \in Page /\ tries[page.url] > 0 BY <2>2 DEF BarrenInv, Places
    <3>2. BarrenTried BY <2>2, <3>1 DEF BarrenTried
    <3> QED BY <3>2, TriesGrow
  <2> QED BY <2>1, <2>2, BarrenComes
<1>2. /\ walk' = "root" => tries'[Root] > 0
      /\ \A p \in running' : tries'[p] > 0
      /\ at' = "extract" => tries'[page'.url] > 0
  <2>0. \A p \in Page : tries[p] > 0 => tries'[p] > 0 BY TriesGrow
  <2>1. ASSUME NEW pages \in SUBSET Page, NEW where, Fetches(pages, where), where = "root" => Root \in pages
        PROVE <1>2!1 /\ <1>2!2 /\ <1>2!3
    BY <2>1, CrawlAssumption DEF Fetches
  <2>2. CASE FetchRoot
    <3>1. Fetches({Root}, "root") /\ {Root} \in SUBSET Page BY <2>2, CrawlAssumption DEF FetchRoot
    <3> QED BY <2>1, <3>1
  <2>3. CASE Probe \/ Rescue \/ Descend BY <2>1, <2>3 DEF Probe, Rescue, Descend
  <2>4. CASE TakeRoot
    <3>1. walk = "root" /\ running' = {} /\ tries[Root] > 0 BY <2>4 DEF TakeRoot, BarrenInv
    <3>2. Root \in Page BY CrawlAssumption
    <3>3. \A ok \in BOOLEAN : Takes(Root, ok) => page'.url = Root BY DEF Takes
    <3>4. Breaks => at' # "extract" BY DEF Breaks
    <3>5. (\E ok \in BOOLEAN : Takes(Root, ok)) \/ Breaks BY <2>4 DEF TakeRoot
    <3>6. at' = "extract" => page'.url = Root BY <3>3, <3>4, <3>5
    <3> QED BY <2>0, <3>1, <3>2, <3>6
  <2>5. ASSUME NEW p \in Page, TakePage(p) PROVE <1>2!1 /\ <1>2!2 /\ <1>2!3
    <3>1. p \in running /\ running' = running \ {p} /\ UNCHANGED <<walk, tries>> BY <2>5 DEF TakePage
    <3>2. at' = "extract" => page'.url = p BY <2>5 DEF TakePage, Takes
    <3> QED BY <3>1, <3>2 DEF BarrenInv
  <2>6. ASSUME UNCHANGED tries, running' \subseteq running, walk' = "root" => walk = "root",
               at' = "extract" => at = "extract" /\ UNCHANGED page
        PROVE <1>2!1 /\ <1>2!2 /\ <1>2!3
    BY <2>6 DEF BarrenInv
  <2>7. CASE Extract
    <3>1. UNCHANGED <<tries, running, walk>> /\ at' # "extract"
      BY <2>7, ExtractWays DEF Extract, Places
    <3> QED BY <2>6, <3>1
  <2>8. CASE Put \/ Follow \/ Waits \/ Ends \/ Reap \/ CancelSession \/ UNCHANGED vars
    BY <2>6, <2>8 DEF Put, AfterPut, Follow, Breaks, Turn, Waits, Ends, Reap, CancelSession, vars
  <2>9. CASE Reads \/ Close \/ Closed
    BY <2>6, <2>9 DEF Reads, Refuse, Refused, Begin, Ask, Get, Timeout, Finish, Close, Closed
  <2> QED BY <2>2, <2>3, <2>4, <2>5, <2>7, <2>8, <2>9 DEF Next, Runs, Awaits
<1> QED BY <1>1, <1>2 DEF BarrenInv

\* A step that leaves a session that has found nothing with as much to search.
LEMMA QuietStays ==
    ASSUME QuietInv, UNCHANGED <<walk, level>>, errors' = 0 => errors = 0, seen' = {} => seen = {}, Going' => Going,
           todo' # todo => level < Depth,
           at = "extract" \/ running # {} \/ todo # {}
               => at' = "extract" \/ running' # {} \/ todo' # {} \/ seen' # {} \/ errors' # 0
    PROVE  QuietInv'
BY DEF QuietInv

\* No session is done without a magnet and without an error.
LEMMA QuietKept ==
    ASSUME CrawlTypes, Places, WalkInv, LateInv, QuietInv, [Next]_vars
    PROVE  QuietInv'
<1> USE DEF crawl, caller, walker, session
<1>0. errors \in Nat /\ errors + 1 # 0 /\ level \in Nat /\ Depth \in Nat \ {0}
  BY CrawlAssumption DEF CrawlTypes
<1>1. CASE FetchRoot
  <2>1. running' = {Root} /\ walk' = "root" /\ UNCHANGED <<todo, level>> BY <1>1 DEF FetchRoot, Fetches
  <2> QED BY <2>1 DEF QuietInv
<1>2. ASSUME errors' = errors + 1, todo' # {} => level' < Depth PROVE QuietInv'
  BY <1>0, <1>2 DEF QuietInv
<1>3. CASE TakeRoot
  <2>1. level = 0 /\ level' = level BY <1>3 DEF TakeRoot, Breaks, WalkInv
  <2>2. level' < Depth BY <1>0, <2>1
  <2>3. CASE Takes(Root, TRUE) /\ UNCHANGED walk
    <3>1. at' = "extract" /\ walk' = "root" BY <1>3, <2>3 DEF TakeRoot, Takes
    <3> QED BY <2>2, <3>1 DEF QuietInv
  <2>4. CASE Takes(Root, FALSE) \/ Breaks
    <3>1. errors' = errors + 1 BY <2>4 DEF Takes, Breaks
    <3> QED BY <1>2, <2>2, <3>1
  <2> QED BY <1>3, <2>3, <2>4 DEF TakeRoot
<1>4. ASSUME NEW p \in Page, TakePage(p) PROVE QuietInv'
  <2>1. at = "walk" /\ UNCHANGED <<walk, level, todo, crawl>> BY <1>4 DEF TakePage
  <2>2. CASE Takes(p, TRUE)
    <3>1. at' = "extract" /\ UNCHANGED <<errors, seen>> /\ (Going' => Going)
      BY <2>1, <2>2 DEF Takes, Going
    <3> QED BY <2>1, <3>1, QuietStays
  <2>3. CASE Takes(p, FALSE)
    <3>1. errors' = errors + 1 BY <2>3 DEF Takes
    <3> QED BY <1>2, <2>1, <3>1 DEF QuietInv
  <2> QED BY <1>4, <2>2, <2>3 DEF TakePage
<1>5. CASE Extract
  <2>1. /\ at = "extract" /\ UNCHANGED <<crawl, walk, level, todo, running>> /\ page.url \in Page
    BY <1>5 DEF Extract, Places
  <2>2. CASE errors' = errors + 1 BY <1>2, <2>1, <2>2 DEF QuietInv
  <2>3. CASE errors' = errors /\ seen' = seen \cup Magnets[page.url] /\ ~Barren(page.url)
    <3>1. Going' => Going BY <2>1 DEF Going
    <3>2. Magnets[page.url] # {} \/ todo # {} BY <2>3 DEF Barren
    <3>3. seen' # {} \/ todo' # {} BY <2>1, <2>3, <3>2
    <3> QED BY <2>1, <2>3, <3>1, <3>3, QuietStays
  <2>4. \/ errors' = errors + 1
        \/ errors' = errors /\ seen' = seen \cup Magnets[page.url] /\ ~Barren(page.url)
    BY <1>5, <2>1, ExtractWays
  <2> QED BY <2>2, <2>3, <2>4
<1>6. CASE Follow
  <2>1. CASE Breaks
    <3>1. errors' = errors + 1 /\ UNCHANGED <<todo, level>> BY <2>1 DEF Breaks
    <3> QED BY <1>2, <3>1 DEF QuietInv
  <2>2. CASE Turn /\ UNCHANGED <<walk, level, running, crawl>>
    <3>1. UNCHANGED <<errors, seen>> /\ (Going' => Going) /\ at # "extract"
      BY <1>6, <2>2 DEF Turn, Follow, Going
    <3>2. todo' = todo \/ (level < Depth /\ todo \subseteq todo') BY <1>6, <2>2 DEF Follow, Breaks
    <3> QED BY <2>2, <3>1, <3>2, QuietStays
  <2> QED BY <1>6, <2>1, <2>2 DEF Follow
<1>7. CASE Put \/ Waits
  <2>1. at \in {"put", "turn"} /\ UNCHANGED <<crawl, walk, level, todo, running, errors, seen>>
    BY <1>7 DEF Put, Waits
  <2> QED BY <2>1, QuietStays DEF Going
<1>8. CASE Probe \/ Rescue
  <2>1. /\ running' # {} /\ walk' \in {"probe", "rescue"} /\ UNCHANGED <<todo, level>>
    BY <1>8 DEF Probe, Rescue, NeedsRescue, Fetches
  <2> QED BY <2>1 DEF QuietInv
<1>9. CASE Descend
  <2>1. running' # {} /\ todo' = {} /\ walk' = "level" BY <1>9 DEF Descend, Fetches
  <2> QED BY <2>1 DEF QuietInv
<1>10. CASE Ends
  <2>1. /\ at = "turn" /\ running = {} /\ UNCHANGED <<todo, level, errors, seen>>
        /\ walk # "none" /\ Going
    BY <1>10 DEF Ends, Places, Going
  <2>2. todo = {} \/ ~(level < Depth) BY <1>0, <1>10 DEF Ends
  <2> QED BY <2>1, <2>2 DEF QuietInv
<1>11. CASE Reap
  <2>1. walk = "gone" /\ UNCHANGED <<crawl, session, walk, level, todo>> BY <1>11 DEF Reap
  <2> QED BY <2>1 DEF QuietInv, Going
<1>12. CASE CancelSession BY <1>12 DEF CancelSession, QuietInv, Going
<1>13. CASE Timeout
  <2>1. errors' = errors + 1 /\ UNCHANGED <<todo, level>> BY <1>13 DEF Timeout
  <2> QED BY <1>2, <2>1 DEF QuietInv
<1>14. CASE Begin
  <2>1. walk' = "none" /\ UNCHANGED <<todo, level>> BY <1>14 DEF Begin, Places
  <2> QED BY <2>1 DEF QuietInv
<1>15. CASE Refuse \/ Refused \/ Ask \/ Get \/ Finish \/ Close \/ Closed \/ UNCHANGED vars
  <2>1. UNCHANGED <<session, walker>> /\ (Going' => Going)
    BY <1>15 DEF Refuse, Refused, Ask, Get, Delivers, Finish, Close, Closed, vars, Going
  <2> QED BY <2>1, QuietStays
<1> QED BY <1>1, <1>3, <1>4, <1>5, <1>6, <1>7, <1>8, <1>9, <1>10, <1>11, <1>12, <1>13, <1>14, <1>15
     DEF Next, Runs, Awaits, Reads

\* The caller of a crawl that took too long was told so.
LEMMA TimeoutToldKept ==
    ASSUME CrawlTypes, Places, TimeoutTold, [Next]_vars
    PROVE  TimeoutTold'
<1> USE DEF CrawlTypes, crawl, caller, session, walker
<1>1. CASE Runs \/ Awaits \/ Reap \/ CancelSession
  BY <1>1, SessionAlone DEF TimeoutTold
<1>2. CASE Timeout BY <1>2 DEF Timeout, TimeoutTold
<1>3. CASE Ask \/ Get
  <2>1. UNCHANGED late BY <1>3 DEF Ask, Get
  <2>2. Delivers => complaints' = complaints + 1 \/ UNCHANGED complaints BY DEF Delivers
  <2>3. complaints' = complaints + 1 \/ UNCHANGED complaints BY <1>3, <2>2 DEF Ask, Get
  <2>4. complaints > 0 => complaints' > 0 BY <2>3
  <2> QED BY <2>1, <2>4 DEF TimeoutTold
<1>4. CASE Refuse
  <2>1. complaints' = 1 BY <1>4 DEF Refuse
  <2> QED BY <2>1 DEF TimeoutTold
<1>5. CASE Refused \/ Begin \/ Finish \/ Close \/ Closed \/ UNCHANGED vars
  <2>1. UNCHANGED <<late, complaints>> BY <1>5 DEF Refused, Begin, Finish, Close, Closed, vars
  <2> QED BY <2>1 DEF TimeoutTold
<1> QED BY <1>1, <1>2, <1>3, <1>4, <1>5 DEF Next, Reads

\* When the caller is given the end of the events, it has been given a magnet or an error.
LEMMA LastToCome ==
    ASSUME CrawlTypes, StreamInv, QuietInv, Places, Going, ~late, queue # <<>>, Head(queue) = Sentinel
    PROVE  told # {} \/ complaints > 0
<1> USE DEF CrawlTypes
<1>1. NewOnes /\ Tally /\ Closes BY DEF StreamInv
<1>2. Pending \in Seq(Event) BY PendingType
<1>3. 1 \in DOMAIN Pending /\ Pending[1] = Sentinel
  <2>1. Head(queue) = queue[1] /\ 1 \in DOMAIN queue BY OfTail
  <2> QED BY <2>1, OfConcat DEF Pending
<1>4. Sentinel.type = "none" BY EventTypes
<1>5. walk = "gone" /\ Len(Pending) = 1 BY <1>1, <1>3, <1>4 DEF Closes, Of
<1>6. DOMAIN Pending = {1} BY <1>2, <1>5, LenProperties
<1>7. Of(Pending, "found") = {} /\ Of(Pending, "error") = {} BY <1>3, <1>4, <1>6 DEF Of
<1>8. Hashes(Pending) = {} /\ Count(Pending, "error") = 0 BY <1>2, <1>7, CountType DEF Hashes
<1>9. seen = told BY <1>1, <1>8 DEF NewOnes
<1>10. errors = complaints BY <1>1, <1>8 DEF Tally
<1>11. errors # 0 \/ seen # {} BY <1>5 DEF QuietInv
<1> QED BY <1>9, <1>10, <1>11

-----------------------------------------------------------------------------
(* The crawl, from its beginning *)

\* The invariant of the crawl holds at the beginning,
LEMMA CrawlBegins ==
    ASSUME Init
    PROVE  CrawlInv
<1> USE CrawlAssumption DEF Init
<1>1. CrawlTypes
  <2>1. <<>> \in Seq(Event) /\ Len(<<>>) = 0 BY ShortSeqs, EmptySeq
  <2>2. queue \in Seq(Event) /\ Len(queue) <= QueueSize /\ out \in Seq(Event) BY <2>1
  <2>3. page \in [url : Page \cup {NoPage}, ok : BOOLEAN] /\ tries \in [Page -> Nat] /\ level \in 0..Depth OBVIOUS
  <2>4. reader = "start" /\ late = FALSE /\ at = "over" /\ walk = "none" /\ browser = FALSE OBVIOUS
  <2>5. found = 0 /\ errors = 0 /\ complaints = 0 /\ report = NoReport OBVIOUS
  <2>6. /\ seen \subseteq Hash /\ told \subseteq Hash /\ asked \subseteq Page /\ running \subseteq Page
        /\ todo \subseteq Page /\ failed \subseteq Page /\ good \subseteq Page
    OBVIOUS
  <2> QED BY <2>2, <2>3, <2>4, <2>5, <2>6 DEF CrawlTypes
<1>2. DOMAIN out = {} BY EmptySeq
<1>3. Places BY <1>2 DEF Places
<1>4. WalkInv
  <2>1. IsFiniteSet({Root}) /\ Cardinality({Root}) = 1 BY FS_Singleton
  <2> QED BY <2>1 DEF WalkInv
<1>5. StreamInv
  <2>1. Pending = <<>> BY ConcatEmptySeq, EmptySeq DEF Pending
  <2>2. Of(<<>>, "found") = {} /\ Of(<<>>, "error") = {} /\ Of(<<>>, "none") = {} /\ Of(<<>>, "done") = {}
    BY OfShort
  <2>3. Hashes(<<>>) = {} /\ Count(<<>>, "error") = 0
    BY <2>2, FS_EmptySet DEF Hashes, Count
  <2>4. Given = {} BY <2>3 DEF Given
  <2>5. found = Cardinality(Given) BY <2>4, FS_EmptySet
  <2>6. NewOnes BY <2>1, <2>2, <2>3 DEF NewOnes
  <2>7. Tally BY <2>1, <2>3, <2>5 DEF Tally
  <2>8. Closes BY <2>1, <2>2 DEF Closes
  <2> QED BY <2>6, <2>7, <2>8 DEF StreamInv
<1>6. FoundBound
  <2>1. Cardinality(Hash) \in Nat BY FS_CardinalityType
  <2> QED BY <2>1 DEF FoundBound
<1>7. BarrenInv
  <2>1. Pending = <<>> BY ConcatEmptySeq, EmptySeq DEF Pending
  <2>2. walk # "root" /\ running = {} /\ at # "extract" OBVIOUS
  <2> QED BY <1>2, <2>1, <2>2 DEF BarrenInv
<1>8. QuietInv /\ TimeoutTold BY DEF QuietInv, TimeoutTold
<1> QED BY <1>1, <1>3, <1>4, <1>5, <1>6, <1>7, <1>8 DEF CrawlInv, LateInv, LostInv, GivenInv

\* and every step keeps it.
LEMMA CrawlKept ==
    ASSUME CrawlInv, [Next]_vars
    PROVE  CrawlInv'
<1>1. CrawlTypes' /\ Places' BY AwaitsTypes, RunsTypes, ReadsTypes DEF CrawlInv, Next
<1>2. StreamInv' /\ WalkInv' /\ LateInv' BY StreamKept, WalkKept, LateKept DEF CrawlInv
<1>3. LostInv' /\ GivenInv' /\ FoundBound' BY LostKept, GivenKept, FoundBoundKept DEF CrawlInv
<1>4. BarrenInv' /\ QuietInv' /\ TimeoutTold' BY BarrenKept, QuietKept, TimeoutToldKept DEF CrawlInv
<1> QED BY <1>1, <1>2, <1>3, <1>4 DEF CrawlInv

\* A step of the job is a step of its crawl, or leaves it alone.
LEMMA JobStepsCrawl ==
    ASSUME [JobNext]_jobVars
    PROVE  [Next]_vars
<1> USE DEF crawling, vars
<1>2. CASE Listen \/ Leave \/ CrawlRuns \/ CrawlIsAnswered
  BY <1>2 DEF Listen, Leave, CrawlRuns, CrawlIsAnswered, Next
<1>3. CASE Announced \/ Duplicate \/ Look \/ Add \/ Known \/ Compute \/ Claim \/ Classify \/ Finishes \/ Over
  BY <1>3 DEF Announced, Duplicate, Look, Add, Known, Compute, Claim, Classify, Finishes, Over
<1>4. CASE TimesOut \/ Keep \/ Handled \/ ClassifierRaises \/ Raises \/ Cancel \/ Reload \/ Clear
  BY <1>4 DEF TimesOut, Keep, Handled, ClassifierRaises, Raises, Cancel, Reload, Clear
<1>5. ASSUME NEW h \in Hash, Taken(h) \/ Removed(h) PROVE UNCHANGED vars BY <1>5 DEF Taken, Removed
<1>6. CASE UNCHANGED jobVars BY <1>6 DEF jobVars
<1> QED BY <1>2, <1>3, <1>4, <1>5, <1>6 DEF JobNext, InTime, Handles

\* The crawl of a job is a crawl.
LEMMA JobCrawls == JobSpec => Spec
<1>1. JobInit => Init BY DEF JobInit
<1> QED BY <1>1, JobStepsCrawl, PTL DEF JobSpec, Spec

\* The invariant of the crawl holds in every state, whoever reads it.
LEMMA CrawlInvHolds == Spec => []CrawlInv
BY CrawlBegins, CrawlKept, PTL DEF Spec

\* The variables of a crawl keep their types, the queue its size; no page is fetched a third time.
THEOREM CrawlTypeCorrect == JobSpec => []TypeOK
<1>1. CrawlInv => TypeOK
  <2> SUFFICES ASSUME CrawlInv PROVE TypeOK OBVIOUS
  <2> USE DEF CrawlInv
  <2>1. found \in 0..Cardinality(Hash)
    <3>1. Cardinality(Hash) \in Nat BY CrawlAssumption, FS_CardinalityType
    <3> QED BY <3>1 DEF CrawlTypes, FoundBound
  <2>2. tries \in [Page -> 0..2]
    <3>1. \A p \in Page : tries[p] \in 0..2 BY DEF CrawlTypes, WalkInv
    <3> QED BY <3>1 DEF CrawlTypes
  <2> QED BY <2>1, <2>2 DEF CrawlTypes, TypeOK
<1> QED BY <1>1, CrawlInvHolds, JobCrawls, PTL

\* The walker keeps to its page limit, and fetches a page again only if all of its level failed.
THEOREM WalkIsBounded == JobSpec => []WalkBounded
<1>1. CrawlInv => WalkBounded
  <2> SUFFICES ASSUME CrawlInv PROVE WalkBounded OBVIOUS
  <2> DEFINE Fetched == {p \in Page : tries[p] > 0}
  <2>1. Fetched \subseteq asked /\ IsFiniteSet(asked) /\ Cardinality(asked) <= MaxLinks + 1
    BY DEF CrawlInv, WalkInv
  <2>2. IsFiniteSet(Fetched) /\ Cardinality(Fetched) <= Cardinality(asked) BY <2>1, FS_Subset
  <2>3. Cardinality(Fetched) \in Nat /\ Cardinality(asked) \in Nat BY <2>1, <2>2, FS_CardinalityType
  <2>4. Cardinality(Fetched) <= MaxLinks + 1 BY <2>1, <2>2, <2>3, CrawlAssumption
  <2> QED BY <2>4 DEF CrawlInv, WalkInv, WalkBounded
<1> QED BY <1>1, CrawlInvHolds, JobCrawls, PTL

\* A crawl that reports without an error has told the magnets of the root and of the pages it lists.
THEOREM NothingIsLost == JobSpec => []NothingLost
<1>1. CrawlInv => NothingLost
  <2> SUFFICES ASSUME CrawlInv, report # NoReport, complaints = 0, ~late
               PROVE  /\ Magnets[Root] \subseteq told
                      /\ ~RootIsDetail => \A i \in DOMAIN Links[Root] :
                            i <= MaxLinks => Magnets[Links[Root][i]] \subseteq told
    BY DEF NothingLost
  <2>1. \A p \in Due : Magnets[p] \subseteq told BY DEF CrawlInv, GivenInv
  <2>2. ASSUME ~RootIsDetail, NEW i \in DOMAIN Links[Root], i <= MaxLinks PROVE Links[Root][i] \in Due
    BY <2>2 DEF Due, FirstLinks
  <2> QED BY <2>1, <2>2 DEF Due
<1> QED BY <1>1, CrawlInvHolds, JobCrawls, PTL

\* The stream counts as the crawl does.
LEMMA SameCardinality == \A S : Stream!Cardinality(S) = Cardinality(S)
BY DEF Stream!Cardinality, Cardinality

\* A step of the crawl is a step of the stream that its caller is promised, or none.
LEMMA StreamStep ==
    ASSUME CrawlInv, [Next]_vars
    PROVE  [Stream!Next]_(Stream!vars)
<1> USE DEF CrawlInv, CrawlTypes, crawl, caller, session, walker, Stream!vars, Stream!Next
<1>1. CASE UNCHANGED <<late, caller>> BY <1>1
<1>2. CASE reader \in {"away", "waits"} /\ ~late /\ queue # <<>> /\ Delivers /\ UNCHANGED late
  <2> DEFINE e == Head(queue)
  <2>0. Going BY <1>2 DEF Going
  <2>1. e \in Event BY <1>2, DeliversMoves
  <2>2. CASE e.type = "found"
    <3>1. e.hash \in Hash \ told /\ report = NoReport BY <1>2, <2>0, <2>2, FirstToCome
    <3>2. told' = told \cup {e.hash} /\ UNCHANGED <<complaints, late, report>>
      BY <1>2, <2>2 DEF Delivers
    <3> QED BY <1>2, <3>1, <3>2 DEF Stream!Tell
  <2>3. CASE e.type = "error"
    <3>1. report = NoReport BY <1>2, <2>0, <2>3, FirstToCome
    <3>2. complaints' = complaints + 1 /\ UNCHANGED <<told, late, report>>
      BY <1>2, <2>3 DEF Delivers
    <3> QED BY <1>2, <3>1, <3>2 DEF Stream!Complain
  <2>4. CASE e.type = "done"
    <3>1. report = NoReport /\ e.total = Cardinality(told) /\ e.errors = complaints
      BY <1>2, <2>0, <2>4, FirstToCome
    <3>2. report' = [total |-> e.total, errors |-> e.errors] /\ UNCHANGED <<complaints, late, told>>
      BY <1>2, <2>4 DEF Delivers
    <3>3. e.total \in Nat /\ e.errors \in Nat BY <2>1, <2>4, EventTypes
    <3>4. report' \in [total : Nat, errors : Nat] /\ report'.total = e.total /\ report'.errors = e.errors
      BY <3>2, <3>3
    <3>5. Cardinality(told) \in Nat BY CrawlAssumption, FS_Subset, FS_CardinalityType
    <3> HIDE DEF e
    <3>6. Stream!Report BY <1>2, <3>1, <3>2, <3>3, <3>4, <3>5, SameCardinality DEF Stream!Report
    <3> QED BY <3>6
  <2>5. CASE e.type \notin {"found", "error", "done"} BY <1>2, <2>5 DEF Delivers
  <2> QED BY <2>2, <2>3, <2>4, <2>5
<1>3. CASE Runs \/ Awaits \/ Reap \/ CancelSession BY <1>1, <1>3, SessionAlone
<1>4. CASE Refuse
  <2>1. report = NoReport /\ ~late /\ complaints = 0 /\ complaints' = 1 /\ UNCHANGED <<told, late, report>>
    BY <1>4 DEF Refuse, Places
  <2> QED BY <2>1 DEF Stream!Complain
<1>5. CASE Refused
  <2>1. /\ report = NoReport /\ ~late /\ complaints = 1 /\ told = {} /\ UNCHANGED <<told, late, complaints>>
        /\ report' = [total |-> 0, errors |-> 1]
    BY <1>5 DEF Refused, Places
  <2>2. Cardinality(told) = 0 BY <2>1, FS_EmptySet
  <2>3. report' \in [total : Nat, errors : Nat] /\ report'.total = 0 /\ report'.errors = 1 BY <2>1
  <2>4. Stream!Report BY <2>1, <2>2, <2>3, SameCardinality DEF Stream!Report
  <2> QED BY <2>4
<1>6. CASE Timeout
  <2>1. ~late BY <1>6 DEF Timeout, LateInv
  <2>2. report = NoReport BY <1>6 DEF Timeout, Places, StreamInv, Going, Closes
  <2>3. late' = TRUE /\ complaints' = complaints + 1 /\ UNCHANGED <<told, report>>
    BY <1>6 DEF Timeout
  <2> QED BY <2>1, <2>2, <2>3 DEF Stream!TakesTooLong
<1>7. CASE Finish
  <2>1. late /\ report = NoReport /\ found >= Cardinality(told) /\ errors >= complaints
    BY <1>7 DEF Finish, LateInv
  <2>2. report' = [total |-> found, errors |-> errors] /\ UNCHANGED <<late, told, complaints>>
    BY <1>7 DEF Finish
  <2>3. report' \in [total : Nat, errors : Nat] /\ report'.total = found /\ report'.errors = errors
    BY <2>2
  <2>4. Stream!Report BY <2>1, <2>2, <2>3, SameCardinality DEF Stream!Report
  <2> QED BY <2>4
<1>8. CASE Ask \/ Get BY <1>1, <1>2, <1>8 DEF Ask, Get, LateInv
<1>9. CASE Begin \/ Close \/ Closed \/ UNCHANGED vars BY <1>1, <1>9 DEF Begin, Close, Closed, vars
<1> QED BY <1>3, <1>4, <1>5, <1>6, <1>7, <1>8, <1>9 DEF Next, Reads

\* What MagnetCrawler.crawl gives a job that reads it is such a stream.
THEOREM CrawlImplementsStream == JobSpec => ImplementsStream
<1>1. Init => Stream!Init BY DEF Init, Stream!Init
<1>2. CrawlInv /\ [Next]_vars => [Stream!Next]_(Stream!vars) BY StreamStep
<1>3. Spec => Stream!Spec BY <1>1, <1>2, CrawlInvHolds, PTL DEF Spec, Stream!Spec
<1> QED BY <1>3, JobCrawls DEF ImplementsStream

-----------------------------------------------------------------------------
(* The job *)

\* What the job hears is what the stream of its crawl can say.
LEMMA Hears ==
    ASSUME CrawlInv, Listen
    PROVE  /\ complaints \in Nat /\ complaints' \in Nat
           /\ \/ UNCHANGED told
              \/ UNCHANGED complaints /\ \E h \in Hash \ told : told' = told \cup {h}
           /\ complaints' # complaints => complaints' > 0
           /\ complaints > 0 => complaints' > 0
<1>1. Next BY DEF Listen, Next
<1>2. [Stream!Next]_(Stream!vars) BY <1>1, StreamStep
<1>3. complaints \in Nat BY DEF CrawlInv, CrawlTypes
<1> QED BY <1>2, <1>3
    DEF Stream!Next, Stream!vars, Stream!Tell, Stream!Complain, Stream!TakesTooLong, Stream!Report

\* The reason of an error is that it failed, or that a page was fetched that has no magnet.
LEMMA HearsWhy ==
    ASSUME CrawlInv, Listen, complaints' # complaints
    PROVE  Heard \in {"failed", "no_magnet"} /\ (Heard = "no_magnet" => BarrenTried)
<1> USE DEF crawl, caller, session, walker
<1>1. CASE queue' = queue BY <1>1, EventTypes DEF Heard
<1>2. CASE queue' # queue
  <2>1. queue # <<>> /\ Delivers
    BY <1>2 DEF Listen, Reads, Refuse, Refused, Begin, Ask, Get, Timeout, Finish
  <2>2. Head(queue).type = "error" BY <2>1 DEF Delivers
  <2>3. CrawlTypes BY DEF CrawlInv
  <2>4. Head(queue) \in Event /\ Head(queue) = queue[1] /\ 1 \in DOMAIN queue
    BY <2>1, <2>3, OfTail DEF CrawlTypes
  <2>5. Head(queue) \in {Error, NoMagnet} BY <2>2, <2>4, EventTypes
  <2>6. Heard = Head(queue).reason BY <1>2 DEF Heard
  <2>7. Pending[1] = Head(queue) /\ 1 \in DOMAIN Pending BY <2>3, <2>4, OfConcat DEF Pending, CrawlTypes
  <2>8. CASE Head(queue) = Error BY <2>6, <2>8, EventTypes
  <2>9. CASE Head(queue) = NoMagnet
    <3>1. BarrenTried BY <2>7, <2>9 DEF CrawlInv, BarrenInv
    <3> QED BY <2>6, <2>9, <3>1, EventTypes
  <2> QED BY <2>5, <2>8, <2>9
<1> QED BY <1>1, <1>2

\* A job that comes to the end of its crawl was told of a magnet or of an error.
LEMMA HearsSome ==
    ASSUME CrawlInv, Listen, reader' \in {"finish", "closing", "over"},
           reader \in {"finish", "closing", "over"} => told # {} \/ complaints > 0
    PROVE  told' # {} \/ complaints' > 0
<1> USE DEF CrawlInv, crawl, caller, session, walker
<1>1. complaints \in Nat BY DEF CrawlTypes
<1>2. CASE Refused
  <2>1. complaints = 1 /\ UNCHANGED complaints BY <1>2 DEF Refused, Places
  <2> QED BY <2>1
<1>3. CASE Finish BY <1>3 DEF Finish
<1>4. CASE Ask /\ late
  <2>1. complaints > 0 /\ UNCHANGED complaints BY <1>4 DEF Ask, TimeoutTold
  <2> QED BY <2>1
<1>5. ASSUME ~late, reader \in {"away", "waits"}, queue # <<>>, Delivers PROVE told' # {} \/ complaints' > 0
  <2>1. Head(queue) = Sentinel BY <1>5 DEF Delivers
  <2>2. told # {} \/ complaints > 0 BY <1>5, <2>1, LastToCome DEF Going
  <2>3. Sentinel.type = "none" BY EventTypes
  <2>4. UNCHANGED <<told, complaints>> BY <1>5, <2>1, <2>3 DEF Delivers
  <2> QED BY <2>2, <2>4
<1>6. CASE Ask /\ ~late
  <2>1. queue # <<>> /\ Delivers BY <1>6 DEF Ask
  <2>2. reader = "away" BY <1>6 DEF Ask
  <2> QED BY <1>5, <1>6, <2>1, <2>2
<1>7. CASE Get
  <2>1. queue # <<>> /\ Delivers /\ reader = "waits" BY <1>7 DEF Get
  <2>2. ~late BY <2>1 DEF LateInv, CrawlTypes
  <2> QED BY <1>5, <2>1, <2>2
<1>8. ~(Refuse \/ Begin \/ Timeout) BY DEF Refuse, Begin, Timeout
<1> QED BY <1>2, <1>3, <1>4, <1>6, <1>7, <1>8 DEF Listen, Reads

\* Nobody else hears.
LEMMA OthersHearNothing ==
    ASSUME CrawlInv, [JobNext]_jobVars, ~Listen
    PROVE  UNCHANGED <<told, complaints>>
<1> USE DEF crawling, caller
<1>1. CASE Leave \/ CrawlRuns \/ CrawlIsAnswered
  <2>1. CASE Close \/ Closed BY <2>1 DEF Close, Closed
  <2>2. CASE Runs \/ Awaits \/ Reap \/ CancelSession BY <2>2, SessionAlone DEF CrawlInv
  <2> QED BY <1>1, <2>1, <2>2 DEF Leave, CrawlRuns, CrawlIsAnswered
<1>2. CASE Announced \/ Duplicate \/ Look \/ Add \/ Known \/ Compute \/ Claim \/ Classify \/ Finishes \/ Over
  BY <1>2 DEF Announced, Duplicate, Look, Add, Known, Compute, Claim, Classify, Finishes, Over
<1>3. CASE TimesOut \/ Keep \/ Handled \/ ClassifierRaises \/ Raises \/ Cancel \/ Reload \/ Clear
  BY <1>3 DEF TimesOut, Keep, Handled, ClassifierRaises, Raises, Cancel, Reload, Clear
<1>4. ASSUME NEW h \in Hash, Taken(h) \/ Removed(h) PROVE UNCHANGED <<told, complaints>>
  BY <1>4 DEF Taken, Removed
<1>5. CASE UNCHANGED jobVars BY <1>5 DEF jobVars
<1> QED BY <1>1, <1>2, <1>3, <1>4, <1>5 DEF JobNext, InTime, Handles

\* The invariant of the job holds at the beginning.
LEMMA JobBegins ==
    ASSUME JobInit
    PROVE  JobTypes /\ JobInv /\ EndTold /\ RowBarren /\ Shelved /\ Answering
<1>1. /\ run = "announce" /\ left = Subscribers /\ item = {} /\ inserted = {} /\ excused = {} /\ events = 0
      /\ row = [status |-> "running", reason |-> NoReason, found |-> 0, added |-> 0]
      /\ library = [h \in Hash |-> "absent"]
      /\ told = {} /\ complaints = 0 /\ reader = "start"
  BY DEF JobInit, Init
<1>2. JobTypes
  <2>1. run \in Stage /\ library \in Shelves BY <1>1 DEF Stage, Shelves
  <2>0. row \in Rows BY <1>1 DEF Rows, NoReason
  <2>2. left \in 0..Subscribers /\ events \in 0..MaxEvents BY <1>1, JobCrawlAssumption
  <2>3. excused \subseteq Hash /\ inserted \subseteq told /\ item \subseteq told BY <1>1
  <2> QED BY <2>0, <2>1, <2>2, <2>3 DEF JobTypes
<1>3. JobInv
  <2>1. run \notin Handling /\ row.status = "running" /\ row.reason = NoReason /\ row.found = 0 /\ row.added = 0
    BY <1>1 DEF Handling
  <2>2. Cardinality(told \ item) = 0 /\ Cardinality(inserted \ item) = 0 BY <1>1, FS_EmptySet
  <2>3. run = "announce" /\ item = {} BY <1>1
  <2>4. row.reason = NoReason <=> complaints = 0 BY <1>1, <2>1
  <2>5. row.status # "done" BY <2>1
  <2> HIDE DEF Handling
  <2> QED BY <2>1, <2>2, <2>3, <2>4, <2>5 DEF JobInv
<1>4. Shelved BY <1>1 DEF Shelved
<1>5. Answering
  <2>1. /\ rules = 1 /\ clearing = FALSE /\ call = Classifier!NoCall /\ raced = {}
        /\ cache = [n \in Name |-> 0]
    BY DEF JobInit, Classifier!Init
  <2>2. \A n \in Name : cache[n] = 0 BY <2>1
  <2>3. cache \in [Name -> Nat] BY <2>1
  <2>4. Classifier!CacheTrue BY <2>2 DEF Classifier!CacheTrue
  <2>5. rules = 1 /\ clearing \in BOOLEAN BY <2>1
  <2>6. rules \in Nat \ {0} BY <2>5
  <2> QED BY <2>1, <2>3, <2>4, <2>5, <2>6 DEF Answering, CacheTrue
<1>6. EndTold /\ RowBarren BY <1>1 DEF EndTold, RowBarren, NoReason
<1> QED BY <1>2, <1>3, <1>4, <1>5, <1>6

\* What can become of the row.
LEMMA RowChanges ==
    ASSUME row \in Rows
    PROVE  /\ \A r \in {"failed", "no_magnet"} : [row EXCEPT !.reason = r] \in Rows
           /\ [row EXCEPT !.status = "error", !.reason = "fatal"] \in Rows
           /\ [row EXCEPT !.status = "done", !.reason = Reason] \in Rows
           /\ [row EXCEPT !.status = IF run \in {"announce", "final"} THEN @ ELSE "queued"] \in Rows
           /\ Counted(TRUE) \/ Counted(FALSE) =>
                 /\ row' \in Rows /\ row'.status = row.status /\ row'.reason = row.reason
                 /\ row'.found = row.found + 1
           /\ Counted(TRUE) => row'.added = row.added + 1
           /\ Counted(FALSE) => row'.added = row.added
<1> USE DEF Rows, NoReason
<1>1. row.found \in Nat /\ row.added \in Nat /\ row.reason \in {NoReason, "failed", "no_magnet", "fatal"} OBVIOUS
<1>2. Reason \in {NoReason, "failed", "no_magnet", "fatal"} BY <1>1 DEF Reason
<1>3. /\ \A r \in {"failed", "no_magnet"} : [row EXCEPT !.reason = r] \in Rows
      /\ [row EXCEPT !.status = "error", !.reason = "fatal"] \in Rows
  OBVIOUS
<1>4. [row EXCEPT !.status = "done", !.reason = Reason] \in Rows BY <1>2
<1>5. [row EXCEPT !.status = IF run \in {"announce", "final"} THEN @ ELSE "queued"] \in Rows OBVIOUS
<1>6. ASSUME Counted(TRUE)
      PROVE  /\ row' \in Rows /\ row'.status = row.status /\ row'.reason = row.reason
             /\ row'.found = row.found + 1 /\ row'.added = row.added + 1
  <2>1. row' = [row EXCEPT !.found = row.found + 1, !.added = row.added + 1] BY <1>6 DEF Counted
  <2>2. row.found + 1 \in Nat /\ row.added + 1 \in Nat BY <1>1
  <2> QED BY <2>1, <2>2
<1>7. ASSUME Counted(FALSE)
      PROVE  /\ row' \in Rows /\ row'.status = row.status /\ row'.reason = row.reason
             /\ row'.found = row.found + 1 /\ row'.added = row.added
  <2>1. row' = [row EXCEPT !.found = row.found + 1, !.added = row.added] BY <1>7 DEF Counted
  <2>2. row.found + 1 \in Nat BY <1>1
  <2> QED BY <1>1, <2>1, <2>2
<1> QED BY <1>3, <1>4, <1>5, <1>6, <1>7

\* What can become of the library.
LEMMA ShelfChanges ==
    ASSUME library \in Shelves
    PROVE  /\ Insert => library' \in Shelves
           /\ Changed("pending", "classifying") \in Shelves /\ Changed("classifying", "classified") \in Shelves
           /\ \A h \in Hash : [library EXCEPT ![h] = "other"] \in Shelves /\ [library EXCEPT ![h] = "absent"] \in Shelves
BY DEF Shelves, Insert, Changed

\* The job keeps its types, whatever it hears and others do.
LEMMA JobTypesKept ==
    ASSUME CrawlInv, JobTypes, JobInv, [JobNext]_jobVars
    PROVE  JobTypes'
<1> USE DEF JobTypes
<1>1. /\ \A place \in Stage : Emit(place) \/ Goto(place) => run' \in Stage /\ left' \in 0..Subscribers
      /\ {"reading", "looking", "adding", "thread", "claiming", "writing", "final", "over"} \subseteq Stage
      /\ Spend => events' \in 0..MaxEvents
  BY JobCrawlAssumption DEF Emit, Goto, Stage, Spend
<1>2. CASE Listen
  <2>1. told \subseteq told' BY <1>2, Hears
  <2>2. UNCHANGED <<inserted, excused, library, events>> BY <1>2 DEF Listen, shelf
  <2>3. CASE told' # told
    BY <1>1, <1>2, <2>1, <2>2, <2>3, Hears DEF Listen, Hear
  <2>4. CASE complaints' # complaints
    <3>1. told' = told BY <1>2, <2>4, Hears
    <3>2. row' = [row EXCEPT !.reason = Heard] /\ Emit("reading") /\ UNCHANGED item
      BY <1>2, <2>4, <3>1 DEF Listen, Hear
    <3>3. row' \in Rows BY <1>2, <2>4, <3>2, HearsWhy, RowChanges
    <3> QED BY <1>1, <2>2, <3>1, <3>2, <3>3
  <2>5. CASE told' = told /\ complaints' = complaints BY <1>2, <2>2, <2>5 DEF Listen, Hear
  <2> QED BY <2>3, <2>4, <2>5
<1>3. CASE ~Listen
  <2> USE DEF job, shelf
  <2>1. UNCHANGED told BY <1>3, OthersHearNothing
  <2>2. CASE Leave \/ CrawlRuns \/ CrawlIsAnswered \/ UNCHANGED jobVars
    BY <2>1, <2>2 DEF Leave, CrawlRuns, CrawlIsAnswered, jobVars
  <2>3. CASE Announced \/ Look \/ Known \/ Over \/ Keep
    BY <1>1, <2>1, <2>3 DEF Announced, Look, Known, Over, Keep
  <2>4. CASE TimesOut \/ Handled BY <2>1, <2>4, JobCrawlAssumption DEF TimesOut, Handled
  <2>5. CASE Duplicate BY <1>1, <2>1, <2>5, RowChanges DEF Duplicate, Counts
  <2>6. CASE ClassifierRaises
    <3>1. excused' \subseteq Hash /\ item' = {}
      BY <2>6 DEF ClassifierRaises, Counts, CrawlInv, CrawlTypes
    <3> QED BY <1>1, <2>1, <2>6, <3>1, RowChanges DEF ClassifierRaises, Counts
  <2>7. CASE Claim BY <1>1, <2>1, <2>7, ShelfChanges DEF Claim
  <2>8. CASE Classify BY <1>1, <2>1, <2>8, RowChanges, ShelfChanges DEF Classify, Counts
  <2>9. CASE Add BY <1>1, <2>1, <2>9, ShelfChanges DEF Add, Insert
  <2>10. CASE Finishes BY <1>1, <2>1, <2>10, RowChanges DEF Finishes
  <2>11. CASE Raises BY <1>1, <2>1, <2>11, RowChanges DEF Raises
  <2>12. CASE Cancel
    <3>1. run' \in Stage /\ left' \in 0..Subscribers /\ events' \in 0..MaxEvents
      BY <1>1, <2>12, JobCrawlAssumption DEF Cancel
    <3>2. row' \in Rows BY <2>12, RowChanges DEF Cancel
    <3>3. UNCHANGED <<item, excused>> /\ inserted' \subseteq told /\ library' \in Shelves
      BY <2>12, ShelfChanges DEF Cancel, Insert
    <3> QED BY <2>1, <3>1, <3>2, <3>3
  <2>13. CASE Compute \/ Reload \/ Clear BY <1>1, <2>1, <2>13 DEF Compute, Reload, Clear
  <2>14. ASSUME NEW h \in Hash, Taken(h) \/ Removed(h) PROVE JobTypes'
    BY <1>1, <2>1, <2>14, ShelfChanges DEF Taken, Removed
  <2> QED BY <1>3, <2>2, <2>3, <2>4, <2>5, <2>6, <2>7, <2>8, <2>9, <2>10, <2>11, <2>12, <2>13, <2>14
       DEF JobNext, InTime, Handles
<1> QED BY <1>2, <1>3

\* A magnet that comes to what has been counted is one more.
LEMMA OneMore ==
    ASSUME NEW S, IsFiniteSet(S), NEW h \in S
    PROVE  Cardinality(S \ {}) = Cardinality(S \ {h}) + 1
<1>1. S \ {} = (S \ {h}) \cup {h} OBVIOUS
<1>2. IsFiniteSet(S \ {h}) BY FS_Difference
<1> QED BY <1>1, <1>2, FS_AddElement

\* Each magnet told is counted once, when the job has handled it, and each insert with it.
LEMMA JobInvKept ==
    ASSUME CrawlInv, JobTypes, JobInv, EndTold, [JobNext]_jobVars
    PROVE  JobInv'
<1>0. /\ told \subseteq Hash /\ IsFiniteSet(told) /\ IsFiniteSet(inserted)
      /\ row \in Rows /\ item \subseteq told /\ inserted \subseteq told /\ run \in Stage
  BY CrawlAssumption, FS_Subset DEF CrawlInv, CrawlTypes, JobTypes
<1>1. CASE Listen
  <2>1. run = "reading" /\ item = {} /\ UNCHANGED inserted BY <1>1 DEF Listen, At, JobInv
  <2>2. row.status = "running" /\ (row.reason = NoReason <=> complaints = 0)
    BY <2>1 DEF JobInv, Handling
  <2>3. CASE told' # told
    <3>1. PICK h \in Hash \ told : told' = told \cup {h} BY <1>1, <2>3, Hears
    <3>2. UNCHANGED <<complaints, row>> BY <1>1, <2>3, Hears DEF Listen, Hear
    <3>3. run' = "looking" /\ item' = {h} BY <1>1, <2>3, <3>1, <3>2 DEF Listen, Hear, Goto
    <3>4. told' \ item' = told \ item /\ inserted' \ item' = inserted \ item /\ item' \cap inserted' = {}
      BY <1>0, <2>1, <3>1, <3>3
    <3> QED BY <2>2, <3>1, <3>2, <3>3, <3>4 DEF JobInv, Handling
  <2>4. CASE complaints' # complaints
    <3>1. told' = told /\ complaints' > 0 BY <1>1, <2>4, Hears
    <3>2. row' = [row EXCEPT !.reason = Heard] /\ UNCHANGED item /\ run' = "reading"
      BY <1>1, <2>4, <3>1 DEF Listen, Hear, Emit
    <3>3. row'.status = row.status /\ row'.reason = Heard /\ row'.found = row.found /\ row'.added = row.added
      BY <1>0, <3>2 DEF Rows
    <3>4. row'.reason # NoReason BY <1>1, <2>4, <3>3, HearsWhy DEF NoReason
    <3>5. complaints' # 0 BY <3>1
    <3> QED BY <2>1, <2>2, <3>1, <3>2, <3>3, <3>4, <3>5 DEF JobInv, Handling
  <2>5. CASE told' = told /\ complaints' = complaints
    <3>1. UNCHANGED <<run, item, row, inserted, told, complaints>>
      BY <1>1, <2>1, <2>5 DEF Listen, Hear
    <3> QED BY <3>1 DEF JobInv
  <2> QED BY <2>3, <2>4, <2>5
<1>2. CASE ~Listen
  <2> USE DEF job, shelf, Goto, Emit, At
  <2>1. UNCHANGED <<told, complaints>> BY <1>2, OthersHearNothing
  <2>2. ASSUME UNCHANGED <<run, item, row, inserted>> PROVE JobInv' BY <2>1, <2>2 DEF JobInv
  <2>3. CASE Leave \/ CrawlRuns \/ CrawlIsAnswered \/ UNCHANGED jobVars \/ TimesOut \/ Handled \/ Compute \/ Reload \/ Clear
    BY <2>2, <2>3
       DEF Leave, CrawlRuns, CrawlIsAnswered, jobVars, TimesOut, Handled, Compute, Reload, Clear
  <2>4. CASE Announced \/ Look \/ Known \/ Over \/ Claim
    <3>1. UNCHANGED <<item, row, inserted>>
      BY <2>4 DEF Announced, Look, Known, Over, Claim
    <3>2. \/ run = "announce" /\ run' = "reading"
          \/ run = "looking" /\ run' = "adding"
          \/ run = "thread" /\ run' = "claiming"
          \/ run = "claiming" /\ run' = "writing"
          \/ run = "final" /\ run' = "over"
      BY <2>4 DEF Announced, Look, Known, Over, Claim
    <3> QED BY <2>1, <3>1, <3>2 DEF JobInv, Handling
  <2>5. CASE Keep
    <3>1. UNCHANGED <<item, row, inserted>> BY <2>5 DEF Keep
    <3>2. (run = "thread" /\ run' = "claiming") \/ UNCHANGED run BY <2>5 DEF Keep
    <3> QED BY <2>1, <3>1, <3>2 DEF JobInv, Handling
  <2>6. CASE Duplicate
    <3>1. run \in {"looking", "adding"} /\ Counted(FALSE) /\ item' = {} /\ run' = "reading" /\ UNCHANGED inserted
      BY <2>6 DEF Duplicate, Counts
    <3>2. PICK h \in told : item = {h} BY <3>1 DEF JobInv, Handling
    <3>3. inserted' \ item' = inserted \ item BY <3>1, <3>2 DEF JobInv
    <3>4. Cardinality(told' \ item') = Cardinality(told \ item) + 1
      BY <1>0, <2>1, <3>1, <3>2, OneMore
    <3>5. row'.status = row.status /\ row'.reason = row.reason /\ row'.found = row.found + 1 /\ row'.added = row.added
      BY <1>0, <3>1, RowChanges
    <3> QED BY <2>1, <3>1, <3>3, <3>4, <3>5 DEF JobInv, Handling
  <2>7. CASE ClassifierRaises \/ Classify
    <3>1. run \in {"thread", "writing"} /\ Counted(TRUE) /\ item' = {} /\ run' = "reading" /\ UNCHANGED inserted
      BY <2>7 DEF ClassifierRaises, Classify, Counts
    <3>2. PICK h \in told : item = {h} BY <3>1 DEF JobInv, Handling
    <3>3. h \in inserted BY <3>1, <3>2 DEF JobInv
    <3>4. Cardinality(told' \ item') = Cardinality(told \ item) + 1
      BY <1>0, <2>1, <3>1, <3>2, OneMore
    <3>5. Cardinality(inserted' \ item') = Cardinality(inserted \ item) + 1
      BY <1>0, <3>1, <3>2, <3>3, OneMore
    <3>6. row'.status = row.status /\ row'.reason = row.reason /\ row'.found = row.found + 1 /\ row'.added = row.added + 1
      BY <1>0, <3>1, RowChanges
    <3> QED BY <2>1, <3>1, <3>4, <3>5, <3>6 DEF JobInv, Handling
  <2>8. CASE Add
    <3>1. run = "adding" /\ run' = "thread" /\ inserted' = inserted \cup item /\ UNCHANGED <<item, row>>
      BY <2>8 DEF Add, Insert
    <3>2. inserted' \ item' = inserted \ item /\ item' \subseteq inserted' BY <3>1
    <3> QED BY <2>1, <3>1, <3>2 DEF JobInv, Handling
  <2>9. CASE Finishes
    <3>1. run = "reading" /\ run' = "final" /\ UNCHANGED <<item, inserted>> /\ item = {}
      BY <2>9 DEF Finishes, JobInv
    <3>2. row'.status = "done" /\ row'.reason = Reason /\ row'.found = row.found /\ row'.added = row.added
      BY <1>0, <2>9 DEF Finishes, Rows
    <3>3. row.found = Cardinality(told) /\ Cardinality(told) \in Nat /\ (Cardinality(told) = 0 <=> told = {})
      <4>1. row.found = Cardinality(told) BY <3>1 DEF JobInv
      <4> QED BY <1>0, <4>1, FS_CardinalityType, FS_EmptySet
    <3>4. complaints \in Nat BY DEF CrawlInv, CrawlTypes
    <3>5. row.reason = NoReason <=> complaints = 0 BY <3>1 DEF JobInv
    <3>6. told # {} \/ complaints > 0 BY <2>9, <3>1 DEF Finishes, EndTold
    <3>7. row'.reason = NoReason <=> told # {}
      <4>1. CASE told # {} BY <3>2, <3>3, <4>1 DEF Reason
      <4>2. CASE told = {}
        <5>1. row.reason # NoReason BY <3>5, <3>6, <4>2
        <5> QED BY <3>2, <3>3, <4>2, <5>1 DEF Reason
      <4> QED BY <4>1, <4>2
    <3> QED BY <2>1, <3>1, <3>2, <3>6, <3>7 DEF JobInv, Handling
  <2>10. CASE Raises
    <3>1. run' = "final" /\ UNCHANGED <<item, inserted>> BY <2>10 DEF Raises
    <3>2. row'.status = "error" /\ row'.found = row.found /\ row'.added = row.added
      BY <1>0, <2>10 DEF Raises, Rows
    <3> QED BY <2>1, <3>1, <3>2 DEF JobInv, Handling
  <2>11. CASE Cancel
    <3>1. run' = "over" /\ UNCHANGED item /\ inserted' \ item' = inserted \ item
      BY <2>11 DEF Cancel, Insert
    <3>2. row'.reason = row.reason /\ row'.found = row.found /\ row'.added = row.added
      BY <1>0, <2>11 DEF Cancel, Rows
    <3>3. row'.status = IF run \in {"announce", "final"} THEN row.status ELSE "queued"
      BY <1>0, <2>11 DEF Cancel, Rows
    <3> QED BY <2>1, <3>1, <3>2, <3>3 DEF JobInv, Handling
  <2>12. ASSUME NEW h \in Hash, Taken(h) \/ Removed(h) PROVE JobInv'
    BY <2>2, <2>12 DEF Taken, Removed
  <2> QED
    BY <1>2, <2>3, <2>4, <2>5, <2>6, <2>7, <2>8, <2>9, <2>10, <2>11, <2>12
       DEF JobNext, InTime, Handles
<1> QED BY <1>1, <1>2

\* The crawl of a job does not come to its end before the job was told of something.
LEMMA EndToldKept ==
    ASSUME CrawlInv, JobInv, EndTold, [JobNext]_jobVars
    PROVE  EndTold'
<1> USE DEF crawling, crawl, job, Goto, Emit, At
<1>1. CASE Listen
  <2>1. run = "reading" BY <1>1 DEF Listen
  <2>2. CASE reader' \in {"finish", "closing", "over"}
    BY <1>1, <2>1, <2>2, HearsSome DEF EndTold
  <2> QED BY <2>2 DEF EndTold
<1>2. CASE ~Listen
  <2>1. UNCHANGED <<told, complaints>> BY <1>2, OthersHearNothing
  <2>2. CASE Leave
    <3>1. run' \in {"final", "over"} BY <2>2 DEF Leave
    <3> QED BY <3>1 DEF EndTold
  <2>3. CASE CrawlRuns \/ CrawlIsAnswered
    <3>1. UNCHANGED run BY <2>3 DEF CrawlRuns, CrawlIsAnswered
    <3>2. reader' = reader \/ reader \in {"closing"}
      <4>1. CASE Closed BY <4>1 DEF Closed
      <4>2. CASE Runs \/ Awaits \/ Reap \/ CancelSession BY <4>2, SessionAlone DEF CrawlInv
      <4> QED BY <2>3, <4>1, <4>2 DEF CrawlRuns, CrawlIsAnswered
    <3> QED BY <2>1, <3>1, <3>2 DEF EndTold
  <2>4. ASSUME UNCHANGED reader, run \in {"final", "over"} => run' \in {"final", "over"} PROVE EndTold'
    BY <2>1, <2>4 DEF EndTold
  <2>5. CASE Announced \/ Duplicate \/ Look \/ Add \/ Known \/ Compute \/ Claim \/ Classify \/ Finishes \/ Over
    BY <2>4, <2>5
       DEF Announced, Duplicate, Look, Add, Known, Compute, Claim, Classify, Finishes, Over, Counts
  <2>6. CASE TimesOut \/ Keep \/ Handled \/ ClassifierRaises \/ Raises \/ Cancel \/ Reload \/ Clear
    BY <2>4, <2>6
       DEF TimesOut, Keep, Handled, ClassifierRaises, Raises, Cancel, Reload, Clear, Counts
  <2>7. ASSUME NEW h \in Hash, Taken(h) \/ Removed(h) PROVE EndTold'
    BY <2>4, <2>7 DEF Taken, Removed
  <2>8. CASE UNCHANGED jobVars BY <2>4, <2>8 DEF jobVars
  <2> QED BY <1>2, <2>2, <2>3, <2>5, <2>6, <2>7, <2>8 DEF JobNext, InTime, Handles
<1> QED BY <1>1, <1>2

\* The row says that there is no magnet only after a page that had none.
LEMMA RowBarrenKept ==
    ASSUME CrawlInv, JobTypes, JobInv, EndTold, RowBarren, [JobNext]_jobVars
    PROVE  RowBarren'
<1> USE DEF job
<1>0. row \in Rows BY DEF JobTypes
<1>1. BarrenTried => BarrenTried' BY JobStepsCrawl, TriesGrow DEF CrawlInv
<1>2. ASSUME row'.reason = row.reason PROVE RowBarren' BY <1>1, <1>2 DEF RowBarren
<1>3. CASE Listen
  <2>1. CASE complaints' # complaints
    <3>1. told' = told BY <1>3, <2>1, Hears
    <3>2. row' = [row EXCEPT !.reason = Heard] BY <1>3, <2>1, <3>1 DEF Listen, Hear
    <3>3. row'.reason = Heard BY <1>0, <3>2 DEF Rows
    <3> QED BY <1>1, <1>3, <2>1, <3>3, HearsWhy DEF RowBarren
  <2>2. CASE complaints' = complaints
    <3>1. UNCHANGED row BY <1>3, <2>2 DEF Listen, Hear
    <3> QED BY <1>2, <3>1
  <2> QED BY <2>1, <2>2
<1>4. CASE Finishes
  <2>1. run = "reading" /\ item = {} /\ reader = "over" BY <1>4 DEF Finishes, At, JobInv
  <2>2. row'.reason = Reason BY <1>0, <1>4 DEF Finishes, Rows
  <2>3. row.found = Cardinality(told) BY <2>1 DEF JobInv
  <2>4. told # {} => row.found > 0
    <3>1. IsFiniteSet(told) BY CrawlAssumption, FS_Subset DEF CrawlInv, CrawlTypes
    <3> QED BY <2>3, <3>1, FS_CardinalityType, FS_EmptySet
  <2>5. row.reason = NoReason <=> complaints = 0 BY <2>1 DEF JobInv
  <2>6. told # {} \/ complaints > 0 BY <2>1 DEF EndTold
  <2>7. Reason \in {NoReason, row.reason} BY <2>4, <2>5, <2>6 DEF Reason
  <2> QED BY <1>1, <2>2, <2>7 DEF RowBarren, NoReason
<1>5. CASE Raises
  <2>1. row'.reason = "fatal" BY <1>0, <1>5 DEF Raises, Rows
  <2> QED BY <2>1 DEF RowBarren
<1>6. CASE Cancel
  <2>1. row'.reason = row.reason BY <1>0, <1>6 DEF Cancel, Rows
  <2> QED BY <1>2, <2>1
<1>7. CASE Duplicate \/ ClassifierRaises \/ Classify
  <2>1. Counted(TRUE) \/ Counted(FALSE) BY <1>7 DEF Duplicate, ClassifierRaises, Classify, Counts
  <2>2. row'.reason = row.reason BY <1>0, <2>1, RowChanges
  <2> QED BY <1>2, <2>2
<1>8. CASE Leave \/ CrawlRuns \/ CrawlIsAnswered \/ UNCHANGED jobVars
  BY <1>2, <1>8 DEF Leave, CrawlRuns, CrawlIsAnswered, jobVars
<1>9. CASE Announced \/ Look \/ Add \/ Known \/ Compute \/ Claim \/ Over \/ Keep
  BY <1>2, <1>9 DEF Announced, Look, Add, Known, Compute, Claim, Over, Keep
<1>10. CASE TimesOut \/ Handled \/ Reload \/ Clear
  BY <1>2, <1>10 DEF TimesOut, Handled, Reload, Clear
<1>11. ASSUME NEW h \in Hash, Taken(h) \/ Removed(h) PROVE RowBarren'
  BY <1>2, <1>11 DEF Taken, Removed
<1> QED BY <1>3, <1>4, <1>5, <1>6, <1>7, <1>8, <1>9, <1>10, <1>11 DEF JobNext, InTime, Handles

\* No step takes a magnet of the job back behind where the job has brought it.
LEMMA ShelvedKept ==
    ASSUME CrawlInv, JobTypes, JobInv, Shelved, [JobNext]_jobVars
    PROVE  Shelved'
<1>0. /\ told \subseteq Hash /\ item \subseteq told /\ inserted \subseteq told
      /\ run \in Handling => \E h \in told : item = {h}
  BY DEF CrawlInv, CrawlTypes, JobTypes, JobInv
<1>1. CASE Listen
  <2>1. run = "reading" /\ item = {} /\ UNCHANGED <<inserted, library, excused>>
    BY <1>1 DEF Listen, At, JobInv, shelf
  <2>2. CASE told' # told
    <3>1. PICK h \in Hash \ told : told' = told \cup {h} BY <1>1, <2>2, Hears
    <3>2. run' = "looking" /\ item' = {h} BY <1>1, <2>2, <3>1, Hears DEF Listen, Hear, Goto
    <3>3. Hash \ (told' \cup excused') \subseteq Hash \ (told \cup excused) BY <2>1, <3>1
    <3>4. told' \ (item' \cup excused') = told \ (item \cup excused) BY <2>1, <3>1, <3>2
    <3>5. \A g \in item' \ excused' : library[g] \in {"absent", "other"}
      BY <2>1, <3>1, <3>2 DEF Shelved
    <3> QED BY <2>1, <3>2, <3>3, <3>4, <3>5 DEF Shelved
  <2>3. CASE told' = told
    <3>1. UNCHANGED item /\ run' = "reading" BY <1>1, <2>1, <2>3 DEF Listen, Hear, Emit
    <3> QED BY <2>1, <2>3, <3>1 DEF Shelved
  <2> QED BY <2>2, <2>3
<1>2. CASE ~Listen
  <2> USE DEF job, shelf, Goto, Emit, At
  <2>1. UNCHANGED told BY <1>2, OthersHearNothing
  <2>2. ASSUME UNCHANGED <<run, item, inserted, library, excused>> PROVE Shelved'
    BY <2>1, <2>2 DEF Shelved
  <2>3. CASE \/ Leave \/ CrawlRuns \/ CrawlIsAnswered \/ UNCHANGED jobVars
             \/ TimesOut \/ Handled \/ Compute \/ Reload \/ Clear
    BY <2>2, <2>3
       DEF Leave, CrawlRuns, CrawlIsAnswered, jobVars, TimesOut, Handled, Compute, Reload, Clear
  <2>4. CASE Announced \/ Look \/ Known \/ Over \/ Keep
    <3>1. UNCHANGED <<item, inserted, library, excused>>
      BY <2>4 DEF Announced, Look, Known, Over, Keep
    <3>2. \/ (run = "announce" /\ run' = "reading")
          \/ (run = "looking" /\ run' = "adding")
          \/ (run = "thread" /\ run' = "claiming")
          \/ (run = "final" /\ run' = "over")
          \/ UNCHANGED run
      BY <2>4 DEF Announced, Look, Known, Over, Keep
    <3> QED BY <2>1, <3>1, <3>2 DEF Shelved
  <2>5. CASE Duplicate
    <3>1. run \in {"looking", "adding"} /\ item' = {} /\ run' = "reading" /\ UNCHANGED <<inserted, library, excused>>
      BY <2>5 DEF Duplicate, Counts
    <3>2. PICK h \in told : item = {h} BY <1>0, <3>1 DEF Handling
    <3>3. library[h] # "absent" /\ h \notin inserted BY <2>5, <3>1, <3>2 DEF Duplicate, JobInv
    <3>4. h \notin excused => library[h] = "other" BY <3>1, <3>2, <3>3 DEF Shelved
    <3> QED BY <2>1, <3>1, <3>2, <3>3, <3>4 DEF Shelved
  <2>6. CASE ClassifierRaises
    <3>1. item' = {} /\ run' = "reading" /\ UNCHANGED <<inserted, library>> /\ excused' = excused \cup item
      BY <2>6 DEF ClassifierRaises, Counts
    <3> QED BY <2>1, <3>1 DEF Shelved
  <2>7. CASE Claim
    <3>1. /\ run = "claiming" /\ run' = "writing" /\ UNCHANGED <<item, inserted, excused>>
          /\ library' = Changed("pending", "classifying")
      BY <2>7 DEF Claim
    <3>2. \A g \in Hash : library'[g] = IF g \in item /\ library[g] = "pending" THEN "classifying" ELSE library[g]
      BY <3>1 DEF Changed
    <3> QED BY <1>0, <2>1, <3>1, <3>2 DEF Shelved
  <2>8. CASE Classify
    <3>1. /\ run = "writing" /\ run' = "reading" /\ item' = {} /\ UNCHANGED <<inserted, excused>>
          /\ library' = Changed("classifying", "classified")
      BY <2>8 DEF Classify, Counts
    <3>2. \A g \in Hash : library'[g] = IF g \in item /\ library[g] = "classifying" THEN "classified" ELSE library[g]
      BY <3>1 DEF Changed
    <3>3. item \subseteq inserted BY <3>1 DEF JobInv
    <3> QED BY <1>0, <2>1, <3>1, <3>2, <3>3 DEF Shelved
  <2>9. CASE Add \/ (Cancel /\ Insert)
    <3>1. /\ run' \in {"thread", "over"} /\ UNCHANGED <<item, excused>> /\ inserted' = inserted \cup item
      BY <2>9 DEF Add, Cancel, Insert
    <3>2. \A g \in Hash : library'[g] = IF g \in item THEN "pending" ELSE library[g]
      BY <2>9 DEF Add, Insert
    <3> QED BY <1>0, <2>1, <3>1, <3>2 DEF Shelved
  <2>10. CASE Finishes \/ Raises \/ (Cancel /\ UNCHANGED <<inserted, library>>)
    <3>1. run' \in {"final", "over"} /\ UNCHANGED <<item, inserted, library, excused>>
      BY <2>10 DEF Finishes, Raises, Cancel
    <3> QED BY <2>1, <3>1 DEF Shelved
  <2>11. ASSUME NEW h \in Hash, Taken(h) PROVE Shelved'
    <3>1. /\ UNCHANGED <<run, item, inserted, excused>> /\ library[h] \in {"absent", "pending"}
          /\ library' = [library EXCEPT ![h] = "other"]
      BY <2>11 DEF Taken
    <3>2. \A g \in Hash : library'[g] = IF g = h THEN "other" ELSE library[g]
      BY <3>1 DEF JobTypes, Shelves
    <3> QED BY <1>0, <2>1, <3>1, <3>2 DEF Shelved
  <2>12. ASSUME NEW h \in Hash, Removed(h) PROVE Shelved'
    <3>1. /\ UNCHANGED <<run, item, inserted>> /\ excused' = excused \cup {h}
          /\ library' = [library EXCEPT ![h] = "absent"]
      BY <2>12 DEF Removed
    <3>2. \A g \in Hash : library'[g] = IF g = h THEN "absent" ELSE library[g]
      BY <3>1 DEF JobTypes, Shelves
    <3> QED BY <1>0, <2>1, <3>1, <3>2 DEF Shelved
  <2> QED BY <1>2, <2>3, <2>4, <2>5, <2>6, <2>7, <2>8, <2>9, <2>10, <2>11, <2>12
       DEF JobNext, InTime, Handles, Cancel
<1> QED BY <1>1, <1>2

\* An answer by old rules gets into the cache only if it was under way when they changed.
LEMMA AnsweringKept ==
    ASSUME CrawlInv, JobTypes, Answering, [JobNext]_jobVars
    PROVE  Answering'
<1> USE JobCrawlAssumption DEF Answering, CacheTrue, Classifier!CacheTrue, classifier, Classifier!classifier
<1>0. Classifier!NoCall.name = NoName BY DEF Classifier!NoCall
<1>1. CASE Compute
  <2>1. PICK h \in item : Classifier!Compute(NameOf[h]) BY <1>1 DEF Compute
  <2>2. NameOf[h] \in Name BY <2>1 DEF JobTypes, CrawlInv, CrawlTypes
  <2> QED BY <2>1, <2>2 DEF Classifier!Compute
<1>2. CASE Keep BY <1>2 DEF Keep, Classifier!Keep
<1>3. CASE Reload BY <1>0, <1>3 DEF Reload, Classifier!Reload
<1>4. CASE Clear BY <1>4 DEF Clear, Classifier!Clear
<1>5. ASSUME UNCHANGED classifier PROVE Answering' BY <1>5
<1>6. CASE Known BY <1>5, <1>6 DEF Known, Classifier!Answered
<1>7. CASE Listen \/ Leave \/ CrawlRuns \/ CrawlIsAnswered \/ UNCHANGED jobVars
  BY <1>5, <1>7 DEF Listen, Leave, CrawlRuns, CrawlIsAnswered, jobVars
<1>8. CASE Announced \/ Duplicate \/ Look \/ Add \/ Claim \/ Classify \/ Finishes \/ Over
  BY <1>5, <1>8 DEF Announced, Duplicate, Look, Add, Claim, Classify, Finishes, Over
<1>9. CASE TimesOut \/ Handled \/ ClassifierRaises \/ Raises \/ Cancel
  BY <1>5, <1>9 DEF TimesOut, Handled, ClassifierRaises, Raises, Cancel
<1>10. ASSUME NEW h \in Hash, Taken(h) \/ Removed(h) PROVE Answering'
  BY <1>5, <1>10 DEF Taken, Removed
<1> QED BY <1>1, <1>2, <1>3, <1>4, <1>6, <1>7, <1>8, <1>9, <1>10 DEF JobNext, InTime, Handles

\* The job and its crawl.
JobCrawlInv == CrawlInv /\ JobTypes /\ JobInv /\ EndTold /\ RowBarren /\ Shelved /\ Answering

\* The whole invariant holds in every state.
LEMMA JobCrawlInvHolds == JobSpec => []JobCrawlInv
<1>1. JobInit => JobCrawlInv BY JobBegins, CrawlBegins DEF JobInit, JobCrawlInv
<1>2. JobCrawlInv /\ [JobNext]_jobVars => JobCrawlInv'
  BY JobStepsCrawl, CrawlKept, JobTypesKept, JobInvKept, EndToldKept, RowBarrenKept, ShelvedKept, AnsweringKept
     DEF JobCrawlInv
<1> QED BY <1>1, <1>2, PTL DEF JobSpec

\* The row of a job counts the magnets that the crawl told and those that the job itself inserted;
\* a job that is done without a magnet was told of an error, and says "no_magnet" only if a page that
\* was fetched has none.
THEOREM CountsAreTrue == JobSpec => []CountsTrue
<1>1. JobCrawlInv => CountsTrue BY DEF JobCrawlInv, JobInv, RowBarren, BarrenTried, CountsTrue
<1> QED BY <1>1, JobCrawlInvHolds, PTL

\* The magnets of a job that is done are in the library, and its own are classified.
THEOREM RowsAreClassified == JobSpec => []RowsClassified
<1>1. JobCrawlInv => RowsClassified
  <2> SUFFICES ASSUME JobCrawlInv, row.status = "done", NEW h \in told \ excused
               PROVE  library[h] \in (IF h \in inserted THEN {"classified", "other"} ELSE {"other"})
    BY DEF RowsClassified
  <2>1. item = {} BY DEF JobCrawlInv, JobInv
  <2> QED BY <2>1 DEF JobCrawlInv, Shelved
<1> QED BY <1>1, JobCrawlInvHolds, PTL

\* After a reload the cache answers by the new rules, but for names that were under way.
THEOREM CacheIsTrue == JobSpec => []CacheTrue
<1>1. JobCrawlInv => CacheTrue BY DEF JobCrawlInv, Answering
<1> QED BY <1>1, JobCrawlInvHolds, PTL

=============================================================================
