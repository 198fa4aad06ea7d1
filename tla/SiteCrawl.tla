------------------------------- MODULE SiteCrawl -------------------------------
(***************************************************************************)
(* One crawl: the generator MagnetCrawler.crawl that its caller reads, the *)
(* session task it starts, the bounded queue between them, and the walker  *)
(* that takes the session from page to page, with a task for each page of  *)
(* a level.                                                                *)
(*                                                                         *)
(* A page answers at its own address. What a fetch comes to is decided     *)
(* when the walker takes it: the order in which the walker takes them is   *)
(* the one in which they came back.                                        *)
(***************************************************************************)
EXTENDS Naturals, FiniteSets, Sequences, SequencesExt

CONSTANTS
    Page,
    Root,
    Links,          \* Page -> Seq(Page): the detail links that a page shows, in its order
    Hash,
    Magnets,        \* Page -> SUBSET Hash: what extraction finds in it
    RootIsDetail,   \* the address that the user copied is a detail page
    MaxLinks,       \* max_detail_links
    Depth,
    QueueSize,
    NoReport, NoPage

ASSUME CrawlAssumption ==
    /\ Root \in Page /\ NoPage \notin Page
    /\ Links \in [Page -> Seq(Page)]
    /\ \A p \in Page : IsInjective(Links[p]) /\ p \notin Range(Links[p])
    /\ Magnets \in [Page -> SUBSET Hash] /\ IsFiniteSet(Hash)
    /\ RootIsDetail \in BOOLEAN
    /\ MaxLinks \in Nat /\ Depth \in Nat \ {0} /\ QueueSize \in Nat \ {0}

VARIABLES
    reader,         \* where crawl() stands
    late,           \* timed_out_metrics is set
    queue,          \* events
    at,             \* where the session stands
    out,            \* what it is to put, the event it is putting first
    found, errors,  \* metrics: magnets_found, errors
    seen,           \* the hashes it has found
    page,           \* the page it is working on: [url, ok]
    walk,           \* where the walker stands
    level,
    asked,          \* _seen of the walker
    running,        \* the pages whose fetch the walker has not taken
    todo,           \* next_level
    failed, good,   \* of this level: the pages that failed; detail_ok: pages that did not
    browser,        \* _browser_all
    tries,          \* how often each page has been fetched (for the properties)
    told, complaints, report  \* what the caller has been given (for the properties)

crawl == <<reader, late>>
session == <<at, out, found, errors, seen, page>>
walker == <<walk, level, asked, running, todo, failed, good, browser, tries>>
caller == <<told, complaints, report>>
vars == <<crawl, queue, session, walker, caller>>

Progress == [type |-> "progress"]
\* What the code gives as the reason of an error: that a page has no magnet, or anything else (an
\* address refused, a page that did not come back, a thread or a walker that raised, a timeout).
Error == [type |-> "error", reason |-> "failed"]
NoMagnet == [type |-> "error", reason |-> "no_magnet"]
Found(h) == [type |-> "found", hash |-> h]
Done(t, e) == [type |-> "done", total |-> t, errors |-> e]
Sentinel == [type |-> "none"]

Init ==
    /\ reader = "start" /\ late = FALSE
    /\ queue = <<>>
    /\ at = "over" /\ out = <<>> /\ found = 0 /\ errors = 0 /\ seen = {} /\ page = [url |-> NoPage, ok |-> FALSE]
    /\ walk = "none" /\ level = 0 /\ asked = {Root} /\ running = {} /\ todo = {}
    /\ failed = {} /\ good = {} /\ browser = FALSE /\ tries = [p \in Page |-> 0]
    /\ told = {} /\ complaints = 0 /\ report = NoReport

-----------------------------------------------------------------------------
(* The session *)

\* It is to put these events; a magnet is counted as soon as its turn comes.
Puts(s) ==
    /\ out' = s
    /\ found' = IF s # <<>> /\ Head(s).type = "found" THEN found + 1 ELSE found

\* An error is counted, and its event put.
Fails ==
    /\ errors' = errors + 1
    /\ Puts(<<Error>>) /\ at' = "put"
    /\ UNCHANGED <<seen, page>>

\* After an event: the next one, or the end, or the walker is asked for a page.
AfterPut == IF Tail(out) # <<>> THEN "put" ELSE IF Head(out) = Sentinel THEN "over" ELSE "next"

Put_Drops ==
    /\ at = "put"
    /\ queue' = IF Len(queue) < QueueSize THEN Append(queue, Head(out)) ELSE queue
    /\ Puts(Tail(out))
    /\ at' = AfterPut
    /\ UNCHANGED <<crawl, errors, seen, page, walker, caller>>

\* An event goes into the queue when it has room.
Put ==
    /\ at = "put" /\ Len(queue) < QueueSize
    /\ queue' = Append(queue, Head(out))
    /\ Puts(Tail(out))
    /\ at' = AfterPut
    /\ UNCHANGED <<crawl, errors, seen, page, walker, caller>>

\* The page that came back: a failure is told at once, a page is searched in a thread.
Takes(p, ok) ==
    /\ page' = [url |-> p, ok |-> ok]
    /\ IF ok
       THEN at' = "extract" /\ UNCHANGED <<out, found, errors, seen>>
       ELSE /\ errors' = errors + 1 /\ Puts(<<Error>>) /\ at' = "put" /\ UNCHANGED seen

\* The walker raises: the links of a page cannot be read.  It is left as it stands, with the
\* fetches that it has started; the session tells, and reports.
Breaks ==
    /\ walk' = "gone" /\ at' = "put"
    /\ errors' = errors + 1
    /\ Puts(<<Error, Done(found, errors + 1), Sentinel>>)
    /\ UNCHANGED <<seen, page, level, asked, todo, failed, good, browser, tries>>

Fresh_Any(p) == SetToSeq(Magnets[p])

\* The magnets of a page that the session has not found before.
Fresh(p) == SetToSeq(Magnets[p] \ seen)

\* A page without any magnet is an error, but for a root that lists pages.
Barren(p) == Magnets[p] = {} /\ ~(p = Root /\ todo # {})

\* The thread that looks for magnets in a page is done, or it raises.
Extract ==
    /\ at = "extract"
    /\ \/ Fails
       \/ LET fresh == Fresh(page.url)
              news == [i \in DOMAIN fresh |-> Found(fresh[i])]
              all == news \o (IF Barren(page.url) THEN <<NoMagnet>> ELSE <<>>)
                          \o (IF fresh # <<>> THEN <<Progress>> ELSE <<>>)
          IN  /\ Puts(all)
              /\ at' = IF all = <<>> THEN "next" ELSE "put"
              /\ errors' = IF Barren(page.url) THEN errors + 1 ELSE errors
              /\ seen' = seen \cup Magnets[page.url]
              /\ UNCHANGED page
    /\ UNCHANGED <<crawl, queue, walker, caller>>

-----------------------------------------------------------------------------
(* The walker.  From "next" to "walk" it runs without an await. *)

\* The walker starts to fetch these pages.
Fetches(pages, where) ==
    /\ running' = pages /\ walk' = where
    /\ tries' = [p \in Page |-> IF p \in pages THEN tries[p] + 1 ELSE tries[p]]
    /\ at' = "walk"
    /\ UNCHANGED <<out, found, errors, seen, page>>

FetchRoot ==
    /\ at = "next" /\ walk = "none"
    /\ Fetches({Root}, "root")
    /\ UNCHANGED <<crawl, queue, level, asked, todo, failed, good, browser, caller>>

\* The links of the root that are followed, if it is no detail page itself.
FirstLinks ==
    IF RootIsDetail THEN {} ELSE {Links[Root][i] : i \in {j \in DOMAIN Links[Root] : j <= MaxLinks}}

\* The root comes back, by HTTP or by the browser, or it failed.
TakeRoot ==
    /\ at = "walk" /\ walk = "root"
    /\ \/ \E ok \in BOOLEAN :
             /\ Takes(Root, ok)
             /\ browser' \in {FALSE, ok}
             /\ todo' = IF ok THEN FirstLinks ELSE {}
             /\ UNCHANGED <<walk, level, asked, failed, good, tries>>
       \/ /\ ~RootIsDetail /\ MaxLinks > 0
          /\ Breaks
    /\ running' = {}
    /\ UNCHANGED <<crawl, queue, caller>>

\* A detail page comes back, or it failed.
TakePage(p) ==
    /\ at = "walk" /\ walk # "root" /\ p \in running
    /\ running' = running \ {p}
    /\ \E ok \in BOOLEAN :
          /\ Takes(p, ok)
          /\ good' = IF ok THEN good \cup {p} ELSE good
          /\ failed' = IF ok \/ walk # "level" THEN failed ELSE failed \cup {p}
          /\ browser' = (browser \/ (ok /\ walk = "probe"))
    /\ UNCHANGED <<crawl, queue, walk, level, asked, todo, tries, caller>>

Room_Endless(p) == Len(Links[p])

\* How many links of p the walker may still take on.
Room(p) == IF Cardinality(asked) > MaxLinks THEN 0 ELSE MaxLinks + 1 - Cardinality(asked)

\* The links of a page that are taken on: the first that nobody has asked for, if there is room.
NewLinks(p) ==
    LET new == {j \in DOMAIN Links[p] : Links[p][j] \notin asked}
    IN  {Links[p][j] : j \in {k \in new : Cardinality(new \cap 1..k) <= Room(p)}}

Turn == at' = "turn" /\ UNCHANGED <<out, found, errors, seen, page>>

\* The links of the page that came back are taken on, unless the walk ends with this level.
Follow ==
    /\ at = "next" /\ walk # "none"
    /\ \/ /\ walk = "level" /\ page.ok /\ level < Depth
          /\ \/ /\ asked' = asked \cup NewLinks(page.url)
                /\ todo' = todo \cup NewLinks(page.url)
                /\ Turn
                /\ UNCHANGED <<walk, level, running, failed, good, browser, tries>>
             \/ Breaks /\ UNCHANGED running
       \/ /\ ~(walk = "level" /\ page.ok /\ level < Depth)
          /\ asked' = asked \cup todo
          /\ Turn
          /\ UNCHANGED <<walk, level, running, todo, failed, good, browser, tries>>
    /\ UNCHANGED <<crawl, queue, caller>>

\* More of the fetches are to come back.
Waits ==
    /\ at = "turn" /\ running # {}
    /\ at' = "walk"
    /\ UNCHANGED <<crawl, queue, out, found, errors, seen, page, walker, caller>>

\* No page of the first level came back: one is fetched with the browser,
NeedsProbe == walk = "level" /\ level = 1 /\ failed # {} /\ ~browser /\ good = {}

\* and if that helps, so are the others.
NeedsRescue == walk = "probe" /\ page.ok /\ failed # {}

\* The code takes the one that failed first.
Probe ==
    /\ at = "turn" /\ running = {} /\ NeedsProbe
    /\ \E p \in failed : failed' = failed \ {p} /\ Fetches({p}, "probe")
    /\ UNCHANGED <<crawl, queue, level, asked, todo, good, browser, caller>>

Rescue ==
    /\ at = "turn" /\ running = {} /\ NeedsRescue
    /\ failed' = {} /\ Fetches(failed, "rescue")
    /\ UNCHANGED <<crawl, queue, level, asked, todo, good, browser, caller>>

\* The next level begins: the one after the root, or the links found on this one.
Descend ==
    /\ at = "turn" /\ running = {} /\ ~NeedsProbe /\ ~NeedsRescue
    /\ todo # {} /\ level < Depth
    /\ level' = level + 1
    /\ todo' = {} /\ failed' = {} /\ Fetches(todo, "level")
    /\ UNCHANGED <<crawl, queue, asked, good, browser, caller>>

\* Or there is none, and the session reports.
Ends ==
    /\ at = "turn" /\ running = {} /\ ~NeedsProbe /\ ~NeedsRescue
    /\ todo = {} \/ level >= Depth
    /\ walk' = "gone" /\ at' = "put"
    /\ Puts(<<Done(found, errors), Sentinel>>)
    /\ UNCHANGED <<crawl, queue, errors, seen, page, level, asked, running, todo, failed, good,
                   browser, tries, caller>>

\* The loop closes a walker that was left, and with it ends its fetches.
Reap ==
    /\ walk = "gone" /\ running # {}
    /\ running' = {}
    /\ UNCHANGED <<crawl, queue, session, walk, level, asked, todo, failed, good, browser, tries,
                   caller>>

-----------------------------------------------------------------------------
(* The generator *)

\* The caller begins to read.  An address that is not admitted is told, and reported next.
Refuse ==
    /\ reader = "start"
    /\ reader' = "refused"
    /\ complaints' = 1
    /\ UNCHANGED <<late, queue, session, walker, told, report>>

Refused ==
    /\ reader = "refused"
    /\ reader' = "over"
    /\ report' = [total |-> 0, errors |-> 1]
    /\ UNCHANGED <<late, queue, session, walker, told, complaints>>

\* Or the session is started, and its first event awaited.
Begin ==
    /\ reader = "start"
    /\ reader' = "waits"
    /\ at' = "put" /\ Puts(<<Progress>>)
    /\ UNCHANGED <<late, queue, errors, seen, page, walker, caller>>

\* The caller gets the next event; nothing comes after Sentinel.
Delivers ==
    LET e == Head(queue)
    IN  /\ queue' = Tail(queue)
        /\ reader' = IF e = Sentinel THEN "closing" ELSE "away"
        /\ told' = IF e.type = "found" THEN told \cup {e.hash} ELSE told
        /\ complaints' = IF e.type = "error" THEN complaints + 1 ELSE complaints
        /\ report' = IF e.type = "done" THEN [total |-> e.total, errors |-> e.errors] ELSE report

\* The caller comes back for more.
Ask ==
    /\ reader = "away"
    /\ IF late THEN reader' = "finish" /\ UNCHANGED <<queue, caller>>
       ELSE IF queue # <<>> THEN Delivers
       ELSE reader' = "waits" /\ UNCHANGED <<queue, caller>>
    /\ UNCHANGED <<late, session, walker>>

Get ==
    /\ reader = "waits" /\ queue # <<>>
    /\ Delivers
    /\ UNCHANGED <<late, session, walker>>

\* Too long without an event, while the session waits for a page or the thread.  (An event that
\* comes at that very moment is lost like those that come while the caller is told.)
Timeout ==
    /\ reader = "waits" /\ queue = <<>>
    /\ at \in {"walk", "extract"}
    /\ late' = TRUE /\ reader' = "away"
    /\ errors' = errors + 1
    /\ complaints' = complaints + 1
    /\ UNCHANGED <<queue, at, out, found, seen, page, walker, told, report>>

\* The caller closes the generator, or is cancelled where it waits.
Close ==
    /\ reader \in {"refused", "away", "waits", "finish"}
    /\ reader' = "closing"
    /\ UNCHANGED <<late, queue, session, walker, caller>>

CancelSession_WhenIdle ==
    /\ reader \in {"finish", "closing"} /\ at \notin {"over", "walk"}
    /\ at' = "over" /\ out' = <<>>
    /\ walk' = "gone"
    /\ UNCHANGED <<crawl, queue, found, errors, seen, page, level, asked, running, todo, failed, good,
                   browser, tries, caller>>

\* _finish_session_task: a session that goes on is cancelled.  One that waits for pages ends their
\* fetches first; a walker that waits to be asked is left as it is.
CancelSession ==
    /\ reader \in {"finish", "closing"} /\ at # "over"
    /\ at' = "over" /\ out' = <<>>
    /\ walk' = "gone"
    /\ running' = IF at = "walk" THEN {} ELSE running
    /\ UNCHANGED <<crawl, queue, found, errors, seen, page, level, asked, todo, failed, good, browser,
                   tries, caller>>

\* The session is over.  After a timeout the generator reports what has been counted.
Finish ==
    /\ reader = "finish" /\ at = "over"
    /\ reader' = "over"
    /\ report' = [total |-> found, errors |-> errors]
    /\ UNCHANGED <<late, queue, session, walker, told, complaints>>

Closed ==
    /\ reader = "closing" /\ at = "over"
    /\ reader' = "over"
    /\ UNCHANGED <<late, queue, session, walker, caller>>

-----------------------------------------------------------------------------

\* What the session does without waiting for a page or the thread.
Runs == Put \/ FetchRoot \/ Follow \/ Waits \/ Probe \/ Rescue \/ Descend \/ Ends

Awaits == Extract \/ TakeRoot \/ \E p \in Page : TakePage(p)

\* What a caller who reads on may see.
Reads == Refuse \/ Refused \/ Begin \/ Ask \/ Get \/ Timeout \/ Finish

Next == Runs \/ Awaits \/ Reap \/ Reads \/ Close \/ CancelSession \/ Closed

Spec == Init /\ [][Next]_vars

-----------------------------------------------------------------------------

TypeOK ==
    /\ reader \in {"start", "refused", "away", "waits", "finish", "closing", "over"}
    /\ late \in BOOLEAN
    /\ Len(queue) <= QueueSize
    /\ at \in {"put", "next", "turn", "walk", "extract", "over"}
    /\ found \in 0..Cardinality(Hash) /\ errors \in Nat /\ seen \subseteq Hash
    /\ page \in [url : Page \cup {NoPage}, ok : BOOLEAN]
    /\ walk \in {"none", "root", "level", "probe", "rescue", "gone"}
    /\ level \in 0..Depth
    /\ {asked, running, todo, failed, good} \subseteq SUBSET Page
    /\ browser \in BOOLEAN
    /\ tries \in [Page -> 0..2]
    /\ told \subseteq Hash /\ complaints \in Nat
    /\ report = NoReport \/ report \in [total : Nat, errors : Nat]

Stream == INSTANCE CrawlStream
    WITH Hash <- Hash, NoReport <- NoReport, told <- told, complaints <- complaints, late <- late,
         report <- report

\* The caller is given each magnet once, and one report, the last of all, that counts what it was
\* given; only after a timeout may it count more.
ImplementsStream == Stream!Spec

\* The walker fetches no more pages than it may, and a page again only if it has failed, as did
\* all pages of its level.
WalkBounded ==
    /\ Cardinality({p \in Page : tries[p] > 0}) <= MaxLinks + 1
    /\ \A p \in Page : tries[p] <= 2
    /\ (\E p \in Page : tries[p] = 2) => \A q \in good : tries[q] = 2

\* A crawl that reports no error has given all magnets of the root and of the pages it lists.
NothingLost ==
    report # NoReport /\ complaints = 0 /\ ~late
        => /\ Magnets[Root] \subseteq told
           /\ ~RootIsDetail => \A i \in DOMAIN Links[Root] :
                 i <= MaxLinks => Magnets[Links[Root][i]] \subseteq told
=============================================================================
