------------------------------- MODULE JobCrawl -------------------------------
(***************************************************************************)
(* A crawl job with a slot (IngestService._run_job_inner from its first    *)
(* announcement on) as the caller of the crawl: each magnet is put in the  *)
(* library and classified in a worker thread, the row of the job counts    *)
(* what came, and each change of it is announced on the bus, whose         *)
(* subscribers the job waits for.                                          *)
(*                                                                         *)
(* What other flows and users do to the rows of the library is here only   *)
(* to meet this job; ItemLifecycle has it in full, with the calls of the   *)
(* store that outlive their task. A job table that fails is in CrawlJobs.  *)
(***************************************************************************)
EXTENDS SiteCrawl

CONSTANTS
    Name, NoName,
    NameOf,         \* Hash -> Name
    Subscribers,    \* how many callbacks an event of a job goes to
    MaxEvents       \* bound on what users and faults do

ASSUME JobCrawlAssumption ==
    /\ NameOf \in [Hash -> Name] /\ NoName \notin Name
    /\ Subscribers \in Nat /\ MaxEvents \in Nat

VARIABLES
    run,            \* where the job stands
    left,           \* the subscribers that have not returned from the event it waits for
    item,           \* the magnet it has been given and not counted yet
    row,            \* its row: [status, reason, found, added]
    library,        \* Hash -> what the library has of it
    inserted,       \* the magnets that the job has put there (history)
    excused,        \* those that somebody took out, or that the classifier raised at (history)
    rules, clearing, cache, call, raced,
    events

Classifier == INSTANCE LocalClassifier

\* The reason of a job that has none: in the code an empty string.
NoReason == "none"

crawling == <<crawl, queue, session, walker, caller>>
classifier == <<rules, clearing, cache, call, raced>>
job == <<run, left, item, row, inserted>>
shelf == <<library, excused>>
jobVars == <<crawling, job, shelf, classifier, events>>

JobInit ==
    /\ Init
    /\ Classifier!Init
    /\ run = "announce" /\ left = Subscribers
    /\ item = {} /\ inserted = {} /\ excused = {}
    /\ row = [status |-> "running", reason |-> NoReason, found |-> 0, added |-> 0]
    /\ library = [h \in Hash |-> "absent"]
    /\ events = 0

Spend == events < MaxEvents /\ events' = events + 1

-----------------------------------------------------------------------------
(* The bus *)

\* The event goes to all subscribers at once, each in a task of its own.
Emit(place) == run' = place /\ left' = Subscribers

\* A subscriber returns, or raises: the others do not notice.
Handled ==
    /\ left > 0
    /\ left' = left - 1
    /\ UNCHANGED <<crawling, run, item, row, inserted, shelf, classifier, events>>

\* Five seconds are over: the subscribers left are cancelled and not waited for any more.
TimesOut ==
    /\ left > 0
    /\ left' = 0
    /\ UNCHANGED <<crawling, run, item, row, inserted, shelf, classifier, events>>

\* The job goes on.
At(place) == run = place /\ left = 0

Goto(place) == run' = place /\ UNCHANGED left

-----------------------------------------------------------------------------
(* The crawl and its caller *)

Announced ==
    /\ At("announce")
    /\ Goto("reading")
    /\ UNCHANGED <<crawling, item, row, inserted, shelf, classifier, events>>

\* The reason of the error that came: that of its event, or the generator's own.
Heard == IF queue' = queue THEN Error.reason ELSE Head(queue).reason

\* What came: a magnet to look up, an error for the row, or what changes no count.
Hear ==
    \/ /\ told' # told
       /\ item' = told' \ told
       /\ Goto("looking") /\ UNCHANGED row
    \/ /\ complaints' # complaints
       /\ row' = [row EXCEPT !.reason = Heard]
       /\ Emit("reading") /\ UNCHANGED item
    \/ /\ told' = told /\ complaints' = complaints
       /\ UNCHANGED <<run, left, item, row>>

Listen ==
    /\ At("reading")
    /\ Reads
    /\ Hear
    /\ UNCHANGED <<inserted, shelf, classifier, events>>

\* Nobody reads the generator any more: the loop closes it.
Leave ==
    /\ run \in {"final", "over"}
    /\ Close
    /\ UNCHANGED <<job, shelf, classifier, events>>

\* What goes on without the job: what the loop runs when it is ready,
CrawlRuns ==
    /\ Runs \/ Reap \/ CancelSession \/ Closed
    /\ UNCHANGED <<job, shelf, classifier, events>>

\* and a page that comes back, or a thread that has searched one.
CrawlIsAnswered ==
    /\ Awaits
    /\ UNCHANGED <<job, shelf, classifier, events>>

-----------------------------------------------------------------------------
(* _handle_found *)

Counted_NewOnly(new) ==
    row' = [row EXCEPT !.found = IF new THEN @ + 1 ELSE @, !.added = IF new THEN @ + 1 ELSE @]

\* A magnet is found in any case, and added if this job put it in the library.
Counted(new) ==
    row' = [row EXCEPT !.found = @ + 1, !.added = IF new THEN @ + 1 ELSE @]

\* The magnet is counted, and the row announced.
Counts(new) ==
    /\ Counted(new)
    /\ item' = {}
    /\ Emit("reading")

\* The library has it already.
Duplicate ==
    /\ At("looking") \/ At("adding")
    /\ \A h \in item : library[h] # "absent"
    /\ Counts(FALSE)
    /\ UNCHANGED <<crawling, inserted, shelf, classifier, events>>

Look ==
    /\ At("looking")
    /\ \A h \in item : library[h] = "absent"
    /\ Goto("adding")
    /\ UNCHANGED <<crawling, item, row, inserted, shelf, classifier, events>>

\* INSERT OR IGNORE: another flow may have been first since.
Insert ==
    /\ inserted' = inserted \cup item
    /\ library' = [h \in Hash |-> IF h \in item THEN "pending" ELSE library[h]]

Add ==
    /\ At("adding")
    /\ \A h \in item : library[h] = "absent"
    /\ Insert
    /\ Emit("thread")
    /\ UNCHANGED <<crawling, item, row, excused, classifier, events>>

-----------------------------------------------------------------------------
(* _classify_one, and the thread *)

\* The cache knows the name.
Known ==
    /\ At("thread")
    /\ \E h \in item : Classifier!Answered(NameOf[h])
    /\ Goto("claiming")
    /\ UNCHANGED <<crawling, item, row, inserted, shelf, events>>

Compute ==
    /\ At("thread")
    /\ \E h \in item : Classifier!Compute(NameOf[h])
    /\ UNCHANGED <<crawling, job, shelf, events>>

\* The thread keeps its answer, whether or not the job still waits for it.
Keep ==
    /\ Classifier!Keep
    /\ IF run = "thread" THEN Goto("claiming") ELSE UNCHANGED <<run, left>>
    /\ UNCHANGED <<crawling, item, row, inserted, shelf, events>>

\* The thread cannot be used, or raises: failed() takes back only rows that say classifying, and
\* this one does not yet.
ClassifierRaises ==
    /\ Spend
    /\ At("thread") /\ call = Classifier!NoCall
    /\ excused' = excused \cup item
    /\ Counts(TRUE)
    /\ UNCHANGED <<crawling, inserted, library, classifier>>

Changed(from, to) == [h \in Hash |-> IF h \in item /\ library[h] = from THEN to ELSE library[h]]

Claim_Not ==
    /\ At("claiming")
    /\ Goto("writing")
    /\ UNCHANGED <<crawling, item, row, inserted, shelf, classifier, events>>

\* started(): a row that is pending, or nothing.
Claim ==
    /\ At("claiming")
    /\ library' = Changed("pending", "classifying")
    /\ Goto("writing")
    /\ UNCHANGED <<crawling, item, row, inserted, excused, classifier, events>>

\* classified(): a row that is classifying, or nothing.
Classify ==
    /\ At("writing")
    /\ library' = Changed("classifying", "classified")
    /\ Counts(TRUE)
    /\ UNCHANGED <<crawling, inserted, excused, classifier, events>>

-----------------------------------------------------------------------------
(* How the job ends *)

\* The generator is over: without a magnet the row keeps the reason of the last error.
Reason == IF row.found > 0 THEN NoReason ELSE IF row.reason = NoReason THEN "no_magnet" ELSE row.reason

Finishes ==
    /\ At("reading") /\ reader = "over"
    /\ row' = [row EXCEPT !.status = "done", !.reason = Reason]
    /\ Emit("final")
    /\ UNCHANGED <<crawling, item, inserted, shelf, classifier, events>>

\* The store of the library raises, or the crawler that has to start first.
Raises ==
    /\ Spend
    /\ \/ \E place \in {"looking", "adding", "claiming", "writing"} : At(place)
       \/ At("reading") /\ reader = "start"
    /\ row' = [row EXCEPT !.status = "error", !.reason = "fatal"]
    /\ Emit("final")
    /\ UNCHANGED <<crawling, item, inserted, shelf, classifier>>

\* The service shuts down.  Within the crawl the row goes back to queued; an insert that a thread
\* has begun may still take place.
Cancel ==
    /\ Spend
    /\ run # "over"
    /\ run' = "over" /\ left' = 0
    /\ row' = [row EXCEPT !.status = IF run \in {"announce", "final"} THEN @ ELSE "queued"]
    /\ \/ UNCHANGED <<inserted, library>>
       \/ run = "adding" /\ (\A h \in item : library[h] = "absent") /\ Insert
    /\ UNCHANGED <<crawling, item, excused, classifier>>

Over ==
    /\ At("final")
    /\ Goto("over")
    /\ UNCHANGED <<crawling, item, row, inserted, shelf, classifier, events>>

-----------------------------------------------------------------------------
(* Others *)

\* Another flow puts the magnet in the library, or the user downloads it before it is classified.
Taken(h) ==
    /\ Spend
    /\ library[h] \in {"absent", "pending"}
    /\ library' = [library EXCEPT ![h] = "other"]
    /\ UNCHANGED <<crawling, job, excused, classifier>>

\* The user takes it out.
Removed(h) ==
    /\ Spend
    /\ library[h] # "absent"
    /\ library' = [library EXCEPT ![h] = "absent"]
    /\ excused' = excused \cup {h}
    /\ UNCHANGED <<crawling, job, classifier>>

Reload ==
    /\ Spend
    /\ Classifier!Reload
    /\ UNCHANGED <<crawling, job, shelf>>

Clear ==
    /\ Classifier!Clear
    /\ UNCHANGED <<crawling, job, shelf, events>>

-----------------------------------------------------------------------------
Handles == Announced \/ Duplicate \/ Look \/ Add \/ Known \/ Compute \/ Claim \/ Classify \/ Finishes \/ Over

\* What happens in time by itself: the loop runs what is ready, timers fire, and the threads of
\* the library and of the classifier come to an end.
InTime == TimesOut \/ Listen \/ Leave \/ CrawlRuns \/ Handles \/ Keep

JobNext ==
    \/ InTime
    \/ CrawlIsAnswered \/ Handled
    \/ ClassifierRaises \/ Raises \/ Cancel
    \/ Reload \/ Clear
    \/ \E h \in Hash : Taken(h) \/ Removed(h)

\* No fetch need ever come back, no thread that searches a page end, and no subscriber return.
JobFairness == WF_jobVars(InTime)

JobSpec == JobInit /\ [][JobNext]_jobVars /\ JobFairness

-----------------------------------------------------------------------------
CacheTrue == Classifier!CacheTrue

\* The row of the job counts the magnets that the crawl has told, but for the one the job is
\* about to handle, and those of them that the job itself put in the library, however it ends
\* and whatever others do at that moment. A job that is done gives a reason exactly if there was no
\* magnet; it was then told of an error, so that the reason is that error's, and "no_magnet" is only
\* said when a page that came back had none.
CountsTrue ==
    /\ row.found = Cardinality(told \ item)
    /\ row.added = Cardinality(inserted \ item)
    /\ row.status = "done" =>
          /\ item = {}
          /\ row.reason = NoReason <=> told # {}
          /\ told = {} => complaints > 0
          /\ row.reason = "no_magnet" => \E p \in Page : tries[p] > 0 /\ Magnets[p] = {}

\* When a job is done, every magnet it was told of is in the library, and those it put there are
\* classified or in somebody else's hands, but for those that the user took out or the
\* classifier raised at.
RowsClassified ==
    row.status = "done" =>
        \A h \in told \ excused :
            library[h] \in (IF h \in inserted THEN {"classified", "other"} ELSE {"other"})

\* A job ends, whether or not its fetches and the subscribers of the bus do, and so do its crawl and
\* the fetches of it.
JobEnds == <>(run = "over" /\ reader \in {"start", "over"} /\ running = {})
=============================================================================
