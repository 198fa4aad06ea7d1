-------------------------- MODULE Connections_proofs -------------------------
(***************************************************************************)
(* Theorems about what is opened, shared and closed: the clients of the hot *)
(* swap (QBitRuntime), for any clients, requests and bounds, and components *)
(* that may refuse what they are given; the HTTP session and the browser of *)
(* the page fetches (PageFetch), for any fetches, hosts and limits.        *)
(***************************************************************************)
EXTENDS QBitRuntime, PageFetch, FiniteSetTheorems, TLAPS

(***************************************************************************)
(* The hot swap.                                                           *)
(***************************************************************************)

\* The groups of variables are only names for tuples.
USE DEF clients, config, transaction, history

-----------------------------------------------------------------------------
(***************************************************************************)
(* The inductive invariant.                                                *)
(***************************************************************************)

\* The lock is held as long as a transaction is under way, and its two clients exist.
Locked ==
    /\ closed \subseteq created
    /\ step = "idle" <=> holder = NoRequest
    /\ step # "idle" => new \in created /\ old \in created /\ new # old

\* Whom the components call in each phase; the target changes last and is never stuck.
Handed ==
    /\ \A d \in Component : used[d] \in created
    /\ "target" \notin stuck
    /\ step = "idle" => \A d \in Component \ stuck : used[d] = used["target"]
    /\ step \in {"ping", "commit", "abandon"} => \A d \in Component \ stuck : used[d] = old
    /\ step = "sync" => \A d \in Component \ (stuck \cup {"pipeline"}) : used[d] = old
    /\ step = "back" => \A d \in Component \ (stuck \cup {"sync"}) : used[d] = old
    /\ step \in {"sync", "back"} => \A d \in Component \ stuck : used[d] \in {old, new}
    /\ step = "closing" => \A d \in Component : used[d] = new

\* The candidate is open until it is given up.
CandidateOpen == step # "idle" => new \notin closed

\* What was built and is neither closed nor orphaned is one of the two clients at hand.
Accounted ==
    IF step = "idle" THEN created \subseteq closed \cup orphaned \cup {used["target"]}
    ELSE created \subseteq closed \cup orphaned \cup {old, new}

\* The settings are those of the client the transaction started from.
Settled ==
    IF step = "idle" THEN used["target"] \notin severed => live = used["target"]
    ELSE old \notin severed => live = old

SwapInv ==
    /\ TypeOK /\ Locked /\ Handed /\ CandidateOpen /\ Accounted /\ Settled /\ ServedByOpen

-----------------------------------------------------------------------------
\* The actions that begin and end outside a transaction keep the invariant.
LEMMA RequestsKeep ==
    ASSUME SwapInv, NEW r \in Request, Put(r) \/ Begin(r) \/ Refuse(r) \/ WaitCancelled(r)
    PROVE  SwapInv'
<1> USE SwapAssumption DEF SwapInv, TypeOK, Answer, Step, Component
<1>1. CASE Put(r)
  BY <1>1 DEF Put, Locked, Handed, CandidateOpen, Accounted, Settled, ServedByOpen
<1>2. CASE Begin(r)
  <2> USE <1>2 DEF Begin
  <2>1. TypeOK'
    OBVIOUS
  <2>2. Locked'
    BY DEF Locked, Handed
  <2>3. Handed'
    BY DEF Locked, Handed
  <2>4. CandidateOpen' /\ Accounted' /\ Settled' /\ ServedByOpen'
    BY DEF Locked, Handed, CandidateOpen, Accounted, Settled, ServedByOpen
  <2> QED BY <2>1, <2>2, <2>3, <2>4
<1>3. CASE Refuse(r)
  BY <1>3 DEF Refuse, Locked, Handed, CandidateOpen, Accounted, Settled, ServedByOpen
<1>4. CASE WaitCancelled(r)
  BY <1>4 DEF WaitCancelled, Event, Locked, Handed, CandidateOpen, Accounted, Settled, ServedByOpen
<1> QED BY <1>1, <1>2, <1>3, <1>4

\* Validation keeps the invariant: nobody calls the candidate yet.
LEMMA ValidationKeeps ==
    ASSUME SwapInv, Unreachable \/ PingCancelled \/ PersistFails \/ Persist
    PROVE  SwapInv'
<1> USE SwapAssumption DEF SwapInv, TypeOK, Answer, Step, Component
<1>1. ASSUME NEW answer \in Answer, Discard(answer), events' \in 0..MaxEvents PROVE SwapInv'
  <2> USE <1>1 DEF Discard, End
  <2>1. TypeOK' /\ Locked' /\ CandidateOpen'
    BY DEF Locked, CandidateOpen
  <2>2. Handed' /\ Settled'
    BY DEF Handed, Settled
  <2>3. Accounted' /\ ServedByOpen'
    BY DEF Locked, Handed, Accounted, ServedByOpen
  <2> QED BY <2>1, <2>2, <2>3
<1>2. CASE Unreachable
  BY <1>1, <1>2 DEF Unreachable
<1>3. CASE PingCancelled
  BY <1>1, <1>3 DEF PingCancelled, Event
<1>4. CASE PersistFails
  BY <1>1, <1>4 DEF PersistFails, Event
<1>5. CASE Persist
  BY <1>5 DEF Persist, Goes, Locked, Handed, CandidateOpen, Accounted, Settled, ServedByOpen
<1> QED BY <1>2, <1>3, <1>4, <1>5

\* The commit keeps the invariant.
LEMMA CommitKeeps ==
    ASSUME SwapInv, CommitPipeline \/ CommitRest
    PROVE  SwapInv'
<1> USE SwapAssumption DEF SwapInv, TypeOK, Answer, Step, Component, Goes
<1>1. CASE CommitPipeline
  BY <1>1 DEF CommitPipeline, Locked, Handed, CandidateOpen, Accounted, Settled, ServedByOpen
<1>2. CASE CommitRest
  BY <1>2 DEF CommitRest, Locked, Handed, CandidateOpen, Accounted, Settled, ServedByOpen
<1> QED BY <1>1, <1>2

\* Whatever the components use when a commit fails, its rollback keeps the invariant.
LEMMA RollBackKeeps ==
    ASSUME SwapInv, step \in {"commit", "sync"}, events' \in 0..MaxEvents,
           NEW answer \in Answer, NEW u \in {used, [used EXCEPT !["sync"] = new]},
           RollBack(u, answer)
    PROVE  SwapInv'
<1> USE SwapAssumption DEF SwapInv, TypeOK, Answer, Step, Component, Goes, RollBack
<1>1. TypeOK'
  <2>1. old \in Client /\ new \in Client
    BY DEF Locked
  <2>2. u \in [Component -> Client]
    BY <2>1
  <2>3. used' = [u EXCEPT !["pipeline"] = old] \/ used' = u
    OBVIOUS
  <2>4. used' \in [Component -> Client]
    BY <2>1, <2>2, <2>3
  <2>5. stuck' \subseteq Component
    OBVIOUS
  <2> QED BY <2>4, <2>5
<1>2. Locked' /\ CandidateOpen' /\ Accounted'
  BY DEF Locked, CandidateOpen, Accounted
<1>3. Settled'
  BY DEF Settled
<1>4. Handed'
  BY DEF Locked, Handed
<1>5. ServedByOpen'
  BY DEF Locked, Handed, CandidateOpen, ServedByOpen
<1> QED BY <1>1, <1>2, <1>3, <1>4, <1>5

\* So does every way a commit fails, and the rest of the rollback.
LEMMA FailureKeeps ==
    ASSUME SwapInv,
           CommitCancelled \/ CommitTimesOut \/ CommitRefused \/ RollBackRest \/ RollBackCancelled
    PROVE  SwapInv'
<1> USE SwapAssumption
<1>1. CASE CommitCancelled
  BY <1>1, RollBackKeeps DEF CommitCancelled, Event, SwapInv, TypeOK, Answer
<1>2. CASE CommitTimesOut
  BY <1>2, RollBackKeeps DEF CommitTimesOut, SwapInv, TypeOK, Answer
<1>3. CASE CommitRefused
  BY <1>3, RollBackKeeps DEF CommitRefused, SwapInv, TypeOK, Answer
<1>4. CASE RollBackRest
  <2> USE <1>4 DEF RollBackRest, SwapInv, TypeOK, Answer, Step, Component, Goes
  <2>1. TypeOK' /\ Locked' /\ CandidateOpen' /\ Accounted' /\ Settled'
    BY DEF Locked, CandidateOpen, Accounted, Settled
  <2>2. Handed'
    BY DEF Locked, Handed
  <2>3. ServedByOpen'
    BY DEF Locked, Handed, CandidateOpen, ServedByOpen
  <2> QED BY <2>1, <2>2, <2>3
<1>5. CASE RollBackCancelled
  BY <1>5 DEF RollBackCancelled, Event, SwapInv, TypeOK, Answer, Step, Component, Goes, Locked,
     Handed, CandidateOpen, Accounted, Settled, ServedByOpen
<1> QED BY <1>1, <1>2, <1>3, <1>4, <1>5

\* A file whose configuration is unknown is not restored.
LEMMA NothingRestored == RestoreConfig => UNCHANGED config
BY SwapAssumption DEF RestoreConfig, StoredConfig

\* The ends of a transaction keep the invariant.
LEMMA EndsKeep ==
    ASSUME SwapInv, Abandon \/ AbandonCancelled \/ CloseOld \/ CloseOldCancelled
    PROVE  SwapInv'
<1> USE SwapAssumption DEF SwapInv, TypeOK, Answer, Step, Component, End
<1>1. ASSUME step = "abandon", closed' = closed \cup {new}, UNCHANGED config,
             NEW answer \in Answer, End(answer), events' \in 0..MaxEvents,
             UNCHANGED <<used, created, history>>
      PROVE  SwapInv'
  <2> USE <1>1
  <2>1. TypeOK' /\ Locked' /\ CandidateOpen' /\ Handed' /\ Settled'
    BY DEF Locked, Handed, CandidateOpen, Settled
  <2>2. Accounted' /\ ServedByOpen'
    BY DEF Locked, Handed, Accounted, ServedByOpen
  <2> QED BY <2>1, <2>2
<1>2. CASE Abandon
  BY <1>1, <1>2, NothingRestored DEF Abandon
<1>3. CASE AbandonCancelled
  BY <1>1, <1>3 DEF AbandonCancelled, Event
<1>4. CASE CloseOld
  <2> USE <1>4 DEF CloseOld
  <2>1. TypeOK' /\ Locked' /\ CandidateOpen' /\ Handed' /\ Settled'
    BY DEF Locked, Handed, CandidateOpen, Settled
  <2>2. Accounted' /\ ServedByOpen'
    BY DEF Locked, Handed, CandidateOpen, Accounted, ServedByOpen
  <2> QED BY <2>1, <2>2
<1>5. CASE CloseOldCancelled
  <2> USE <1>5, NothingRestored DEF CloseOldCancelled, Event
  <2>1. TypeOK' /\ Locked' /\ CandidateOpen' /\ Handed' /\ Settled'
    BY DEF Locked, Handed, CandidateOpen, Settled
  <2>2. Accounted' /\ ServedByOpen'
    BY DEF Locked, Handed, CandidateOpen, Accounted, ServedByOpen
  <2> QED BY <2>1, <2>2
<1> QED BY <1>2, <1>3, <1>4, <1>5

\* The invariant holds in every state.
LEMMA InvariantHolds == Spec => []SwapInv
<1>1. Init => SwapInv
  BY SwapAssumption DEF Init, SwapInv, TypeOK, Answer, Step, Component, Locked, Handed,
     CandidateOpen, Accounted, Settled, ServedByOpen
<1>2. SwapInv /\ [Next]_vars => SwapInv'
  <2> SUFFICES ASSUME SwapInv, [Next]_vars PROVE SwapInv'
    OBVIOUS
  <2>1. CASE Next
    BY <2>1, RequestsKeep, ValidationKeeps, CommitKeeps, FailureKeeps, EndsKeep
       DEF Next, Transaction
  <2>2. CASE UNCHANGED vars
    BY <2>2 DEF vars, SwapInv, TypeOK, Locked, Handed, CandidateOpen, Accounted, Settled,
       ServedByOpen
  <2> QED BY <2>1, <2>2
<1> QED BY <1>1, <1>2, PTL DEF Spec

-----------------------------------------------------------------------------
(***************************************************************************)
(* The theorems.                                                           *)
(***************************************************************************)

\* The state of the swap keeps its types.
THEOREM TypeCorrect == Spec => []TypeOK
<1> QED BY InvariantHolds, PTL DEF SwapInv

\* Between transactions all components call one client.
THEOREM AlwaysAligned == Spec => []Aligned
<1>1. SwapInv => Aligned
  BY DEF SwapInv, Handed, Aligned
<1> QED BY <1>1, InvariantHolds, PTL

\* No component is left with a closed client, except after a cancelled closing.
THEOREM AlwaysServed == Spec => []ServedByOpen
<1> QED BY InvariantHolds, PTL DEF SwapInv

\* Every client built is in use, closed, or orphaned by a cancelled closing.
THEOREM NoLeak == Spec => []NothingLeaks
<1>1. SwapInv => NothingLeaks
  BY DEF SwapInv, Accounted, NothingLeaks
<1> QED BY <1>1, InvariantHolds, PTL

\* The settings in memory are those of the client in use.
THEOREM SettingsMatch == Spec => []SettingsFollow
<1>1. SwapInv => SettingsFollow
  BY DEF SwapInv, Settled, SettingsFollow
<1> QED BY <1>1, InvariantHolds, PTL

-----------------------------------------------------------------------------
(***************************************************************************)
(* The page fetches.                                                       *)
(***************************************************************************)

\* Who opens a session or starts a browser is alone with it and finds none.
OpensAlone ==
    /\ \A f, g \in Fetch : pc[f] = "opening" /\ pc[g] = "opening" => f = g
    /\ \A f, g \in Fetch : pc[f] = "starting" /\ pc[g] = "starting" => f = g
    /\ (\E f \in Fetch : pc[f] = "opening") => ~http /\ ~half
    /\ (\E f \in Fetch : pc[f] = "starting") => ~browser

\* What a fetch at work has: no page yet, tries left if it will try again, and a reason to be at
\* the browser.
AtWork ==
    \A f \in Fetch :
        /\ pc[f] # "idle" => given[f] = Nothing
        /\ pc[f] = "backoff" => attempt[f] < MaxRetries
        /\ pc[f] \in {"browser", "starting", "browse"} /\ last[f] = "unsafe" => ~HttpFirst
        /\ pc[f] = "admit" => last[f] \in Answers

\* A host is asked by no more fetches at a time than it has slots, and the limiter lets one of them
\* wait for its turn (PageFetcher._slot, RateLimiter.acquire).
HostSpared ==
    /\ \A h \in Host : Cardinality({f \in Fetch : Inside(f) /\ HostOf[f] = h}) <= Slots
    /\ \A f, g \in Fetch : pc[f] = "pause" /\ pc[g] = "pause" /\ HostOf[f] = HostOf[g] => f = g

FetchInv == FetchTypeOK /\ OneOpen /\ OpensAlone /\ AtWork

-----------------------------------------------------------------------------

\* The outcome of a request keeps the types and what is said of fetches at work.
LEMMA CameKeeps ==
    ASSUME FetchInv, NEW f \in Fetch, pc[f] # "idle", NEW kind \in Answers \cup {"timeout", "unsafe"},
           Came(f, kind)
    PROVE  /\ \E p \in {"backoff", "browser", "idle"} : pc' = [pc EXCEPT ![f] = p]
           /\ attempt' \in [Fetch -> 0..MaxRetries]
           /\ last' \in [Fetch -> Kind \cup {Nothing}]
           /\ given' \in [Fetch -> {"content", "failure", Nothing}]
           /\ AtWork'
<1> USE FetchAssumption, NothingAssumption DEF FetchInv, FetchTypeOK
<1>1. kind \in Kind /\ 0 \in 0..MaxRetries BY DEF Kind
<1>2. CASE Keeps(f, "backoff", kind) /\ attempt[f] < MaxRetries
  BY <1>1, <1>2 DEF Keeps, Goto, AtWork
<1>3. CASE Keeps(f, "browser", kind) /\ ShouldEscalate(kind)
  BY <1>1, <1>3 DEF Keeps, Goto, AtWork, ShouldEscalate
<1>4. CASE Gives(f, kind)
  BY <1>1, <1>4 DEF Gives, Goto, Worth, AtWork
<1> QED BY <1>2, <1>3, <1>4 DEF Came

\* So does the end of a fetch that the browser had a try at.
LEMMA ShownKeeps ==
    ASSUME FetchInv, NEW f \in Fetch, pc[f] \in {"starting", "browse"},
           NEW kind \in Answers \cup {"unavailable"}, Shown(f, kind)
    PROVE  /\ pc' = [pc EXCEPT ![f] = "idle"]
           /\ attempt' \in [Fetch -> 0..MaxRetries]
           /\ last' \in [Fetch -> Kind \cup {Nothing}]
           /\ given' \in [Fetch -> {"content", "failure", Nothing}]
           /\ AtWork'
<1> USE FetchAssumption, NothingAssumption DEF FetchInv, FetchTypeOK
<1>1. 0 \in 0..MaxRetries OBVIOUS
<1> QED BY <1>1 DEF Shown, Gives, Goto, Worth, AtWork

\* A fetch that goes on to a place where nothing is opened keeps who opens alone.
LEMMA LeavesOpenings ==
    ASSUME FetchInv, NEW f \in Fetch, NEW p, pc' = [pc EXCEPT ![f] = p],
           p \notin {"opening", "starting"}, UNCHANGED <<http, browser>>,
           half' => half \/ pc[f] = "opening"
    PROVE  OpensAlone'
BY DEF FetchInv, FetchTypeOK, OpensAlone

\* What is open, of what type it is, and what has a right to be.
OpenedOK ==
    /\ OneOpen
    /\ http \in BOOLEAN /\ browser \in BOOLEAN /\ half \in BOOLEAN
    /\ sessions \in Nat /\ browsers \in Nat
    /\ cut \in [session : 0..MaxCut, browser : 0..MaxCut]

\* A fetch that goes on, with all else as it was.
LEMMA GoOnKeeps ==
    ASSUME FetchInv, NEW f \in Fetch, pc[f] # "idle",
           NEW p \in {"limit", "pause", "session", "opening", "get", "starting", "browse"},
           p \in {"starting", "browse"} => pc[f] \in {"browser", "starting"},
           GoOn(f, p)
    PROVE  /\ pc' = [pc EXCEPT ![f] = p] /\ UNCHANGED <<attempt, last, given>>
           /\ AtWork'
BY DEF GoOn, Goto, FetchInv, FetchTypeOK, AtWork

\* Nothing is opened or closed.
LEMMA OpenedStays ==
    ASSUME FetchInv, UNCHANGED opened
    PROVE  OpenedOK'
BY DEF opened, FetchInv, FetchTypeOK, OneOpen, OpenedOK

\* An opening that is cut short leaves what is in use as it is.
LEMMA CutFrames ==
    /\ SessionCut => UNCHANGED <<http, browser>>
    /\ BrowserCut => UNCHANGED <<http, browser, half>>
BY DEF SessionCut, BrowserCut, opened

\* It leaves no more than its share.
LEMMA CutStays ==
    ASSUME FetchInv, (~http /\ SessionCut) \/ BrowserCut
    PROVE  OpenedOK'
<1> USE FetchAssumption DEF FetchInv, FetchTypeOK, OneOpen, OpenedOK
<1>0. cut.session \in 0..MaxCut /\ cut.browser \in 0..MaxCut OBVIOUS
<1>1. CASE ~http /\ half' = FALSE /\ UNCHANGED <<http, browser, sessions, browsers, cut>>
  BY <1>0, <1>1
<1>2. CASE /\ ~http /\ cut.session < MaxCut /\ cut' = [cut EXCEPT !.session = @ + 1]
           /\ half' = TRUE /\ sessions' = sessions + 1 /\ UNCHANGED <<http, browser, browsers>>
  <2>1. /\ cut' \in [session : 0..MaxCut, browser : 0..MaxCut]
        /\ cut'.session = cut.session + 1 /\ cut'.browser = cut.browser
    BY <1>0, <1>2
  <2> QED BY <1>0, <1>2, <2>1
<1>3. CASE UNCHANGED opened BY <1>3 DEF opened
<1>4. CASE /\ cut.browser < MaxCut /\ cut' = [cut EXCEPT !.browser = @ + 1]
           /\ browsers' = browsers + 1 /\ UNCHANGED <<http, browser, half, sessions>>
  <2>1. /\ cut' \in [session : 0..MaxCut, browser : 0..MaxCut]
        /\ cut'.session = cut.session /\ cut'.browser = cut.browser + 1
    BY <1>0, <1>4
  <2> QED BY <1>0, <1>4, <2>1
<1> QED BY <1>1, <1>2, <1>3, <1>4 DEF SessionCut, BrowserCut

\* An opening that comes to its end opens the one session.
LEMMA OpenStays ==
    ASSUME FetchInv, ~http, SessionOpens
    PROVE  OpenedOK'
<1> USE DEF FetchInv, FetchTypeOK
<1>1. OneOpen' BY DEF OneOpen, SessionOpens
<1>2. http' \in BOOLEAN /\ browser' \in BOOLEAN /\ half' \in BOOLEAN BY DEF SessionOpens
<1>3. sessions' \in Nat /\ browsers' \in Nat /\ UNCHANGED cut BY DEF SessionOpens
<1> QED BY <1>1, <1>2, <1>3 DEF OpenedOK

-----------------------------------------------------------------------------

\* The start of a fetch and its wait for permission to send.
LEMMA PermissionKeeps ==
    ASSUME FetchInv, NEW f \in Fetch, Start(f) \/ Enter(f) \/ Limit(f) \/ Pause(f)
    PROVE  FetchInv'
<1> USE DEF FetchInv, FetchTypeOK
<1>1. CASE Start(f)
  <2>1. pc' = [pc EXCEPT ![f] = "slot"] /\ UNCHANGED <<http, browser, half>>
    BY <1>1 DEF Start, Goto, opened
  <2>2. OpensAlone' BY <2>1, LeavesOpenings
  <2>3. OpenedOK' BY <1>1, OpenedStays DEF Start
  <2> QED BY <1>1, <2>2, <2>3 DEF Start, Goto, opened, AtWork, OpenedOK
<1>2. ASSUME NEW p \in {"limit", "pause", "session"}, GoOn(f, p), pc[f] # "idle", UNCHANGED opened
      PROVE FetchInv'
  <2>1. pc' = [pc EXCEPT ![f] = p] /\ UNCHANGED <<attempt, last, given>> /\ AtWork'
    BY <1>2, GoOnKeeps
  <2>2. OpensAlone' BY <1>2, <2>1, LeavesOpenings DEF opened
  <2> QED BY <1>2, <2>1, <2>2, OpenedStays DEF OpenedOK
<1> QED BY <1>1, <1>2 DEF Enter, Limit, Pause

\* A request by HTTP, from the session it needs to what it came to.
LEMMA HttpKeeps ==
    ASSUME FetchInv, NEW f \in Fetch, Session(f) \/ Open(f) \/ Get(f) \/ Admit(f) \/ Backoff(f)
    PROVE  FetchInv'
<1> USE DEF FetchInv, FetchTypeOK
<1>1. ASSUME NEW kind \in Answers \cup {"timeout", "unsafe"}, pc[f] # "idle", Came(f, kind), UNCHANGED opened
      PROVE FetchInv'
  <2>1. OpensAlone' BY <1>1, CameKeeps, LeavesOpenings DEF opened
  <2> QED BY <1>1, <2>1, CameKeeps, OpenedStays DEF OpenedOK
<1>2. CASE Session(f)
  <2>1. CASE http
    <3>1. GoOn(f, "get") /\ UNCHANGED opened BY <1>2, <2>1 DEF Session
    <3>2. pc' = [pc EXCEPT ![f] = "get"] /\ UNCHANGED <<attempt, last, given>> /\ AtWork'
      BY <1>2, <3>1, GoOnKeeps DEF Session
    <3>3. OpensAlone' BY <3>1, <3>2, LeavesOpenings DEF opened
    <3> QED BY <3>1, <3>2, <3>3, OpenedStays DEF OpenedOK
  <2>2. CASE ~http
    <3>1. Enters(f) BY <1>2, <2>2 DEF Session
    <3>2. pc' = [pc EXCEPT ![f] = "opening"] /\ UNCHANGED <<attempt, last, given>> /\ AtWork'
      BY <1>2, <3>1, GoOnKeeps DEF Session, Enters
    <3>3. OpensAlone' BY <1>2, <2>2, <3>1, <3>2 DEF Session, Enters, OpensAlone
    <3>4. OneOpen' BY <2>2, <3>1 DEF Enters, OneOpen
    <3> QED BY <3>1, <3>2, <3>3, <3>4 DEF Enters
  <2> QED BY <2>1, <2>2
<1>3. CASE Open(f)
  <2>1. pc[f] = "opening" /\ ~http /\ ~half BY <1>3 DEF Open, OpensAlone
  <2>2. CASE GoOn(f, "get") /\ SessionOpens
    <3>1. pc' = [pc EXCEPT ![f] = "get"] /\ UNCHANGED <<attempt, last, given>> /\ AtWork'
      BY <2>1, <2>2, GoOnKeeps
    <3>2. OpenedOK' BY <2>1, <2>2, OpenStays
    <3>3. OpensAlone' BY <2>1, <2>2, <3>1 DEF OpensAlone, SessionOpens
    <3> QED BY <3>1, <3>2, <3>3 DEF OpenedOK
  <2>3. ASSUME NEW kind \in {"timeout", "error"}, Came(f, kind), SessionCut PROVE FetchInv'
    <3>1. OpenedOK' /\ UNCHANGED <<http, browser>> BY <2>1, <2>3, CutStays, CutFrames
    <3>2. OpensAlone' BY <2>1, <2>3, <3>1, CameKeeps, LeavesOpenings DEF Answers
    <3> QED BY <2>1, <2>3, <3>1, <3>2, CameKeeps DEF OpenedOK, Answers
  <2> QED BY <1>3, <2>2, <2>3 DEF Open
<1>4. CASE Get(f)
  <2>1. ASSUME NEW kind \in Answers, Keeps(f, "admit", kind) PROVE FetchInv'
    <3>1. AtWork' BY <1>4, <2>1 DEF Get, Keeps, Goto, AtWork
    <3>2. pc' = [pc EXCEPT ![f] = "admit"] /\ UNCHANGED <<http, browser, half>>
      BY <1>4, <2>1 DEF Get, Keeps, Goto, opened
    <3>3. OpensAlone' BY <3>2, LeavesOpenings
    <3> QED BY <1>4, <2>1, <3>1, <3>3, OpenedStays DEF OpenedOK, Get, Keeps, Goto, Kind
  <2> QED BY <1>1, <1>4, <2>1 DEF Get
<1>5. CASE Admit(f)
  <2>1. last[f] \in Answers BY <1>5 DEF Admit, AtWork
  <2> QED BY <1>1, <1>5, <2>1 DEF Admit
<1>6. CASE Backoff(f)
  <2>0. pc' = [pc EXCEPT ![f] = "limit"] /\ UNCHANGED <<http, browser, half>>
    BY <1>6 DEF Backoff, Goto, opened
  <2>1. OpensAlone' BY <2>0, LeavesOpenings
  <2>2. attempt' \in [Fetch -> 0..MaxRetries]
    BY <1>6, FetchAssumption DEF Backoff, AtWork
  <2>3. AtWork' BY <1>6 DEF Backoff, Goto, AtWork
  <2> QED BY <1>6, <2>1, <2>2, <2>3, OpenedStays DEF OpenedOK, Backoff, Goto, opened
<1> QED BY <1>2, <1>3, <1>4, <1>5, <1>6

\* A try with the browser.
LEMMA BrowserKeeps ==
    ASSUME FetchInv, NEW f \in Fetch, Browser(f) \/ StartBrowser(f) \/ Browse(f)
    PROVE  FetchInv'
<1> USE DEF FetchInv, FetchTypeOK
<1>1. ASSUME NEW kind \in Answers \cup {"unavailable"}, pc[f] \in {"starting", "browse"}, Shown(f, kind),
             UNCHANGED opened
      PROVE FetchInv'
  <2>1. OpensAlone' BY <1>1, ShownKeeps, LeavesOpenings DEF opened
  <2> QED BY <1>1, <2>1, ShownKeeps, OpenedStays DEF OpenedOK
<1>2. CASE Browser(f)
  <2>1. PICK p \in {"browse", "starting"} : GoOn(f, p) /\ (p = "starting" => ~browser)
    BY <1>2 DEF Browser
  <2>2. pc' = [pc EXCEPT ![f] = p] /\ UNCHANGED <<attempt, last, given>> /\ AtWork'
    BY <1>2, <2>1, GoOnKeeps DEF Browser
  <2>3. OpensAlone'
    BY <1>2, <2>1, <2>2 DEF Browser, opened, OpensAlone
  <2> QED BY <1>2, <2>2, <2>3, OpenedStays DEF OpenedOK, Browser
<1>3. CASE StartBrowser(f)
  <2>1. pc[f] = "starting" /\ ~browser BY <1>3 DEF StartBrowser, OpensAlone
  <2>2. CASE /\ GoOn(f, "browse") /\ browser' = TRUE /\ browsers' = browsers + 1
             /\ UNCHANGED <<http, half, sessions, cut>>
    <3>1. pc' = [pc EXCEPT ![f] = "browse"] /\ UNCHANGED <<attempt, last, given>> /\ AtWork'
      BY <2>1, <2>2, GoOnKeeps
    <3>2. OneOpen' BY <2>1, <2>2 DEF OneOpen
    <3>3. OpensAlone' BY <2>1, <2>2, <3>1 DEF OpensAlone
    <3> QED BY <2>2, <3>1, <3>2, <3>3
  <2>3. CASE Shown(f, "unavailable") /\ BrowserCut
    <3>1. OpenedOK' /\ UNCHANGED <<http, browser, half>> BY <2>3, CutStays, CutFrames
    <3>2. OpensAlone' BY <2>1, <2>3, <3>1, ShownKeeps, LeavesOpenings
    <3> QED BY <2>1, <2>3, <3>1, <3>2, ShownKeeps DEF OpenedOK
  <2> QED BY <1>3, <2>2, <2>3 DEF StartBrowser
<1>4. CASE Browse(f) BY <1>1, <1>4 DEF Browse
<1> QED BY <1>2, <1>3, <1>4

\* A fetch is cancelled wherever it stands, and what is open is closed or opened in advance.
LEMMA RestKeeps ==
    ASSUME FetchInv, (\E f \in Fetch : Cancel(f)) \/ Close \/ Warm \/ UNCHANGED fetchVars
    PROVE  FetchInv'
<1> USE FetchAssumption, NothingAssumption DEF FetchInv, FetchTypeOK
<1>1. ASSUME NEW f \in Fetch, Cancel(f) PROVE FetchInv'
  <2>1. pc' = [pc EXCEPT ![f] = "idle"] BY <1>1 DEF Cancel, Goto
  <2>2. OpenedOK' /\ OpensAlone'
    <3>1. CASE pc[f] = "opening"
      <4>1. ~http /\ SessionCut BY <1>1, <3>1 DEF Cancel, OpensAlone
      <4>2. UNCHANGED <<http, browser>> BY <4>1, CutFrames
      <4>3. OpensAlone' BY <2>1, <3>1, <4>2 DEF OpensAlone
      <4> QED BY <4>1, <4>3, CutStays
    <3>2. CASE pc[f] = "starting"
      <4>1. BrowserCut BY <1>1, <3>2 DEF Cancel
      <4>2. UNCHANGED <<http, browser, half>> BY <4>1, CutFrames
      <4>3. OpensAlone' BY <2>1, <4>2 DEF OpensAlone
      <4> QED BY <4>1, <4>3, CutStays
    <3>3. CASE pc[f] \notin {"opening", "starting"}
      <4>1. UNCHANGED opened BY <1>1, <3>3 DEF Cancel
      <4>2. OpensAlone' BY <2>1, <4>1 DEF OpensAlone, opened
      <4> QED BY <4>1, <4>2, OpenedStays
    <3> QED BY <3>1, <3>2, <3>3
  <2>4. AtWork' BY <1>1 DEF Cancel, Goto, AtWork
  <2> QED BY <1>1, <2>1, <2>2, <2>4 DEF Cancel, Goto, Kind, OpenedOK
<1>2. CASE Close
  <2>1. OneOpen' /\ sessions' \in Nat /\ browsers' \in Nat BY <1>2 DEF Close, OneOpen
  <2> QED BY <1>2, <2>1 DEF Close, fetch, OpensAlone, AtWork
<1>3. CASE Warm
  <2>1. OpenedOK'
    <3>1. CASE SessionCut BY <1>3, <3>1, CutStays DEF Warm
    <3>2. CASE SessionOpens BY <1>3, <3>2, OpenStays DEF Warm
    <3> QED BY <1>3, <3>1, <3>2 DEF Warm
  <2>2. (\A f \in Fetch : pc[f] = "idle") /\ UNCHANGED fetch BY <1>3 DEF Warm
  <2> QED BY <2>1, <2>2 DEF fetch, OpenedOK, OpensAlone, AtWork
<1>4. CASE UNCHANGED fetchVars
  BY <1>4 DEF fetchVars, fetch, opened, OneOpen, OpensAlone, AtWork
<1> QED BY <1>1, <1>2, <1>3, <1>4

LEMMA FetchInvHolds == FetchSpec => []FetchInv
<1>1. FetchInit => FetchInv
  <2> SUFFICES ASSUME FetchInit PROVE FetchInv OBVIOUS
  <2>1. 0 \in 0..MaxRetries /\ 0 \in 0..MaxCut BY FetchAssumption
  <2>2. FetchTypeOK BY <2>1 DEF FetchInit, FetchTypeOK
  <2>3. OneOpen BY DEF FetchInit, OneOpen
  <2>4. OpensAlone BY DEF FetchInit, OpensAlone
  <2>5. AtWork BY DEF FetchInit, AtWork
  <2> QED BY <2>2, <2>3, <2>4, <2>5 DEF FetchInv
<1>2. FetchInv /\ [FetchNext]_fetchVars => FetchInv'
  BY PermissionKeeps, HttpKeeps, BrowserKeeps, RestKeeps DEF FetchNext, InLine, Awaited
<1> QED BY <1>1, <1>2, PTL DEF FetchSpec

\* The fetches, and what is open, keep their types.
THEOREM FetchTypeCorrect == FetchSpec => []FetchTypeOK
BY FetchInvHolds, PTL DEF FetchInv

\* However many fetches find nothing open at once, one session and one browser are open, those in
\* use, and besides them no more than what openings have left behind that raised or were cancelled.
THEOREM OneIsOpen == FetchSpec => []OneOpen
BY FetchInvHolds, PTL DEF FetchInv

\* Only the step of a fetch itself gives it something; while the browser tries, only what comes of
\* that try.
LEMMA GivesOwn ==
    ASSUME FetchInv, NEW f \in Fetch, Start(f) \/ InLine(f) \/ Awaited(f) \/ Cancel(f)
    PROVE  /\ \A g \in Fetch \ {f} : given'[g] = given[g]
           /\ pc[f] \in {"starting", "browse"} /\ given'[f] # given[f]
                 => \E kind \in Answers \cup {"unavailable"} : Shown(f, kind)
<1> USE DEF FetchInv, FetchTypeOK
<1>1. ASSUME NEW kind, Came(f, kind) PROVE \A g \in Fetch \ {f} : given'[g] = given[g]
  BY <1>1 DEF Came, Keeps, Gives
<1>2. ASSUME NEW kind, Shown(f, kind) PROVE \A g \in Fetch \ {f} : given'[g] = given[g]
  BY <1>2 DEF Shown, Gives
<1>3. CASE Start(f) BY <1>3 DEF Start
<1>4. CASE InLine(f) BY <1>4 DEF InLine, Enter, Limit, Session, Enters, Browser, GoOn
<1>5. CASE Pause(f) \/ Open(f) \/ Get(f) \/ Admit(f) \/ Backoff(f)
  BY <1>1, <1>5 DEF Pause, Open, Get, Keeps, Admit, Backoff, GoOn
<1>6. CASE StartBrowser(f) \/ Browse(f) BY <1>2, <1>6 DEF StartBrowser, Browse, GoOn
<1>7. CASE Cancel(f) BY <1>7 DEF Cancel
<1> QED BY <1>3, <1>4, <1>5, <1>6, <1>7 DEF Awaited

\* A page that HTTP got is not given up for what the browser came to, and one from an address that
\* was not admitted is not shown by the browser.
THEOREM NothingWorse == FetchSpec => NeverWorse
<1> DEFINE Judged(f) ==
      pc[f] \in {"starting", "browse"} /\ given'[f] # given[f]
          => /\ last[f] \in Good => given'[f] = "content"
             /\ HttpFirst => last[f] # "unsafe"
<1>1. FetchInv /\ [FetchNext]_fetchVars => \A f \in Fetch : Judged(f)
  <2> SUFFICES ASSUME FetchInv, [FetchNext]_fetchVars, NEW f \in Fetch PROVE Judged(f) OBVIOUS
  <2>1. CASE UNCHANGED given BY <2>1
  <2>2. ASSUME NEW g \in Fetch, Start(g) \/ InLine(g) \/ Awaited(g) \/ Cancel(g) PROVE Judged(f)
    <3>1. CASE g # f BY <2>2, <3>1, GivesOwn
    <3>2. CASE g = f
      <4> SUFFICES ASSUME pc[f] \in {"starting", "browse"}, given'[f] # given[f]
                   PROVE  /\ last[f] \in Good => given'[f] = "content"
                          /\ HttpFirst => last[f] # "unsafe"
        OBVIOUS
      <4>1. PICK kind \in Answers \cup {"unavailable"} : Shown(f, kind) BY <2>2, <3>2, GivesOwn
      <4>2. given'[f] = Worth(Better(f, kind)) BY <4>1 DEF Shown, Gives, FetchInv, FetchTypeOK
      <4>3. last[f] \in Good => Better(f, kind) \in Good BY DEF Better
      <4>4. HttpFirst => last[f] # "unsafe" BY DEF FetchInv, AtWork
      <4> HIDE DEF Better
      <4> QED BY <4>2, <4>3, <4>4 DEF Worth
    <3> QED BY <3>1, <3>2
  <2>3. CASE Close \/ Warm BY <2>1, <2>3 DEF Close, Warm, fetch
  <2>4. CASE UNCHANGED fetchVars BY <2>1, <2>4 DEF fetchVars, fetch
  <2> QED BY <2>2, <2>3, <2>4 DEF FetchNext
<1>2. (\A f \in Fetch : Judged(f)) => [\A f \in Fetch : Judged(f)]_fetchVars
  OBVIOUS
<1> QED BY <1>1, <1>2, FetchInvHolds, PTL DEF FetchSpec, NeverWorse

-----------------------------------------------------------------------------

\* A step of one fetch leaves the others where they are.
LEMMA OneMoves ==
    ASSUME FetchInv, NEW f \in Fetch, Start(f) \/ InLine(f) \/ Awaited(f) \/ Cancel(f)
    PROVE  /\ \E p : pc' = [pc EXCEPT ![f] = p]
           /\ Inside(f)' => Inside(f) \/ Enter(f)
           /\ pc'[f] = "pause" => Limit(f)
<1> USE DEF FetchInv, FetchTypeOK
<1>1. ASSUME NEW kind, Came(f, kind) PROVE \E p \in {"backoff", "browser", "idle"} : pc' = [pc EXCEPT ![f] = p]
  BY <1>1 DEF Came, Keeps, Gives, Goto
<1>2. ASSUME NEW kind, Shown(f, kind) PROVE pc' = [pc EXCEPT ![f] = "idle"]
  BY <1>2 DEF Shown, Gives, Goto
<1>3. CASE Start(f) BY <1>3 DEF Start, Goto, Inside
<1>4. CASE InLine(f) BY <1>4 DEF InLine, Enter, Limit, Session, Enters, Browser, GoOn, Goto, Inside
<1>5. CASE Awaited(f)
  BY <1>1, <1>2, <1>5
     DEF Awaited, Pause, Open, Get, Keeps, Admit, Backoff, StartBrowser, Browse, GoOn, Goto, Inside
<1>6. CASE Cancel(f) BY <1>6 DEF Cancel, Goto, Inside
<1> QED BY <1>3, <1>4, <1>5, <1>6

\* No host is asked by more fetches at a time than it has slots, and the limiter lets one at a time
\* wait for its turn, through retries, pauses and cancellations.
THEOREM HostsSpared == FetchSpec => []HostSpared
<1> USE FetchAssumption
<1> DEFINE At(h) == {f \in Fetch : Inside(f) /\ HostOf[f] = h}
<1>1. FetchInit => HostSpared
  <2> SUFFICES ASSUME FetchInit PROVE HostSpared OBVIOUS
  <2>1. \A h \in Host : At(h) = {} BY DEF FetchInit, Inside
  <2> QED BY <2>1, FS_EmptySet DEF FetchInit, HostSpared
<1>2. FetchInv /\ HostSpared /\ [FetchNext]_fetchVars => HostSpared'
  <2> SUFFICES ASSUME FetchInv, HostSpared, [FetchNext]_fetchVars PROVE HostSpared' OBVIOUS
  <2>1. \A h \in Host : IsFiniteSet(At(h)) /\ Cardinality(At(h)) \in Nat
    BY FS_Subset, FS_CardinalityType
  <2>2. CASE UNCHANGED pc BY <2>2 DEF HostSpared, Inside
  <2>3. ASSUME NEW f \in Fetch, Start(f) \/ InLine(f) \/ Awaited(f) \/ Cancel(f) PROVE HostSpared'
    <3>1. PICK p : pc' = [pc EXCEPT ![f] = p] BY <2>3, OneMoves
    <3>2. \A g \in Fetch \ {f} : pc'[g] = pc[g] BY <3>1 DEF FetchInv, FetchTypeOK
    <3>3. ASSUME NEW h \in Host PROVE Cardinality(At(h))' <= Slots
      <4>1. CASE At(h)' \subseteq At(h)
        <5>1. Cardinality(At(h)') <= Cardinality(At(h)) BY <2>1, <4>1, FS_Subset
        <5>2. Cardinality(At(h)') \in Nat BY <2>1, <4>1, FS_Subset, FS_CardinalityType
        <5>3. Cardinality(At(h)) <= Slots BY DEF HostSpared
        <5> HIDE DEF At
        <5> QED BY <2>1, <5>1, <5>2, <5>3
      <4>2. CASE ~(At(h)' \subseteq At(h))
        <5>1. Enter(f) /\ HostOf[f] = h
          <6>1. PICK g \in Fetch : g \in At(h)' /\ g \notin At(h) BY <4>2
          <6>2. g = f BY <3>2, <6>1 DEF Inside
          <6> QED BY <2>3, <6>1, <6>2, OneMoves
        <5>2. At(h)' \subseteq At(h) \cup {f} BY <3>2 DEF Inside
        <5>3. Cardinality(At(h)) < Slots BY <5>1 DEF Enter
        <5> HIDE DEF At
        <5>4. Cardinality(At(h) \cup {f}) <= Cardinality(At(h)) + 1 /\ IsFiniteSet(At(h) \cup {f})
          <6>1. /\ IsFiniteSet(At(h) \cup {f})
                /\ Cardinality(At(h) \cup {f}) \in {Cardinality(At(h)), Cardinality(At(h)) + 1}
            BY <2>1, FS_AddElement
          <6> QED BY <2>1, <6>1
        <5>5. Cardinality(At(h)') <= Cardinality(At(h) \cup {f}) /\ Cardinality(At(h)') \in Nat
              /\ Cardinality(At(h) \cup {f}) \in Nat
          BY <5>2, <5>4, FS_Subset, FS_CardinalityType
        <5> QED BY <2>1, <5>3, <5>4, <5>5
      <4> QED BY <4>1, <4>2
    <3>4. \A g, k \in Fetch : pc'[g] = "pause" /\ pc'[k] = "pause" /\ HostOf[g] = HostOf[k] => g = k
      <4>1. CASE pc'[f] = "pause"
        <5>1. Limit(f) BY <2>3, <4>1, OneMoves
        <5> QED BY <3>2, <5>1 DEF Limit, HostSpared
      <4>2. CASE pc'[f] # "pause" BY <3>2, <4>2 DEF HostSpared
      <4> QED BY <4>1, <4>2
    <3> QED BY <3>3, <3>4 DEF HostSpared
  <2>4. CASE Close \/ Warm \/ UNCHANGED fetchVars
    BY <2>2, <2>4 DEF Close, Warm, fetchVars, fetch
  <2> QED BY <2>3, <2>4 DEF FetchNext
<1> QED BY <1>1, <1>2, FetchInvHolds, PTL DEF FetchSpec
=============================================================================
