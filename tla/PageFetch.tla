------------------------------- MODULE PageFetch -------------------------------
(***************************************************************************)
(* PageFetcher: pages are fetched by HTTP, over one session that is opened *)
(* when it is first needed, and where that fails by a browser, of which    *)
(* there is one as well. Fetches of all crawls run at the same time; any   *)
(* of them can be cancelled.                                               *)
(*                                                                         *)
(* A page is the kind of what came: "page", "shell" (a page with hardly    *)
(* more than scripts), "blocked" (403, 429, 503, or a challenge),          *)
(* "timeout", "server" (500, 502, 504), "error", "unsafe" (redirected to   *)
(* where the crawler must not go) or "unavailable" (no browser).           *)
(***************************************************************************)
EXTENDS Naturals, FiniteSets

CONSTANTS
    Fetch,              \* the tasks that fetch a page
    Host, HostOf,       \* Fetch -> Host
    Slots,              \* per_host_concurrency
    MaxRetries,
    Allowed,            \* the fetches that may use the browser, unless
    Fallback,           \* browser_fallback is off
    HttpFirst,          \* http_first
    MaxCut,             \* bound on the openings cut short that leave something open
    Nothing             \* no page yet

ASSUME FetchAssumption ==
    /\ HostOf \in [Fetch -> Host] /\ IsFiniteSet(Fetch)
    /\ Slots \in Nat \ {0} /\ MaxRetries \in Nat
    /\ Allowed \subseteq Fetch
    /\ Fallback \in BOOLEAN /\ HttpFirst \in BOOLEAN
    /\ MaxCut \in Nat

Good == {"page", "shell"}
Answers == Good \cup {"blocked", "server", "error"}
Kind == Answers \cup {"timeout", "unsafe", "unavailable"}

\* All that is kept of what the caller is given.
Worth(kind) == IF kind \in Good THEN "content" ELSE "failure"

ASSUME NothingAssumption == Nothing \notin Kind \cup {"content", "failure"}

VARIABLES
    pc,             \* where each fetch stands
    attempt,        \* of its HTTP requests
    last,           \* what HTTP came to, or is being admitted, for as long as the fetch is at work
    given,          \* what the caller is given is worth
    http,           \* _http is set
    browser,        \* _browser is set
    half,           \* _http_ctx is a session whose opening was cut short, with something of it open
    sessions,       \* the HTTP sessions of which something is open
    browsers,       \* the browsers of which something runs
    cut             \* the openings cut short that left something open (history)

fetch == <<pc, attempt, last, given>>
opened == <<http, browser, half, sessions, browsers, cut>>
fetchVars == <<fetch, opened>>

FetchInit ==
    /\ pc = [f \in Fetch |-> "idle"]
    /\ attempt = [f \in Fetch |-> 0]
    /\ last = [f \in Fetch |-> Nothing]
    /\ given = [f \in Fetch |-> Nothing]
    /\ http = FALSE /\ browser = FALSE /\ half = FALSE /\ sessions = 0 /\ browsers = 0
    /\ cut = [session |-> 0, browser |-> 0]

Goto(f, p) == pc' = [pc EXCEPT ![f] = p]
GoOn(f, p) == Goto(f, p) /\ UNCHANGED <<attempt, last, given>>

\* The fetch is over, and gives this page.
Gives(f, kind) ==
    /\ Goto(f, "idle")
    /\ attempt' = [attempt EXCEPT ![f] = 0]
    /\ last' = [last EXCEPT ![f] = Nothing]
    /\ given' = [given EXCEPT ![f] = Worth(kind)]

-----------------------------------------------------------------------------
(* Permission to send *)

Start(f) ==
    /\ pc[f] = "idle"
    /\ Goto(f, "slot")
    /\ given' = [given EXCEPT ![f] = Nothing]
    /\ UNCHANGED <<attempt, last, opened>>

\* The fetch has a slot of its host.
Inside(f) == pc[f] \notin {"idle", "slot"}

Enter(f) ==
    /\ pc[f] = "slot"
    /\ Cardinality({g \in Fetch : Inside(g) /\ HostOf[g] = HostOf[f]}) < Slots
    /\ GoOn(f, "limit")
    /\ UNCHANGED opened

\* The limiter lets one fetch of a host at a time wait for its turn.
Limit(f) ==
    /\ pc[f] = "limit"
    /\ ~\E g \in Fetch : pc[g] = "pause" /\ HostOf[g] = HostOf[f]
    /\ GoOn(f, "pause")
    /\ UNCHANGED opened

Pause(f) ==
    /\ pc[f] = "pause"
    /\ GoOn(f, "session")
    /\ UNCHANGED opened

-----------------------------------------------------------------------------
(* HTTP *)

Retryable(kind) == kind \in {"timeout", "server"}

ShouldEscalate(kind) ==
    Fallback /\ (~HttpFirst \/ kind \in {"blocked", "timeout", "shell"})

\* What HTTP came to is kept, for the next attempt, the admission or the browser.
Keeps(f, p, kind) ==
    /\ Goto(f, p)
    /\ last' = [last EXCEPT ![f] = kind]
    /\ UNCHANGED <<attempt, given>>

\* A request has come to this: it is sent again, or the browser has a try, or that is it.
Came(f, kind) ==
    IF Retryable(kind) /\ attempt[f] < MaxRetries THEN Keeps(f, "backoff", kind)
    ELSE IF f \in Allowed /\ ShouldEscalate(kind) THEN Keeps(f, "browser", kind)
    ELSE Gives(f, kind)

\* A new session is entered in _http_ctx; one that was opened by half is nobody's from then on.
Enters(f) ==
    /\ GoOn(f, "opening")
    /\ half' = FALSE
    /\ UNCHANGED <<http, browser, sessions, browsers, cut>>

Session_NoRecheck(f) ==
    /\ pc[f] = "session"
    /\ ~\E g \in Fetch : pc[g] = "opening"
    /\ Enters(f)

\* _ensure_http: the lock is free; who finds no session opens one.
Session(f) ==
    /\ pc[f] = "session"
    /\ ~\E g \in Fetch : pc[g] = "opening"
    /\ IF http THEN GoOn(f, "get") /\ UNCHANGED opened ELSE Enters(f)

\* What an opening leaves that raises or is cancelled: nothing, or a session opened by half.
SessionCut ==
    \/ half' = FALSE /\ UNCHANGED <<http, browser, sessions, browsers, cut>>
    \/ /\ cut.session < MaxCut
       /\ cut' = [cut EXCEPT !.session = @ + 1]
       /\ half' = TRUE /\ sessions' = sessions + 1
       /\ UNCHANGED <<http, browser, browsers>>

SessionOpens ==
    /\ http' = TRUE /\ half' = FALSE /\ sessions' = sessions + 1
    /\ UNCHANGED <<browser, browsers, cut>>

Open(f) ==
    /\ pc[f] = "opening"
    /\ \/ GoOn(f, "get") /\ SessionOpens
       \/ (\E kind \in {"timeout", "error"} : Came(f, kind)) /\ SessionCut

\* The answer, or none; one from another address is admitted first.
Get(f) ==
    /\ pc[f] = "get"
    /\ \/ \E kind \in Answers \cup {"timeout"} : Came(f, kind)
       \/ \E kind \in Answers : Keeps(f, "admit", kind)
    /\ UNCHANGED opened

Admit(f) ==
    /\ pc[f] = "admit"
    /\ \E kind \in {last[f], "unsafe"} : Came(f, kind)
    /\ UNCHANGED opened

Backoff_Forgets(f) ==
    /\ pc[f] = "backoff"
    /\ GoOn(f, "limit")
    /\ UNCHANGED opened

Backoff(f) ==
    /\ pc[f] = "backoff"
    /\ Goto(f, "limit")
    /\ attempt' = [attempt EXCEPT ![f] = attempt[f] + 1]
    /\ UNCHANGED <<last, given, opened>>

-----------------------------------------------------------------------------
(* The browser *)

Better_Browser(f, kind) == kind

\* What the caller is given after the browser has come to this: a page that HTTP got is not lost.
Better(f, kind) == IF kind \in Good \/ last[f] \notin Good THEN kind ELSE last[f]

Shown(f, kind) == Gives(f, Better(f, kind))

\* _ensure_browser: the lock is free; who finds no browser starts one.
Browser(f) ==
    /\ pc[f] = "browser"
    /\ ~\E g \in Fetch : pc[g] = "starting"
    /\ GoOn(f, IF browser THEN "browse" ELSE "starting")
    /\ UNCHANGED opened

\* The same of a browser: nothing has a reference to it that close() could use.
BrowserCut ==
    \/ UNCHANGED opened
    \/ /\ cut.browser < MaxCut
       /\ cut' = [cut EXCEPT !.browser = @ + 1]
       /\ browsers' = browsers + 1
       /\ UNCHANGED <<http, browser, half, sessions>>

StartBrowser(f) ==
    /\ pc[f] = "starting"
    /\ \/ /\ GoOn(f, "browse")
          /\ browser' = TRUE /\ browsers' = browsers + 1
          /\ UNCHANGED <<http, half, sessions, cut>>
       \/ Shown(f, "unavailable") /\ BrowserCut

Browse(f) ==
    /\ pc[f] = "browse"
    /\ \E kind \in Answers \cup {"unavailable"} : Shown(f, kind)
    /\ UNCHANGED opened

-----------------------------------------------------------------------------

\* The crawl that the fetch belongs to is over; an opening is cut short.
Cancel(f) ==
    /\ pc[f] # "idle"
    /\ Goto(f, "idle")
    /\ attempt' = [attempt EXCEPT ![f] = 0]
    /\ last' = [last EXCEPT ![f] = Nothing]
    /\ UNCHANGED given
    /\ CASE pc[f] = "opening" -> SessionCut
         [] pc[f] = "starting" -> BrowserCut
         [] OTHER -> UNCHANGED opened

\* stop(), when the crawls are over: what _http_ctx and _browser are is closed, and may be opened
\* again.
Close ==
    /\ \A f \in Fetch : pc[f] = "idle"
    /\ http' = FALSE /\ browser' = FALSE /\ half' = FALSE
    /\ sessions' = IF http \/ half THEN sessions - 1 ELSE sessions
    /\ browsers' = IF browser THEN browsers - 1 ELSE browsers
    /\ UNCHANGED <<fetch, cut>>

\* start(): the session is opened before anybody needs it, or it raises.
Warm ==
    /\ \A f \in Fetch : pc[f] = "idle"
    /\ ~http
    /\ SessionOpens \/ SessionCut
    /\ UNCHANGED fetch

InLine(f) == Enter(f) \/ Limit(f) \/ Session(f) \/ Browser(f)
Awaited(f) == Pause(f) \/ Open(f) \/ Get(f) \/ Admit(f) \/ Backoff(f) \/ StartBrowser(f) \/ Browse(f)

FetchNext ==
    \/ \E f \in Fetch : Start(f) \/ InLine(f) \/ Awaited(f) \/ Cancel(f)
    \/ Close \/ Warm

\* Every request, opening and pause comes to an end (they have time limits), and asyncio hands
\* locks and slots on in the order in which they were asked for.
FetchFairness == \A f \in Fetch : WF_fetchVars(Awaited(f)) /\ SF_fetchVars(InLine(f))

FetchSpec == FetchInit /\ [][FetchNext]_fetchVars /\ FetchFairness

-----------------------------------------------------------------------------

FetchTypeOK ==
    /\ pc \in [Fetch -> {"idle", "slot", "limit", "pause", "session", "opening", "get", "admit",
                         "backoff", "browser", "starting", "browse"}]
    /\ attempt \in [Fetch -> 0..MaxRetries]
    /\ last \in [Fetch -> Kind \cup {Nothing}] /\ given \in [Fetch -> {"content", "failure", Nothing}]
    /\ http \in BOOLEAN /\ browser \in BOOLEAN /\ half \in BOOLEAN
    /\ sessions \in Nat /\ browsers \in Nat
    /\ cut \in [session : 0..MaxCut, browser : 0..MaxCut]

\* However many fetches find nothing open at once, one session and one browser are open, those in
\* use, and besides them no more than openings that raised or were cancelled have left behind: of
\* these close() still finds the last session, and no browser.
OneOpen ==
    /\ http \/ half => sessions > 0
    /\ sessions <= (IF http THEN 1 ELSE 0) + cut.session
    /\ browsers = (IF browser THEN 1 ELSE 0) + cut.browser

\* A fetch that the browser has had a try at never gives worse than HTTP got: a page or a shell is
\* not lost to what the browser came to. And with HTTP first, what came from an address that was not
\* admitted is never shown by the browser instead (PageFetcher.fetch).
NeverWorse ==
    [][\A f \in Fetch :
          pc[f] \in {"starting", "browse"} /\ given'[f] # given[f]
              => /\ last[f] \in Good => given'[f] = "content"
                 /\ HttpFirst => last[f] # "unsafe"]_fetchVars

\* Every fetch comes to an end, whatever the site, the browser and the other fetches do.
FetchEnds == \A f \in Fetch : pc[f] # "idle" ~> pc[f] = "idle"
=============================================================================
