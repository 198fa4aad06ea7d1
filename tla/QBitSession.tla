------------------------------ MODULE QBitSession ------------------------------
(***************************************************************************)
(* The session with qBittorrent (qbit_client/_transport.py) and the probe  *)
(* that the pages and the swap ask (QBittorrentClient.ping). Any number of *)
(* coroutines send requests over one HTTP client: each makes sure that     *)
(* somebody has logged in, tries a request a few times, and logs in anew   *)
(* when qBittorrent answers 403.                                           *)
(*                                                                         *)
(* An action is what runs between two awaits. The awaits are the two       *)
(* locks, the requests on the wire and the pauses between tries; a         *)
(* coroutine can be cancelled at each of them.                             *)
(***************************************************************************)
EXTENDS Naturals

CONSTANTS
    Caller,             \* coroutines
    NoCaller,           \* nobody holds the lock
    MaxAttempts,        \* _retry_config["max_retries"]
    MaxAuthRetries,     \* _max_auth_retries
    MaxEvents           \* bound on lapses of the session, faults, cancellations, changes of password

ASSUME SessionAssumption ==
    /\ NoCaller \notin Caller
    /\ MaxAttempts \in Nat \ {0}
    /\ MaxAuthRetries \in Nat
    /\ MaxEvents \in Nat

VARIABLES
    pc,             \* where each coroutine stands
    kind,           \* what it does: "call" some endpoint, or "ping"
    attempt,        \* request(): the loop variable
    authRetries,    \* request(): auth_retry_count
    loginTry,       \* _login(): the loop variable
    force,          \* _login(): the argument
    token,          \* the cookie that its request on the wire carries
    result,         \* how its last request ended
    holder,         \* who holds _auth_lock
    authenticated,  \* _authenticated
    jar,            \* the session cookie of the client: "none", "good" or "stale"
    client,         \* _client: "none", "open", or "closing" while it is being closed
    closing,        \* _closing
    right,          \* the credentials are the ones qBittorrent wants
    answer,         \* _last_ping_result: "none", "yes" or "no"
    fresh,          \* the answer is less than _ping_cache_ttl old
    reason,         \* last_error is set
    events          \* external events so far

loop == <<attempt, authRetries>>
login == <<loginTry, force>>
session == <<authenticated, jar>>
probe == <<answer, fresh, reason>>
world == <<right, events>>
vars == <<pc, kind, loop, login, token, result, holder, session, client, closing, probe, world>>

OnWire == {"post", "send"}
Cookie == {"none", "good", "stale"}

Init ==
    /\ pc = [c \in Caller |-> "idle"]
    /\ kind = [c \in Caller |-> "call"]
    /\ attempt = [c \in Caller |-> 0] /\ authRetries = [c \in Caller |-> 0]
    /\ loginTry = [c \in Caller |-> 0] /\ force = [c \in Caller |-> FALSE]
    /\ token = [c \in Caller |-> "none"]
    /\ result = [c \in Caller |-> "none"]
    /\ holder = NoCaller
    /\ authenticated = FALSE /\ jar = "none"
    /\ client = "none" /\ closing = FALSE
    /\ right = TRUE
    /\ answer = "none" /\ fresh = FALSE /\ reason = FALSE
    /\ events = 0

Goto(c, p) == pc' = [pc EXCEPT ![c] = p]
Event == events < MaxEvents /\ events' = events + 1

-----------------------------------------------------------------------------
(* Ways out of request() *)

\* ping() keeps what it learned, with the reason if it learned nothing good; an answer "yes"
\* clears the reason.
Learn(ok) ==
    /\ answer' = IF ok THEN "yes" ELSE "no"
    /\ fresh' = TRUE
    /\ reason' = ~ok

\* The request of c ends: it returns a response or raises.
Finish(c, ok) ==
    /\ Goto(c, "idle")
    /\ result' = [result EXCEPT ![c] = IF ok THEN "ok" ELSE "error"]
    /\ attempt' = [attempt EXCEPT ![c] = 0]
    /\ authRetries' = [authRetries EXCEPT ![c] = 0]
    /\ loginTry' = [loginTry EXCEPT ![c] = 0]
    /\ force' = [force EXCEPT ![c] = FALSE]
    /\ token' = [token EXCEPT ![c] = "none"]
    /\ IF kind[c] = "ping" THEN Learn(ok) ELSE UNCHANGED probe

\* The next turn of the loop in request(), if there is one.
NextAttempt(c, pause) ==
    IF attempt[c] + 1 < MaxAttempts
    THEN /\ attempt' = [attempt EXCEPT ![c] = attempt[c] + 1]
         /\ Goto(c, IF pause THEN "sleep" ELSE "check")
         /\ loginTry' = [loginTry EXCEPT ![c] = 0]
         /\ force' = [force EXCEPT ![c] = FALSE]
         /\ token' = [token EXCEPT ![c] = "none"]
         /\ UNCHANGED <<authRetries, result, probe>>
    ELSE Finish(c, FALSE)

\* _get_client, then client.request: nothing is awaited in between.  A transport that is
\* closing raises.
Send(c, cookie) ==
    IF closing THEN Finish(c, FALSE)
    ELSE /\ Goto(c, "send")
         /\ token' = [token EXCEPT ![c] = cookie]
         /\ loginTry' = [loginTry EXCEPT ![c] = 0]
         /\ force' = [force EXCEPT ![c] = FALSE]
         /\ UNCHANGED <<loop, result, probe>>

-----------------------------------------------------------------------------
(* request() and ping() *)

\* A request begins, or a ping that finds no fresh answer; ping() waits for _ping_lock.
Start(c) ==
    /\ pc[c] = "idle"
    /\ \/ kind' = [kind EXCEPT ![c] = "call"] /\ Goto(c, "check")
       \/ ~fresh /\ kind' = [kind EXCEPT ![c] = "ping"] /\ Goto(c, "pinglock")
    /\ result' = [result EXCEPT ![c] = "none"]
    /\ UNCHANGED <<loop, login, token, holder, session, client, closing, probe, world>>

\* The coroutine that holds _ping_lock is the one that probes.
Probing(c) == kind[c] = "ping" /\ pc[c] \notin {"idle", "pinglock"}

\* _ping_lock is acquired; an answer that came in the meantime is taken.
PingLocked(c) ==
    /\ pc[c] = "pinglock"
    /\ ~\E d \in Caller : Probing(d)
    /\ Goto(c, IF fresh THEN "idle" ELSE "check")
    /\ UNCHANGED <<kind, loop, login, token, result, holder, session, client, closing, probe,
                   world>>

\* The top of the loop: with _auth_lock, for a moment, see whether a login is needed.
Check(c) ==
    /\ pc[c] = "check"
    /\ holder = NoCaller
    /\ IF authenticated
       THEN Send(c, jar)
       ELSE Goto(c, "login") /\ UNCHANGED <<loop, login, token, result, probe>>
    /\ UNCHANGED <<kind, holder, session, client, closing, world>>

\* The next POST of _login: a client is made if there is none, and any try but the first of an
\* unforced login starts without cookies.  A transport that is closing raises.
Post(c, again) ==
    IF closing
    THEN /\ Finish(c, FALSE)
         /\ holder' = NoCaller
         /\ UNCHANGED <<jar, client>>
    ELSE /\ Goto(c, "post")
         /\ holder' = c
         /\ client' = "open"
         /\ jar' = IF force[c] \/ again THEN "none" ELSE jar
         /\ UNCHANGED <<loop, force, token, result, probe>>

Login_TrustsOld(c) ==
    /\ pc[c] = "login"
    /\ holder = NoCaller
    /\ IF authenticated /\ ~force[c]
       THEN Send(c, jar) /\ UNCHANGED <<holder, session, client>>
       ELSE /\ UNCHANGED authenticated
            /\ Post(c, FALSE)
            /\ closing \/ UNCHANGED loginTry
    /\ UNCHANGED <<kind, closing, world>>

\* _login has its lock.  Somebody else may have logged in meanwhile; a forced login does not care.
Login(c) ==
    /\ pc[c] = "login"
    /\ holder = NoCaller
    /\ IF authenticated /\ ~force[c]
       THEN Send(c, jar) /\ UNCHANGED <<holder, session, client>>
       ELSE /\ authenticated' = FALSE
            /\ Post(c, FALSE)
            /\ closing \/ UNCHANGED loginTry
    /\ UNCHANGED <<kind, closing, world>>

\* The login succeeded: an unforced one goes on to send, a forced one to the next attempt.
LoggedIn(c) ==
    /\ pc[c] = "post" /\ right
    /\ holder' = NoCaller
    /\ authenticated' = TRUE
    /\ jar' = "good"
    /\ IF force[c] THEN NextAttempt(c, FALSE) ELSE Send(c, "good")
    /\ UNCHANGED <<kind, client, closing, world>>

\* qBittorrent refuses the credentials, or has banned the address: no second try.
Refused(c) ==
    /\ pc[c] = "post"
    /\ IF right THEN Event ELSE UNCHANGED events
    /\ holder' = NoCaller
    /\ Finish(c, FALSE)
    /\ UNCHANGED <<kind, session, client, closing, right>>

\* The network fails, or qBittorrent answers 5xx.  What is on the wire of a closed client fails
\* as well, unless its answer had already come in.
Fault == IF client = "none" THEN UNCHANGED events ELSE Event

LoginFails_KeepsLock(c) ==
    /\ pc[c] = "post"
    /\ Fault
    /\ IF loginTry[c] < MaxAuthRetries
       THEN /\ Goto(c, "nap")
            /\ UNCHANGED <<loop, login, token, result, holder, probe>>
       ELSE Finish(c, FALSE) /\ UNCHANGED holder
    /\ UNCHANGED <<kind, session, client, closing, right>>

\* A login that meets a fault is tried again after a pause, with the lock held.
LoginFails(c) ==
    /\ pc[c] = "post"
    /\ Fault
    /\ IF loginTry[c] < MaxAuthRetries
       THEN /\ Goto(c, "nap")
            /\ UNCHANGED <<loop, login, token, result, holder, probe>>
       ELSE /\ holder' = NoCaller
            /\ Finish(c, FALSE)
    /\ UNCHANGED <<kind, session, client, closing, right>>

LoginAgain(c) ==
    /\ pc[c] = "nap"
    /\ Post(c, TRUE)
    /\ closing \/ loginTry' = [loginTry EXCEPT ![c] = loginTry[c] + 1]
    /\ UNCHANGED <<kind, authenticated, closing, world>>

\* qBittorrent serves the request of a session it knows.
Served(c) ==
    /\ pc[c] = "send" /\ token[c] = "good"
    /\ Finish(c, TRUE)
    /\ UNCHANGED <<kind, holder, session, client, closing, world>>

Forbidden_NoForce(c) ==
    /\ pc[c] = "send"
    /\ IF token[c] = "good" THEN Event ELSE UNCHANGED events
    /\ IF authRetries[c] >= MaxAuthRetries
       THEN Finish(c, FALSE)
       ELSE /\ authRetries' = [authRetries EXCEPT ![c] = authRetries[c] + 1]
            /\ token' = [token EXCEPT ![c] = "none"]
            /\ Goto(c, "login")
            /\ UNCHANGED <<attempt, loginTry, force, result, probe>>
    /\ UNCHANGED <<kind, holder, session, client, closing, right>>

\* It answers 403, to a session it does not know or for another reason: log in anew, a limited
\* number of times.
Forbidden(c) ==
    /\ pc[c] = "send"
    /\ IF token[c] = "good" THEN Event ELSE UNCHANGED events
    /\ IF authRetries[c] >= MaxAuthRetries
       THEN Finish(c, FALSE)
       ELSE /\ authRetries' = [authRetries EXCEPT ![c] = authRetries[c] + 1]
            /\ force' = [force EXCEPT ![c] = TRUE]
            /\ token' = [token EXCEPT ![c] = "none"]
            /\ Goto(c, "login")
            /\ UNCHANGED <<attempt, loginTry, result, probe>>
    /\ UNCHANGED <<kind, holder, session, client, closing, right>>

\* The network fails or qBittorrent answers with a status worth another attempt.
SendFails(c) ==
    /\ pc[c] = "send"
    /\ Fault
    /\ NextAttempt(c, TRUE)
    /\ UNCHANGED <<kind, holder, session, client, closing, right>>

\* Any other status, or an exception that is not of the network, ends the request.
SendEnds(c) ==
    /\ pc[c] = "send"
    /\ Fault
    /\ Finish(c, FALSE)
    /\ UNCHANGED <<kind, holder, session, client, closing, right>>

Wake(c) ==
    /\ pc[c] = "sleep"
    /\ Goto(c, "check")
    /\ UNCHANGED <<kind, loop, login, token, result, holder, session, client, closing, probe,
                   world>>

\* The caller gives up (a probe has 1.5 to 5 seconds, a batch its time): the locks are released,
\* a ping notes that nobody answered.
Cancel(c) ==
    /\ pc[c] # "idle"
    /\ Event
    /\ Goto(c, "idle")
    /\ result' = [result EXCEPT ![c] = "error"]
    /\ attempt' = [attempt EXCEPT ![c] = 0] /\ authRetries' = [authRetries EXCEPT ![c] = 0]
    /\ loginTry' = [loginTry EXCEPT ![c] = 0] /\ force' = [force EXCEPT ![c] = FALSE]
    /\ token' = [token EXCEPT ![c] = "none"]
    /\ holder' = IF holder = c THEN NoCaller ELSE holder
    /\ reason' = (reason \/ Probing(c))
    /\ UNCHANGED <<kind, session, client, closing, answer, fresh, right>>

-----------------------------------------------------------------------------
(* close() and the world *)

\* close(): from here on nobody gets the client.  Its cookies go first.
Close ==
    /\ ~closing
    /\ Event
    /\ closing' = TRUE
    /\ IF client = "open"
       THEN client' = "closing" /\ jar' = "none" /\ UNCHANGED authenticated
       ELSE authenticated' = FALSE /\ UNCHANGED <<client, jar>>
    /\ UNCHANGED <<pc, kind, loop, login, token, result, holder, probe, right>>

Closed ==
    /\ client = "closing"
    /\ client' = "none"
    /\ authenticated' = FALSE
    /\ UNCHANGED <<pc, kind, loop, login, token, result, holder, jar, closing, probe, world>>

\* qBittorrent forgets its sessions, those on the wire included.
Lapse ==
    /\ Event
    /\ jar' = IF jar = "good" THEN "stale" ELSE jar
    /\ token' = [c \in Caller |-> IF token[c] = "good" THEN "stale" ELSE token[c]]
    /\ UNCHANGED <<pc, kind, loop, login, result, holder, authenticated, client, closing, probe,
                   right>>

\* Somebody changes the password in qBittorrent, or changes it back.
ChangePassword ==
    /\ Event
    /\ right' = ~right
    /\ UNCHANGED <<pc, kind, loop, login, token, result, holder, session, client, closing, probe>>

\* Time passes: the answer of the last ping is no longer taken.
Age ==
    /\ fresh
    /\ fresh' = FALSE
    /\ UNCHANGED <<pc, kind, loop, login, token, result, holder, session, client, closing,
                   answer, reason, world>>

Response(c) == LoggedIn(c) \/ Refused(c) \/ LoginFails(c)
               \/ Served(c) \/ Forbidden(c) \/ SendFails(c) \/ SendEnds(c)
Step(c) == Response(c) \/ LoginAgain(c) \/ Wake(c)
Locked(c) == PingLocked(c) \/ Check(c) \/ Login(c)

Next ==
    \/ \E c \in Caller : Start(c) \/ Step(c) \/ Locked(c) \/ Cancel(c)
    \/ Close \/ Closed \/ Lapse \/ ChangePassword \/ Age

Spec == Init /\ [][Next]_vars

\* A pause ends, a request is answered or times out, and a lock is handed on in order.
Fairness ==
    /\ WF_vars(Closed)
    /\ \A c \in Caller : WF_vars(Step(c)) /\ SF_vars(PingLocked(c))
                         /\ SF_vars(Check(c)) /\ SF_vars(Login(c))

FairSpec == Spec /\ Fairness

-----------------------------------------------------------------------------

TypeOK ==
    /\ pc \in [Caller -> {"idle", "pinglock", "check", "login", "post", "nap", "send", "sleep"}]
    /\ kind \in [Caller -> {"call", "ping"}]
    /\ attempt \in [Caller -> 0..(MaxAttempts - 1)]
    /\ authRetries \in [Caller -> 0..MaxAuthRetries]
    /\ loginTry \in [Caller -> 0..MaxAuthRetries]
    /\ force \in [Caller -> BOOLEAN]
    /\ token \in [Caller -> Cookie]
    /\ result \in [Caller -> {"none", "ok", "error"}]
    /\ holder \in Caller \cup {NoCaller}
    /\ {authenticated, closing, right, fresh, reason} \subseteq BOOLEAN
    /\ jar \in Cookie
    /\ client \in {"none", "open", "closing"}
    /\ answer \in {"none", "yes", "no"}
    /\ events \in 0..MaxEvents

\* What a step that puts a request on the wire looks like.
Signed ==
    \A c \in Caller :
        pc[c] # "send" /\ pc'[c] = "send"
            => authenticated' /\ jar' # "none" /\ token'[c] = jar' /\ ~closing'

\* No request leaves without the cookie of a login that succeeded: not between the clearing
\* of the cookies and the answer of a login, not after a login that failed or was cancelled,
\* not on a transport that is closing.
SentSigned == [][Signed]_vars

\* One coroutine at a time talks to the login endpoint, with the lock that the others wait for.
LoginAlone ==
    \A c \in Caller : pc[c] \in {"post", "nap"} <=> holder = c

\* Whenever the last probe says that qBittorrent is away, there is a reason to show
\* (client.py:104: without it the page can only say "offline").
OfflineExplained == answer = "no" => reason

\* Nothing is left that could go wrong.
Calm == events = MaxEvents /\ right /\ ~closing

\* A session that has lapsed, or that was thrown away by somebody else's login, costs a
\* request no more than one of its attempts: begun in calm, it succeeds.
Recovers ==
    \A c \in Caller :
        Calm /\ pc[c] = "check" /\ attempt[c] = 0 ~> pc[c] = "idle" /\ result[c] = "ok"

\* Every request and every ping comes to an end, whatever happens to the others: nobody keeps
\* a lock.
RequestEnds == \A c \in Caller : pc[c] # "idle" ~> pc[c] = "idle"
=============================================================================
