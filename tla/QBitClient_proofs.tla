--------------------------- MODULE QBitClient_proofs ---------------------------
(***************************************************************************)
(* Theorems about two parts of the qB client: its session with             *)
(* qBittorrent (QBitSession), for any number of coroutines and any limits, *)
(* and its copy of qBittorrent's torrents (QBitSnapshot), for any torrents, *)
(* values, faults and polls.                                               *)
(***************************************************************************)
EXTENDS QBitSession, QBitSnapshot, TLAPS

-----------------------------------------------------------------------------
(***************************************************************************)
(* The session.                                                            *)
(***************************************************************************)

USE SessionAssumption

\* While somebody logs in, nobody passes for logged in; who passes for it has a cookie.
SessionInv ==
    /\ LoginAlone
    /\ holder # NoCaller => ~authenticated
    /\ authenticated /\ ~closing => jar # "none"
    /\ \A c \in Caller : pc[c] = "nap" => loginTry[c] < MaxAuthRetries

-----------------------------------------------------------------------------

\* The ways out of a request keep the types.
LEMMA FinishType ==
    ASSUME TypeOK, NEW c \in Caller, NEW ok \in BOOLEAN, Finish(c, ok), kind' = kind
    PROVE /\ pc' \in [Caller -> {"idle", "pinglock", "check", "login", "post", "nap", "send", "sleep"}]
          /\ attempt' \in [Caller -> 0..(MaxAttempts - 1)]
          /\ authRetries' \in [Caller -> 0..MaxAuthRetries]
          /\ loginTry' \in [Caller -> 0..MaxAuthRetries]
          /\ force' \in [Caller -> BOOLEAN]
          /\ token' \in [Caller -> Cookie]
          /\ result' \in [Caller -> {"none", "ok", "error"}]
          /\ {fresh', reason'} \subseteq BOOLEAN
          /\ answer' \in {"none", "yes", "no"}
          /\ pc' = [pc EXCEPT ![c] = "idle"]
<1>1. 0 \in 0..(MaxAttempts - 1) /\ 0 \in 0..MaxAuthRetries OBVIOUS
<1> QED BY <1>1 DEF Finish, Goto, Learn, probe, TypeOK, Cookie

\* Sending keeps the types.
LEMMA SendType ==
    ASSUME TypeOK, NEW c \in Caller, NEW cookie \in Cookie, Send(c, cookie), kind' = kind
    PROVE /\ pc' \in [Caller -> {"idle", "pinglock", "check", "login", "post", "nap", "send", "sleep"}]
          /\ attempt' \in [Caller -> 0..(MaxAttempts - 1)]
          /\ authRetries' \in [Caller -> 0..MaxAuthRetries]
          /\ loginTry' \in [Caller -> 0..MaxAuthRetries]
          /\ force' \in [Caller -> BOOLEAN]
          /\ token' \in [Caller -> Cookie]
          /\ result' \in [Caller -> {"none", "ok", "error"}]
          /\ {fresh', reason'} \subseteq BOOLEAN
          /\ answer' \in {"none", "yes", "no"}
          /\ \/ pc' = [pc EXCEPT ![c] = "idle"]
             \/ pc' = [pc EXCEPT ![c] = "send"]
<1>1. CASE closing BY <1>1, FinishType DEF Send
<1>2. CASE ~closing
  <2>1. 0 \in 0..MaxAuthRetries OBVIOUS
  <2>2. /\ pc' = [pc EXCEPT ![c] = "send"]
        /\ token' = [token EXCEPT ![c] = cookie]
        /\ loginTry' = [loginTry EXCEPT ![c] = 0]
        /\ force' = [force EXCEPT ![c] = FALSE]
        /\ UNCHANGED <<attempt, authRetries, result, answer, fresh, reason>>
    BY <1>2 DEF Send, Goto, loop, probe
  <2>3. loginTry' \in [Caller -> 0..MaxAuthRetries] BY <2>1, <2>2 DEF TypeOK
  <2>4. /\ pc' \in [Caller -> {"idle", "pinglock", "check", "login", "post", "nap", "send", "sleep"}]
        /\ force' \in [Caller -> BOOLEAN] /\ token' \in [Caller -> Cookie]
    BY <2>2 DEF TypeOK
  <2> QED BY <2>2, <2>3, <2>4 DEF TypeOK
<1> QED BY <1>1, <1>2

\* The next attempt keeps the types.
LEMMA NextAttemptType ==
    ASSUME TypeOK, NEW c \in Caller, NEW pause \in BOOLEAN, NextAttempt(c, pause), kind' = kind
    PROVE /\ pc' \in [Caller -> {"idle", "pinglock", "check", "login", "post", "nap", "send", "sleep"}]
          /\ attempt' \in [Caller -> 0..(MaxAttempts - 1)]
          /\ authRetries' \in [Caller -> 0..MaxAuthRetries]
          /\ loginTry' \in [Caller -> 0..MaxAuthRetries]
          /\ force' \in [Caller -> BOOLEAN]
          /\ token' \in [Caller -> Cookie]
          /\ result' \in [Caller -> {"none", "ok", "error"}]
          /\ {fresh', reason'} \subseteq BOOLEAN
          /\ answer' \in {"none", "yes", "no"}
          /\ \E p \in {"idle", "sleep", "check"} : pc' = [pc EXCEPT ![c] = p]
<1>1. CASE attempt[c] + 1 < MaxAttempts
  <2>1. attempt[c] + 1 \in 0..(MaxAttempts - 1) /\ 0 \in 0..MaxAuthRetries
    BY <1>1 DEF TypeOK
  <2>2. /\ attempt' = [attempt EXCEPT ![c] = attempt[c] + 1]
        /\ pc' = [pc EXCEPT ![c] = IF pause THEN "sleep" ELSE "check"]
        /\ loginTry' = [loginTry EXCEPT ![c] = 0]
        /\ force' = [force EXCEPT ![c] = FALSE]
        /\ token' = [token EXCEPT ![c] = "none"]
        /\ UNCHANGED <<authRetries, result, answer, fresh, reason>>
    BY <1>1 DEF NextAttempt, Goto, probe
  <2>3. attempt' \in [Caller -> 0..(MaxAttempts - 1)] /\ loginTry' \in [Caller -> 0..MaxAuthRetries]
    BY <2>1, <2>2 DEF TypeOK
  <2>4. /\ pc' \in [Caller -> {"idle", "pinglock", "check", "login", "post", "nap", "send", "sleep"}]
        /\ force' \in [Caller -> BOOLEAN] /\ token' \in [Caller -> Cookie]
    BY <2>2 DEF TypeOK, Cookie
  <2>5. (IF pause THEN "sleep" ELSE "check") \in {"idle", "sleep", "check"} OBVIOUS
  <2> QED BY <2>2, <2>3, <2>4, <2>5 DEF TypeOK
<1>2. CASE ~(attempt[c] + 1 < MaxAttempts)
  BY <1>2, FinishType DEF NextAttempt
<1> QED BY <1>1, <1>2

\* A POST of the login keeps the types, and leaves the lock with its sender or with nobody.
LEMMA PostType ==
    ASSUME TypeOK, NEW c \in Caller, NEW again \in BOOLEAN, Post(c, again), kind' = kind,
           ~closing => loginTry' \in [Caller -> 0..MaxAuthRetries]
    PROVE /\ pc' \in [Caller -> {"idle", "pinglock", "check", "login", "post", "nap", "send", "sleep"}]
          /\ attempt' \in [Caller -> 0..(MaxAttempts - 1)]
          /\ authRetries' \in [Caller -> 0..MaxAuthRetries]
          /\ loginTry' \in [Caller -> 0..MaxAuthRetries]
          /\ force' \in [Caller -> BOOLEAN]
          /\ token' \in [Caller -> Cookie]
          /\ result' \in [Caller -> {"none", "ok", "error"}]
          /\ {fresh', reason'} \subseteq BOOLEAN
          /\ answer' \in {"none", "yes", "no"}
          /\ jar' \in Cookie /\ client' \in {"none", "open", "closing"}
          /\ \/ pc' = [pc EXCEPT ![c] = "idle"] /\ holder' = NoCaller
             \/ pc' = [pc EXCEPT ![c] = "post"] /\ holder' = c
<1>1. CASE closing
  <2>1. Finish(c, FALSE) /\ holder' = NoCaller /\ UNCHANGED <<jar, client>>
    BY <1>1 DEF Post
  <2> QED BY <2>1, FinishType DEF TypeOK
<1>2. CASE ~closing
  BY <1>2 DEF Post, Goto, loop, probe, TypeOK, Cookie
<1> QED BY <1>1, <1>2

\* Every step preserves the types.
LEMMA NextType == TypeOK /\ SessionInv /\ [Next]_vars => TypeOK'
<1> SUFFICES ASSUME TypeOK, SessionInv, [Next]_vars PROVE TypeOK'
  OBVIOUS
<1> USE DEF loop, login, session, probe, world, Event
<1>1. ASSUME NEW c \in Caller, Start(c) PROVE TypeOK'
  BY <1>1 DEF Start, Goto, TypeOK
<1>2. ASSUME NEW c \in Caller, PingLocked(c) PROVE TypeOK'
  BY <1>2 DEF PingLocked, Goto, TypeOK
<1>3. ASSUME NEW c \in Caller, Check(c) PROVE TypeOK'
  <2>1. CASE authenticated
    <3>1. Send(c, jar) /\ jar \in Cookie BY <1>3, <2>1 DEF Check, TypeOK
    <3> QED BY <1>3, <3>1, SendType DEF Check, TypeOK
  <2>2. CASE ~authenticated BY <1>3, <2>2 DEF Check, Goto, TypeOK
  <2> QED BY <2>1, <2>2
<1>4. ASSUME NEW c \in Caller, Login(c) PROVE TypeOK'
  <2>1. CASE authenticated /\ ~force[c]
    <3>1. Send(c, jar) /\ jar \in Cookie BY <1>4, <2>1 DEF Login, TypeOK
    <3> QED BY <1>4, <2>1, <3>1, SendType DEF Login, TypeOK
  <2>2. CASE ~(authenticated /\ ~force[c])
    <3>1. Post(c, FALSE) /\ (~closing => loginTry' = loginTry) BY <1>4, <2>2 DEF Login
    <3>2. ~closing => loginTry' \in [Caller -> 0..MaxAuthRetries] BY <3>1 DEF TypeOK
    <3> QED BY <1>4, <2>2, <3>1, <3>2, PostType DEF Login, TypeOK
  <2> QED BY <2>1, <2>2
<1>5. ASSUME NEW c \in Caller, LoginAgain(c) PROVE TypeOK'
  <2>1. Post(c, TRUE) /\ (~closing => loginTry' = [loginTry EXCEPT ![c] = loginTry[c] + 1])
    BY <1>5 DEF LoginAgain
  <2>2. loginTry[c] + 1 \in 0..MaxAuthRetries BY <1>5 DEF LoginAgain, SessionInv, TypeOK
  <2>3. ~closing => loginTry' \in [Caller -> 0..MaxAuthRetries] BY <2>1, <2>2 DEF TypeOK
  <2> QED BY <1>5, <2>1, <2>3, PostType DEF LoginAgain, TypeOK
<1>6. ASSUME NEW c \in Caller, LoggedIn(c) PROVE TypeOK'
  <2>1. CASE force[c]
    BY <1>6, <2>1, NextAttemptType DEF LoggedIn, TypeOK, Cookie
  <2>2. CASE ~force[c]
    <3>1. Send(c, "good") /\ "good" \in Cookie BY <1>6, <2>2 DEF LoggedIn, Cookie
    <3> QED BY <1>6, <3>1, SendType DEF LoggedIn, TypeOK, Cookie
  <2> QED BY <2>1, <2>2
<1>7. ASSUME NEW c \in Caller, Refused(c) PROVE TypeOK'
  <2>1. events' \in 0..MaxEvents BY <1>7 DEF Refused, TypeOK
  <2> QED BY <1>7, <2>1, FinishType DEF Refused, TypeOK
<1>8. ASSUME NEW c \in Caller, LoginFails(c) PROVE TypeOK'
  <2>1. events' \in 0..MaxEvents BY <1>8 DEF LoginFails, Fault, TypeOK
  <2>2. CASE loginTry[c] < MaxAuthRetries
    BY <1>8, <2>1, <2>2 DEF LoginFails, Goto, TypeOK
  <2>3. CASE ~(loginTry[c] < MaxAuthRetries)
    BY <1>8, <2>1, <2>3, FinishType DEF LoginFails, TypeOK
  <2> QED BY <2>2, <2>3
<1>9. ASSUME NEW c \in Caller, Served(c) PROVE TypeOK'
  BY <1>9, FinishType DEF Served, TypeOK
<1>10. ASSUME NEW c \in Caller, Forbidden(c) PROVE TypeOK'
  <2>1. events' \in 0..MaxEvents BY <1>10 DEF Forbidden, TypeOK
  <2>2. CASE authRetries[c] >= MaxAuthRetries
    BY <1>10, <2>1, <2>2, FinishType DEF Forbidden, TypeOK
  <2>3. CASE ~(authRetries[c] >= MaxAuthRetries)
    <3>1. authRetries[c] + 1 \in 0..MaxAuthRetries BY <2>3 DEF TypeOK
    <3>2. /\ authRetries' = [authRetries EXCEPT ![c] = authRetries[c] + 1]
          /\ force' = [force EXCEPT ![c] = TRUE]
          /\ token' = [token EXCEPT ![c] = "none"]
          /\ pc' = [pc EXCEPT ![c] = "login"]
          /\ UNCHANGED <<attempt, loginTry, result, answer, fresh, reason>>
          /\ UNCHANGED <<kind, holder, authenticated, jar, client, closing, right>>
      BY <1>10, <2>3 DEF Forbidden, Goto
    <3>3. authRetries' \in [Caller -> 0..MaxAuthRetries] BY <3>1, <3>2 DEF TypeOK
    <3> QED BY <2>1, <3>2, <3>3 DEF TypeOK, Cookie
  <2> QED BY <2>2, <2>3
<1>11. ASSUME NEW c \in Caller, SendFails(c) PROVE TypeOK'
  <2>1. events' \in 0..MaxEvents BY <1>11 DEF SendFails, Fault, TypeOK
  <2> QED BY <1>11, <2>1, NextAttemptType DEF SendFails, TypeOK
<1>12. ASSUME NEW c \in Caller, SendEnds(c) PROVE TypeOK'
  <2>1. events' \in 0..MaxEvents BY <1>12 DEF SendEnds, Fault, TypeOK
  <2> QED BY <1>12, <2>1, FinishType DEF SendEnds, TypeOK
<1>13. ASSUME NEW c \in Caller, Wake(c) PROVE TypeOK'
  BY <1>13 DEF Wake, Goto, TypeOK
<1>14. ASSUME NEW c \in Caller, Cancel(c) PROVE TypeOK'
  <2>1. 0 \in 0..(MaxAttempts - 1) /\ 0 \in 0..MaxAuthRetries OBVIOUS
  <2>2. Probing(c) \in BOOLEAN BY DEF Probing
  <2> QED BY <1>14, <2>1, <2>2 DEF Cancel, Goto, TypeOK, Cookie
<1>15. CASE Close \/ Closed \/ ChangePassword \/ Age
  <2>1. CASE Close
    <3>0. closing' = TRUE /\ events' \in 0..MaxEvents BY <2>1 DEF Close, TypeOK
    <3>1. /\ client' \in {"none", "open", "closing"} /\ jar' \in Cookie
          /\ authenticated' \in BOOLEAN
      <4>1. CASE client = "open"
        <5>1. client' = "closing" /\ jar' = "none" /\ authenticated' = authenticated
          BY <2>1, <4>1 DEF Close
        <5> QED BY <5>1 DEF TypeOK, Cookie
      <4>2. CASE client # "open"
        <5>1. client' = client /\ jar' = jar /\ authenticated' = FALSE
          BY <2>1, <4>2 DEF Close
        <5> QED BY <5>1 DEF TypeOK
      <4> QED BY <4>1, <4>2
    <3>2. UNCHANGED <<pc, kind, attempt, authRetries, loginTry, force, token, result, holder,
                      answer, fresh, reason, right>>
      BY <2>1 DEF Close
    <3> QED BY <3>0, <3>1, <3>2 DEF TypeOK
  <2>2. CASE Closed \/ Age BY <2>2 DEF Closed, Age, TypeOK
  <2>3. CASE ChangePassword BY <2>3 DEF ChangePassword, TypeOK
  <2> QED BY <1>15, <2>1, <2>2, <2>3
<1>16. CASE Lapse
  BY <1>16 DEF Lapse, TypeOK, Cookie
<1>17. CASE UNCHANGED vars BY <1>17 DEF vars, TypeOK
<1> QED BY <1>1, <1>2, <1>3, <1>4, <1>5, <1>6, <1>7, <1>8, <1>9, <1>10, <1>11, <1>12, <1>13,
           <1>14, <1>15, <1>16, <1>17 DEF Next, Step, Response, Locked

-----------------------------------------------------------------------------

\* Nobody logs in, nobody is logged in.
LEMMA InitInv == Init => TypeOK /\ SessionInv
<1> SUFFICES ASSUME Init PROVE TypeOK /\ SessionInv
  OBVIOUS
<1>1. 0 \in 0..(MaxAttempts - 1) /\ 0 \in 0..MaxAuthRetries /\ 0 \in 0..MaxEvents OBVIOUS
<1>2. TypeOK BY <1>1 DEF Init, TypeOK, Cookie
<1>3. SessionInv BY DEF Init, SessionInv, LoginAlone
<1> QED BY <1>2, <1>3

\* A step that moves only c, leaves the lock, and keeps c out of the login.
LEMMA Aside ==
    ASSUME TypeOK, SessionInv, NEW c \in Caller, NEW p \in {"idle", "pinglock", "check", "login", "send", "sleep"},
           pc' = [pc EXCEPT ![c] = p], pc[c] \notin {"post", "nap"}, holder' = holder,
           UNCHANGED session, closing' = closing,
           \A d \in Caller \ {c} : loginTry'[d] = loginTry[d]
    PROVE SessionInv'
<1>1. LoginAlone' BY DEF LoginAlone, SessionInv, TypeOK
<1> QED BY <1>1 DEF SessionInv, session, TypeOK

\* A step in which c, who logged in, lets go of the lock.
LEMMA LetsGo ==
    ASSUME TypeOK, SessionInv, NEW c \in Caller, NEW p \in {"idle", "check", "send", "sleep"},
           pc' = [pc EXCEPT ![c] = p], pc[c] \in {"post", "nap"}, holder' = NoCaller,
           closing' = closing, authenticated' /\ ~closing => jar' # "none",
           \A d \in Caller \ {c} : loginTry'[d] = loginTry[d]
    PROVE SessionInv'
<1>1. holder = c BY DEF SessionInv, LoginAlone
<1>2. \A d \in Caller : pc'[d] \notin {"post", "nap"}
  BY <1>1 DEF SessionInv, LoginAlone, TypeOK
<1>3. LoginAlone' BY <1>2 DEF LoginAlone
<1> QED BY <1>2, <1>3 DEF SessionInv

\* What the ways out do to the tries of the others: nothing.
LEMMA OthersTries ==
    ASSUME TypeOK, NEW c \in Caller, NEW b \in BOOLEAN, NEW cookie,
           Finish(c, b) \/ NextAttempt(c, b) \/ Send(c, cookie)
    PROVE \A d \in Caller \ {c} : loginTry'[d] = loginTry[d]
BY DEF Finish, NextAttempt, Send, TypeOK

\* Where the ways out lead.
LEMMA WaysOut ==
    ASSUME TypeOK, NEW c \in Caller, NEW b \in BOOLEAN, NEW cookie
    PROVE /\ Finish(c, b) => pc' = [pc EXCEPT ![c] = "idle"]
          /\ NextAttempt(c, b) => \E p \in {"idle", "check", "sleep"} : pc' = [pc EXCEPT ![c] = p]
          /\ Send(c, cookie) => \E p \in {"idle", "send"} : pc' = [pc EXCEPT ![c] = p]
BY DEF Finish, NextAttempt, Send, Goto

\* Every step keeps the invariant.
LEMMA NextInv == TypeOK /\ SessionInv /\ [Next]_vars => SessionInv'
<1> SUFFICES ASSUME TypeOK, SessionInv, [Next]_vars PROVE SessionInv'
  OBVIOUS
<1>1. ASSUME NEW c \in Caller, Start(c) PROVE SessionInv'
  <2>1. \E p \in {"check", "pinglock"} : pc' = [pc EXCEPT ![c] = p]
    BY <1>1 DEF Start, Goto
  <2> QED BY <1>1, <2>1, Aside DEF Start, login
<1>2. ASSUME NEW c \in Caller, PingLocked(c) PROVE SessionInv'
  <2>1. \E p \in {"check", "idle"} : pc' = [pc EXCEPT ![c] = p]
    BY <1>2 DEF PingLocked, Goto
  <2> QED BY <1>2, <2>1, Aside DEF PingLocked, login
<1>3. ASSUME NEW c \in Caller, Check(c) PROVE SessionInv'
  <2>1. pc[c] = "check" /\ holder' = holder /\ UNCHANGED session /\ closing' = closing
    BY <1>3 DEF Check
  <2>2. \E p \in {"idle", "login", "send"} : pc' = [pc EXCEPT ![c] = p]
    BY <1>3, WaysOut DEF Check, Goto
  <2>3. \A d \in Caller \ {c} : loginTry'[d] = loginTry[d]
    BY <1>3, OthersTries DEF Check, login
  <2> QED BY <2>1, <2>2, <2>3, Aside
<1>4. ASSUME NEW c \in Caller, Login(c) PROVE SessionInv'
  <2>1. CASE authenticated /\ ~force[c]
    <3>1. Send(c, jar) /\ UNCHANGED <<holder, session, closing>> /\ pc[c] = "login"
      BY <1>4, <2>1 DEF Login
    <3>2. \E p \in {"idle", "send"} : pc' = [pc EXCEPT ![c] = p] BY <3>1, WaysOut
    <3>3. \A d \in Caller \ {c} : loginTry'[d] = loginTry[d] BY <3>1, OthersTries
    <3> QED BY <3>1, <3>2, <3>3, Aside
  <2>2. CASE ~(authenticated /\ ~force[c])
    <3>1. /\ authenticated' = FALSE /\ Post(c, FALSE) /\ closing' = closing
          /\ pc[c] = "login" /\ holder = NoCaller
      BY <1>4, <2>2 DEF Login
    <3>2. \A d \in Caller : pc[d] \notin {"post", "nap"}
      BY <3>1 DEF SessionInv, LoginAlone
    <3>3. CASE closing
      <4>1. Finish(c, FALSE) /\ holder' = NoCaller BY <3>1, <3>3 DEF Post
      <4>2. pc' = [pc EXCEPT ![c] = "idle"] BY <4>1, WaysOut
      <4>3. \A d \in Caller : pc'[d] \notin {"post", "nap"} BY <3>2, <4>2 DEF TypeOK
      <4> QED BY <3>1, <4>1, <4>3 DEF SessionInv, LoginAlone
    <3>4. CASE ~closing
      <4>1. pc' = [pc EXCEPT ![c] = "post"] /\ holder' = c BY <3>1, <3>4 DEF Post, Goto
      <4>2. LoginAlone' BY <3>2, <4>1 DEF LoginAlone, TypeOK
      <4>3. \A d \in Caller : pc'[d] # "nap" BY <3>2, <4>1 DEF TypeOK
      <4> QED BY <3>1, <4>2, <4>3 DEF SessionInv
    <3> QED BY <3>3, <3>4
  <2> QED BY <2>1, <2>2
<1>5. ASSUME NEW c \in Caller, LoginAgain(c) PROVE SessionInv'
  <2>1. /\ Post(c, TRUE) /\ closing' = closing /\ pc[c] = "nap" /\ authenticated' = authenticated
    BY <1>5 DEF LoginAgain
  <2>2. holder = c /\ ~authenticated BY <2>1 DEF SessionInv, LoginAlone
  <2>3. CASE closing
    <3>1. Finish(c, FALSE) /\ holder' = NoCaller BY <2>1, <2>3 DEF Post
    <3>2. pc' = [pc EXCEPT ![c] = "idle"] BY <3>1, WaysOut
    <3>3. \A d \in Caller \ {c} : loginTry'[d] = loginTry[d] BY <3>1, OthersTries
    <3> QED BY <2>1, <2>2, <3>1, <3>2, <3>3, LetsGo
  <2>4. CASE ~closing
    <3>1. pc' = [pc EXCEPT ![c] = "post"] /\ holder' = c BY <2>1, <2>4 DEF Post, Goto
    <3>2. LoginAlone' BY <2>2, <3>1 DEF LoginAlone, SessionInv, TypeOK
    <3>3. \A d \in Caller : pc'[d] # "nap"
      BY <2>2, <3>1 DEF LoginAlone, SessionInv, TypeOK
    <3> QED BY <2>1, <2>2, <3>2, <3>3 DEF SessionInv
  <2> QED BY <2>3, <2>4
<1>6. ASSUME NEW c \in Caller, LoggedIn(c) PROVE SessionInv'
  <2>1. pc[c] = "post" /\ holder' = NoCaller /\ jar' = "good" /\ closing' = closing
    BY <1>6 DEF LoggedIn
  <2>2. \E p \in {"idle", "check", "send", "sleep"} : pc' = [pc EXCEPT ![c] = p]
    BY <1>6, WaysOut DEF LoggedIn
  <2>3. \A d \in Caller \ {c} : loginTry'[d] = loginTry[d]
    BY <1>6, OthersTries DEF LoggedIn
  <2> QED BY <2>1, <2>2, <2>3, LetsGo
<1>7. ASSUME NEW c \in Caller, Refused(c) PROVE SessionInv'
  <2>1. pc[c] = "post" /\ holder' = NoCaller /\ UNCHANGED session /\ closing' = closing
        /\ Finish(c, FALSE)
    BY <1>7 DEF Refused
  <2>2. authenticated' /\ ~closing => jar' # "none" BY <2>1 DEF session, SessionInv
  <2> QED BY <2>1, <2>2, WaysOut, OthersTries, LetsGo
<1>8. ASSUME NEW c \in Caller, LoginFails(c) PROVE SessionInv'
  <2>1. pc[c] = "post" /\ UNCHANGED session /\ closing' = closing BY <1>8 DEF LoginFails
  <2>2. CASE loginTry[c] < MaxAuthRetries
    <3>1. pc' = [pc EXCEPT ![c] = "nap"] /\ UNCHANGED <<loginTry, holder>>
      BY <1>8, <2>2 DEF LoginFails, Goto, login
    <3>2. LoginAlone' BY <2>1, <3>1 DEF LoginAlone, SessionInv, TypeOK
    <3>3. \A d \in Caller : pc'[d] = "nap" => loginTry'[d] < MaxAuthRetries
      BY <2>2, <3>1 DEF SessionInv, TypeOK
    <3> QED BY <2>1, <3>1, <3>2, <3>3 DEF SessionInv, session
  <2>3. CASE ~(loginTry[c] < MaxAuthRetries)
    <3>1. holder' = NoCaller /\ Finish(c, FALSE) BY <1>8, <2>3 DEF LoginFails
    <3>2. authenticated' /\ ~closing => jar' # "none" BY <2>1 DEF session, SessionInv
    <3> QED BY <2>1, <3>1, <3>2, WaysOut, OthersTries, LetsGo
  <2> QED BY <2>2, <2>3
<1>9. ASSUME NEW c \in Caller, Served(c) \/ SendEnds(c) PROVE SessionInv'
  <2>1. /\ pc[c] = "send" /\ holder' = holder /\ UNCHANGED session /\ closing' = closing
        /\ Finish(c, TRUE) \/ Finish(c, FALSE)
    BY <1>9 DEF Served, SendEnds
  <2>2. pc' = [pc EXCEPT ![c] = "idle"] BY <2>1, WaysOut
  <2>3. \A d \in Caller \ {c} : loginTry'[d] = loginTry[d] BY <2>1, OthersTries
  <2> QED BY <2>1, <2>2, <2>3, Aside
<1>10. ASSUME NEW c \in Caller, Forbidden(c) PROVE SessionInv'
  <2>1. pc[c] = "send" /\ holder' = holder /\ UNCHANGED session /\ closing' = closing
    BY <1>10 DEF Forbidden
  <2>2. \E p \in {"idle", "login"} : pc' = [pc EXCEPT ![c] = p]
    BY <1>10, WaysOut DEF Forbidden, Goto
  <2>3. \A d \in Caller \ {c} : loginTry'[d] = loginTry[d]
    BY <1>10, OthersTries DEF Forbidden
  <2> QED BY <2>1, <2>2, <2>3, Aside
<1>11. ASSUME NEW c \in Caller, SendFails(c) PROVE SessionInv'
  <2>1. pc[c] = "send" /\ holder' = holder /\ UNCHANGED session /\ closing' = closing
        /\ NextAttempt(c, TRUE)
    BY <1>11 DEF SendFails
  <2> QED BY <2>1, WaysOut, OthersTries, Aside
<1>12. ASSUME NEW c \in Caller, Wake(c) PROVE SessionInv'
  BY <1>12, Aside DEF Wake, Goto, login
<1>13. ASSUME NEW c \in Caller, Cancel(c) PROVE SessionInv'
  <2>1. /\ pc' = [pc EXCEPT ![c] = "idle"] /\ UNCHANGED session /\ closing' = closing
        /\ holder' = IF holder = c THEN NoCaller ELSE holder
        /\ \A d \in Caller \ {c} : loginTry'[d] = loginTry[d]
    BY <1>13 DEF Cancel, Goto, TypeOK
  <2>2. CASE pc[c] \in {"post", "nap"}
    <3>1. holder' = NoCaller BY <2>1, <2>2 DEF SessionInv, LoginAlone
    <3>2. authenticated' /\ ~closing => jar' # "none" BY <2>1 DEF session, SessionInv
    <3> QED BY <2>1, <2>2, <3>1, <3>2, LetsGo
  <2>3. CASE pc[c] \notin {"post", "nap"}
    <3>1. holder' = holder BY <2>1, <2>3 DEF SessionInv, LoginAlone
    <3> QED BY <2>1, <2>3, <3>1, Aside
  <2> QED BY <2>2, <2>3
<1>14. CASE Close
  BY <1>14 DEF Close, SessionInv, LoginAlone, login
<1>15. CASE Closed \/ Lapse \/ ChangePassword \/ Age
  BY <1>15 DEF Closed, Lapse, ChangePassword, Age, SessionInv, LoginAlone, login, session
<1>16. CASE UNCHANGED vars
  BY <1>16 DEF vars, SessionInv, LoginAlone, login, session
<1> QED BY <1>1, <1>2, <1>3, <1>4, <1>5, <1>6, <1>7, <1>8, <1>9, <1>10, <1>11, <1>12, <1>13,
           <1>14, <1>15, <1>16 DEF Next, Step, Response, Locked

\* The variables have their types; the counters of tries stay within the limits of the loops.
THEOREM TypeCorrect == Spec => []TypeOK
<1>1. Init => TypeOK /\ SessionInv BY InitInv
<1>2. TypeOK /\ SessionInv /\ [Next]_vars => TypeOK' /\ SessionInv' BY NextType, NextInv
<1> QED BY <1>1, <1>2, PTL DEF Spec

\* One coroutine at a time is in the login.
THEOREM LoginIsAlone == Spec => []LoginAlone
<1>1. Init => TypeOK /\ SessionInv BY InitInv
<1>2. TypeOK /\ SessionInv /\ [Next]_vars => TypeOK' /\ SessionInv' BY NextType, NextInv
<1>3. SessionInv => LoginAlone BY DEF SessionInv
<1> QED BY <1>1, <1>2, <1>3, PTL DEF Spec

-----------------------------------------------------------------------------

\* Only a transport that is open sends, with the cookie that it is given.
LEMMA Sent ==
    ASSUME TypeOK, NEW c \in Caller, NEW cookie, Send(c, cookie), pc'[c] = "send"
    PROVE ~closing /\ token'[c] = cookie
BY DEF Send, Finish, Goto, TypeOK

\* A step that leaves the others where they are and takes c anywhere but onto the wire.
LEMMA Unsent ==
    ASSUME TypeOK, NEW c \in Caller, NEW p, p # "send", pc' = [pc EXCEPT ![c] = p]
    PROVE Signed
BY DEF Signed, TypeOK

\* Every request that leaves is signed.
LEMMA StepSigned == TypeOK /\ SessionInv /\ [Next]_vars => Signed
<1> SUFFICES ASSUME TypeOK, SessionInv, [Next]_vars PROVE Signed
  OBVIOUS
<1>1. ASSUME NEW c \in Caller, NEW cookie \in Cookie, Send(c, cookie), cookie # "none",
             authenticated', jar' = cookie, closing' = closing
      PROVE Signed
  <2>1. \A d \in Caller \ {c} : pc'[d] = pc[d] BY <1>1, WaysOut DEF TypeOK
  <2>2. pc'[c] = "send" => ~closing /\ token'[c] = cookie BY <1>1, Sent
  <2> QED BY <1>1, <2>1, <2>2 DEF Signed
<1>2. ASSUME NEW c \in Caller, Check(c) PROVE Signed
  <2>1. CASE authenticated /\ ~closing
    <3>1. Send(c, jar) /\ UNCHANGED <<session, closing>> /\ jar # "none"
      BY <1>2, <2>1 DEF Check, SessionInv
    <3> QED BY <1>1, <2>1, <3>1 DEF session, TypeOK
  <2>2. CASE ~(authenticated /\ ~closing)
    <3>1. pc' = [pc EXCEPT ![c] = "idle"] \/ pc' = [pc EXCEPT ![c] = "login"]
      BY <1>2, <2>2, WaysOut DEF Check, Send, Goto
    <3> QED BY <3>1, Unsent
  <2> QED BY <2>1, <2>2
<1>3. ASSUME NEW c \in Caller, Login(c) PROVE Signed
  <2>1. CASE authenticated /\ ~force[c]
    <3>1. Send(c, jar) /\ UNCHANGED <<session, closing>> BY <1>3, <2>1 DEF Login
    <3>2. CASE closing
      <4>1. pc' = [pc EXCEPT ![c] = "idle"] BY <3>1, <3>2, WaysOut DEF Send
      <4> QED BY <4>1, Unsent
    <3>3. CASE ~closing
      BY <1>1, <2>1, <3>1, <3>3 DEF session, TypeOK, SessionInv
    <3> QED BY <3>2, <3>3
  <2>2. CASE ~(authenticated /\ ~force[c])
    <3>1. pc' = [pc EXCEPT ![c] = "idle"] \/ pc' = [pc EXCEPT ![c] = "post"]
      BY <1>3, <2>2, WaysOut DEF Login, Post, Goto
    <3> QED BY <3>1, Unsent
  <2> QED BY <2>1, <2>2
<1>4. ASSUME NEW c \in Caller, LoggedIn(c) PROVE Signed
  <2>1. CASE force[c]
    <3>1. \E p \in {"idle", "check", "sleep"} : pc' = [pc EXCEPT ![c] = p]
      BY <1>4, <2>1, WaysOut DEF LoggedIn
    <3> QED BY <3>1, Unsent
  <2>2. CASE ~force[c]
    BY <1>1, <1>4, <2>2 DEF LoggedIn, Cookie
  <2> QED BY <2>1, <2>2
<1>5. ASSUME NEW c \in Caller,
             Start(c) \/ PingLocked(c) \/ LoginAgain(c) \/ Refused(c) \/ LoginFails(c) \/ Served(c)
             \/ Forbidden(c) \/ SendFails(c) \/ SendEnds(c) \/ Wake(c) \/ Cancel(c)
      PROVE Signed
  <2>1. \E p \in {"idle", "pinglock", "check", "login", "post", "nap", "sleep"} :
           pc' = [pc EXCEPT ![c] = p]
    <3>1. CASE Start(c) \/ PingLocked(c) \/ Wake(c) \/ Cancel(c)
      BY <3>1 DEF Start, PingLocked, Wake, Cancel, Goto
    <3>2. CASE LoginAgain(c) BY <3>2, WaysOut DEF LoginAgain, Post, Goto
    <3>3. CASE Refused(c) \/ Served(c) \/ SendEnds(c)
      BY <3>3, WaysOut DEF Refused, Served, SendEnds
    <3>4. CASE LoginFails(c) BY <3>4, WaysOut DEF LoginFails, Goto
    <3>5. CASE Forbidden(c) BY <3>5, WaysOut DEF Forbidden, Goto
    <3>6. CASE SendFails(c) BY <3>6, WaysOut DEF SendFails
    <3> QED BY <1>5, <3>1, <3>2, <3>3, <3>4, <3>5, <3>6
  <2> QED BY <2>1, Unsent
<1>6. CASE Close \/ Closed \/ Lapse \/ ChangePassword \/ Age \/ UNCHANGED vars
  BY <1>6 DEF Close, Closed, Lapse, ChangePassword, Age, vars, Signed
<1> QED BY <1>2, <1>3, <1>4, <1>5, <1>6 DEF Next, Step, Response, Locked

\* No request leaves without the cookie of a login that succeeded, and none on a transport
\* that is closing.
THEOREM AlwaysSigned == Spec => SentSigned
<1>1. Init => TypeOK /\ SessionInv BY InitInv
<1>2. TypeOK /\ SessionInv /\ [Next]_vars => TypeOK' /\ SessionInv' BY NextType, NextInv
<1>3. TypeOK /\ SessionInv /\ [Next]_vars => [Signed]_vars BY StepSigned
<1> QED BY <1>1, <1>2, <1>3, PTL DEF Spec, SentSigned

\* A probe that failed leaves its reason.
THEOREM Explained == Spec => []OfflineExplained
<1>1. Init => OfflineExplained BY DEF Init, OfflineExplained
<1>2. OfflineExplained /\ [Next]_vars => OfflineExplained'
  <2> SUFFICES ASSUME OfflineExplained, [Next]_vars PROVE OfflineExplained'
    OBVIOUS
  <2>1. CASE UNCHANGED probe BY <2>1 DEF OfflineExplained, probe
  <2>2. ASSUME NEW ok \in BOOLEAN, Learn(ok) PROVE OfflineExplained'
    BY <2>2 DEF Learn, OfflineExplained
  <2>3. ASSUME NEW c \in Caller, NEW b \in BOOLEAN, NEW cookie,
               Finish(c, b) \/ NextAttempt(c, b) \/ Send(c, cookie) \/ Post(c, b)
        PROVE OfflineExplained'
    BY <2>1, <2>2, <2>3 DEF Finish, NextAttempt, Send, Post
  <2>4. ASSUME NEW c \in Caller, Step(c) \/ Locked(c) PROVE OfflineExplained'
    BY <2>1, <2>3, <2>4 DEF Step, Locked, Response, LoggedIn, Refused, LoginFails, Served,
       Forbidden, SendFails, SendEnds, LoginAgain, Wake, PingLocked, Check, Login
  <2>5. ASSUME NEW c \in Caller, Cancel(c) PROVE OfflineExplained'
    BY <2>5 DEF Cancel, OfflineExplained
  <2>6. CASE Age BY <2>6 DEF Age, OfflineExplained
  <2>7. ASSUME NEW c \in Caller, Start(c) PROVE OfflineExplained'
    BY <2>1, <2>7 DEF Start
  <2>8. CASE Close \/ Closed \/ Lapse \/ ChangePassword \/ UNCHANGED vars
    BY <2>1, <2>8 DEF Close, Closed, Lapse, ChangePassword, vars
  <2> QED BY <2>4, <2>5, <2>6, <2>7, <2>8 DEF Next
<1> QED BY <1>1, <1>2, PTL DEF Spec

-----------------------------------------------------------------------------
(***************************************************************************)
(* The copy of the torrents: the cache is qBittorrent's list at some answer, *)
(* removals are told, a missing state is asked for once.                   *)
(***************************************************************************)

HIDE SessionAssumption
USE SnapshotAssumption
\* The cache and the list a patch will be relative to: whatever rid the client names next,
\* if qBittorrent recalls it, the cache is a copy of the list recalled.
Coherent ==
    /\ rid < counter /\ sent.rid < counter /\ accepted.rid < counter
    /\ rid > 0 /\ rid = sent.rid => Mirror!Agrees(snapshot, sent.list)
    /\ rid > 0 /\ rid = accepted.rid => Mirror!Agrees(snapshot, accepted.list)

\* An answer has the types of one.
Answers == [full : BOOLEAN, torrents : [Hash -> Patch \cup {Absent}], gone : SUBSET Hash]

-----------------------------------------------------------------------------

\* The torrents of a list are hashes.
LEMMA InType == ASSUME NEW m PROVE In(m) \subseteq Hash /\ Missing(m) \subseteq Hash
BY DEF In, Missing

\* A torrent is a patch with all fields, and no patch is Absent.
LEMMA TorrentIsPatch == Torrent \subseteq Patch /\ Absent \notin Torrent /\ Absent \notin Patch
BY DEF Torrent, Patch

\* What qBittorrent answers is well formed.
LEMMA AnswerType ==
    ASSUME SnapshotTypeOK, NEW r \in Nat, NEW bare \in SUBSET Hash
    PROVE Answer(r, bare) \in Answers
<1>1. \A h \in Mentioned(r) : h \in Hash /\ qb[h] \in Torrent
  BY DEF Mentioned, In, SnapshotTypeOK
<1>2. Base(r).list \in [Hash -> Torrent \cup {Absent}]
  BY DEF Base, SnapshotTypeOK
<1>3. ASSUME NEW h \in Mentioned(r) PROVE Difference(Base(r).list[h], qb[h]) \in Patch
  <2>1. h \in Hash /\ qb[h] \in Torrent /\ Base(r).list[h] \in Torrent \cup {Absent}
    BY <1>1, <1>2
  <2> QED BY <2>1 DEF Difference, Torrent, Patch
<1>4. \A h \in Mentioned(r) : qb[h] \in Patch BY <1>1, TorrentIsPatch
<1>5. ASSUME NEW d \in Patch PROVE [d EXCEPT !.state = None] \in Patch
  BY DEF Patch
<1>6. Answer(r, bare).torrents \in [Hash -> Patch \cup {Absent}]
  <2> SUFFICES ASSUME NEW h \in Hash PROVE Answer(r, bare).torrents[h] \in Patch \cup {Absent}
    BY DEF Answer
  <2>1. CASE h \notin Mentioned(r) BY <2>1 DEF Answer
  <2>2. CASE h \in Mentioned(r)
    <3> DEFINE d == IF Recalls(r) THEN Difference(Base(r).list[h], qb[h]) ELSE qb[h]
    <3>1. d \in Patch BY <2>2, <1>3, <1>4
    <3>2. Answer(r, bare).torrents[h] = IF h \in bare THEN [d EXCEPT !.state = None] ELSE d
      BY <2>2 DEF Answer
    <3> HIDE DEF d
    <3> QED BY <3>1, <3>2, <1>5
  <2> QED BY <2>1, <2>2
<1>7. Answer(r, bare).gone \in SUBSET Hash BY InType DEF Answer
<1>8. Answer(r, bare).full \in BOOLEAN BY DEF Answer, Recalls
<1> QED BY <1>6, <1>7, <1>8 DEF Answers, Answer

\* Applying a well-formed answer gives a well-formed cache.
LEMMA AppliedType ==
    ASSUME SnapshotTypeOK, NEW a \in Answers
    PROVE Applied(a) \in [Hash -> Patch \cup {Absent}]
<1> SUFFICES ASSUME NEW h \in Hash PROVE Applied(a)[h] \in Patch \cup {Absent}
  BY DEF Applied
<1>1. snapshot[h] \in Patch \cup {Absent} /\ a.torrents[h] \in Patch \cup {Absent}
  BY DEF SnapshotTypeOK, Answers
<1>2. Merged(snapshot[h], a.torrents[h]) \in Patch \cup {Absent}
  BY <1>1 DEF Merged, Patch
<1> QED BY <1>1, <1>2 DEF Applied

\* The heart of the matter: an answer to a rid whose list the cache agrees with, if it is
\* recalled at all, brings the cache to the present list.
LEMMA AppliedAgrees ==
    ASSUME SnapshotTypeOK, NEW r \in Nat, NEW bare \in SUBSET Hash, bare \subseteq FirstTime(r),
           Recalls(r) => Mirror!Agrees(snapshot, Base(r).list)
    PROVE Mirror!Agrees(Applied(Answer(r, bare)), qb)
<1> DEFINE a == Answer(r, bare)
<1> SUFFICES ASSUME NEW h \in Hash
             PROVE /\ Applied(a)[h] = Absent <=> qb[h] = Absent
                   /\ Applied(a)[h] # Absent =>
                        /\ Applied(a)[h].rest = qb[h].rest
                        /\ Applied(a)[h].state \in {qb[h].state, None}
  BY DEF Mirror!Agrees
<1>1. /\ qb[h] \in Torrent \cup {Absent}
      /\ snapshot[h] \in Patch \cup {Absent}
      /\ Base(r).list[h] \in Torrent \cup {Absent}
  BY DEF SnapshotTypeOK, Base
<1>2. a.full = ~Recalls(r) /\ a.gone = IF Recalls(r) THEN In(Base(r).list) \ In(qb) ELSE {}
  BY DEF Answer
<1>3. CASE ~Recalls(r)
  <2>1. Applied(a)[h] = a.torrents[h] BY <1>2, <1>3 DEF Applied
  <2>2. h \in Mentioned(r) <=> qb[h] # Absent BY <1>3 DEF Mentioned, In
  <2>3. CASE qb[h] = Absent BY <2>1, <2>2, <2>3 DEF Answer
  <2>4. CASE qb[h] # Absent
    <3>1. qb[h] \in Torrent BY <1>1, <2>4
    <3>2. a.torrents[h] = IF h \in bare THEN [qb[h] EXCEPT !.state = None] ELSE qb[h]
      BY <2>2, <2>4, <1>3 DEF Answer
    <3>3. [qb[h] EXCEPT !.state = None] \in Patch /\ qb[h] \in Patch
      BY <3>1 DEF Torrent, Patch
    <3>4. [qb[h] EXCEPT !.state = None].rest = qb[h].rest
          /\ [qb[h] EXCEPT !.state = None].state = None
      BY <3>1 DEF Torrent
    <3> QED BY <2>1, <2>4, <3>2, <3>3, <3>4, TorrentIsPatch
  <2> QED BY <2>3, <2>4
<1>4. CASE Recalls(r)
  <2> DEFINE old == Base(r).list[h]
  <2>0. /\ snapshot[h] = Absent <=> old = Absent
        /\ snapshot[h] # Absent => /\ snapshot[h].rest = old.rest
                                   /\ snapshot[h].state \in {old.state, None}
    BY <1>4 DEF Mirror!Agrees
  <2>1. h \in a.gone <=> (old # Absent /\ qb[h] = Absent)
    BY <1>2, <1>4 DEF In
  <2>2. Applied(a)[h] = IF h \in a.gone THEN Absent ELSE Merged(snapshot[h], a.torrents[h])
    BY <1>2, <1>4 DEF Applied
  <2>3. h \in Mentioned(r) <=> (qb[h] # Absent /\ old # qb[h])
    BY <1>4 DEF Mentioned, In
  <2>4. h \in FirstTime(r) <=> (qb[h] # Absent /\ old = Absent)
    BY <1>4, <2>3 DEF FirstTime
  <2>5. CASE qb[h] = Absent
    <3>1. a.torrents[h] = Absent BY <2>3, <2>5 DEF Answer
    <3> QED BY <3>1, <2>0, <2>1, <2>2, <2>5 DEF Merged
  <2>6. CASE qb[h] # Absent /\ old = qb[h]
    <3>1. a.torrents[h] = Absent BY <2>3, <2>6 DEF Answer
    <3> QED BY <3>1, <2>0, <2>1, <2>2, <2>6 DEF Merged
  <2>7. CASE qb[h] # Absent /\ old = Absent
    <3>1. qb[h] \in Torrent BY <1>1, <2>7
    <3>2. a.torrents[h] = IF h \in bare THEN [qb[h] EXCEPT !.state = None] ELSE qb[h]
      BY <2>3, <2>7, <1>4 DEF Answer, Difference
    <3>3. [qb[h] EXCEPT !.state = None] \in Patch /\ qb[h] \in Patch
      BY <3>1 DEF Torrent, Patch
    <3>4. [qb[h] EXCEPT !.state = None].rest = qb[h].rest
          /\ [qb[h] EXCEPT !.state = None].state = None
      BY <3>1 DEF Torrent
    <3>5. Applied(a)[h] = a.torrents[h]
      BY <2>0, <2>1, <2>2, <2>7, <3>2, <3>3, TorrentIsPatch DEF Merged
    <3> QED BY <2>7, <3>2, <3>3, <3>4, <3>5, TorrentIsPatch
  <2>8. CASE qb[h] # Absent /\ old # Absent /\ old # qb[h]
    <3>1. qb[h] \in Torrent /\ old \in Torrent /\ snapshot[h] \in Patch
      BY <1>1, <2>0, <2>8
    <3>2. h \notin bare BY <2>4, <2>8
    <3>3. a.torrents[h] = Difference(old, qb[h])
      BY <2>3, <2>8, <1>4, <3>2 DEF Answer
    <3> DEFINE d == Difference(old, qb[h])
    <3>4. /\ d.state = IF qb[h].state = old.state THEN None ELSE qb[h].state
          /\ d.rest = IF qb[h].rest = old.rest THEN None ELSE qb[h].rest
          /\ d \in Patch
      BY <2>8, <3>1 DEF Difference, Torrent, Patch
    <3>5. Applied(a)[h] = [state |-> IF d.state = None THEN snapshot[h].state ELSE d.state,
                           rest |-> IF d.rest = None THEN snapshot[h].rest ELSE d.rest]
      BY <2>0, <2>1, <2>2, <2>8, <3>3, <3>4, TorrentIsPatch DEF Merged
    <3>6. qb[h].state \in Value /\ qb[h].rest \in Value BY <3>1 DEF Torrent
    <3>7. snapshot[h].rest = old.rest /\ snapshot[h].state \in {old.state, None}
      BY <2>0, <2>8
    <3> HIDE DEF d
    <3>8. Applied(a)[h].rest = qb[h].rest BY <3>4, <3>5, <3>6, <3>7
    <3>9. Applied(a)[h].state \in {qb[h].state, None} BY <3>4, <3>5, <3>6, <3>7
    <3>10. Applied(a)[h] \in Patch
      BY <3>5, <3>4, <3>1 DEF Patch
    <3> QED BY <2>8, <3>8, <3>9, <3>10
  <2> QED BY <2>5, <2>6, <2>7, <2>8
<1> QED BY <1>3, <1>4

-----------------------------------------------------------------------------

\* The initial state is well typed.
LEMMA InitType == SnapshotInit => SnapshotTypeOK
BY TorrentIsPatch DEF SnapshotInit, SnapshotTypeOK, Nothing, Never

\* What qBittorrent remembers is well typed.
LEMMA AnsweredType ==
    ASSUME SnapshotTypeOK, NEW r \in Nat, Answered(r)
    PROVE /\ qb' \in [Hash -> Torrent \cup {Absent}]
          /\ {sent', accepted'} \subseteq [rid : Nat, list : [Hash -> Torrent \cup {Absent}]]
          /\ counter' \in Nat \ {0}
BY DEF SnapshotTypeOK, Answered, Base, Never, Nothing

\* The sets that poll() keeps stay sets of hashes.
LEMMA ReturnType ==
    ASSUME SnapshotTypeOK, NEW m, NEW gone \in SUBSET Hash, Return(m, gone)
    PROVE phase' = "idle" /\ removed' \in SUBSET Hash /\ believed' \in SUBSET Hash
BY InType DEF SnapshotTypeOK, Return

\* Every step preserves the types.
LEMMA SnapshotNextType == SnapshotTypeOK /\ [SnapshotNext]_snapshotVars => SnapshotTypeOK'
<1> SUFFICES ASSUME SnapshotTypeOK, [SnapshotNext]_snapshotVars PROVE SnapshotTypeOK'
  OBVIOUS
<1>1. ASSUME NEW h \in Hash, Change(h) PROVE SnapshotTypeOK'
  BY <1>1 DEF Change, SnapshotTypeOK, cache, history
<1>2. CASE Forget
  BY <1>2 DEF Forget, SnapshotTypeOK, cache, history, Never, Nothing
<1>3. CASE Poll
  BY <1>3 DEF Poll, SnapshotTypeOK, cache, history, server
<1>4. ASSUME NEW bare \in SUBSET Hash, FirstAnswer(bare) PROVE SnapshotTypeOK'
  <2> DEFINE a == Answer(rid, bare)
             m == Applied(a)
  <2>0. rid \in Nat BY DEF SnapshotTypeOK
  <2>1. a \in Answers BY AnswerType, <2>0
  <2>2. m \in [Hash -> Patch \cup {Absent}] BY <2>1, AppliedType
  <2>3. a.gone \in SUBSET Hash BY <2>1 DEF Answers
  <2>4. Answered(rid) /\ rid' = counter /\ snapshot' = m BY <1>4 DEF FirstAnswer
  <2>5. asked' = Reset(m, asked) /\ unanswered' = Reset(m, unanswered) /\ excused' \in SUBSET Hash
    BY <1>4, InType DEF FirstAnswer, Dropped, SnapshotTypeOK
  <2>6. {asked', unanswered'} \subseteq [Hash -> Nat] BY <2>5 DEF Reset, SnapshotTypeOK
  <2>7. /\ phase' \in {"idle", "second"} /\ removed' \in SUBSET Hash
        /\ believed' \in SUBSET Hash /\ pending' \in SUBSET Hash
    <3>1. CASE Missing(m) \subseteq pending \ a.gone
      <4>1. Return(m, a.gone) /\ pending' = (pending \ a.gone) \cap Missing(m)
        BY <1>4, <3>1 DEF FirstAnswer
      <4> HIDE DEF m, a
      <4> QED BY <4>1, <2>3, ReturnType, InType
    <3>2. CASE ~(Missing(m) \subseteq pending \ a.gone)
      BY <1>4, <3>2, <2>3 DEF FirstAnswer, SnapshotTypeOK
    <3> QED BY <3>1, <3>2
  <2>8. changes' \in Nat /\ polls' \in Nat BY <1>4 DEF FirstAnswer, Bare, SnapshotTypeOK
  <2> HIDE DEF m, a
  <2>9. counter \in Nat BY DEF SnapshotTypeOK
  <2> QED BY <2>0, <2>2, <2>4, <2>5, <2>6, <2>7, <2>8, <2>9, AnsweredType DEF SnapshotTypeOK
<1>5. ASSUME NEW bare \in SUBSET Hash, SecondAnswer(bare) PROVE SnapshotTypeOK'
  <2> DEFINE a == Answer(0, bare)
             m == Applied(a)
  <2>1. a \in Answers BY AnswerType
  <2>2. m \in [Hash -> Patch \cup {Absent}] BY <2>1, AppliedType
  <2>3. a.gone \in SUBSET Hash BY <2>1 DEF Answers
  <2>4. Answered(0) /\ rid' = counter /\ snapshot' = m BY <1>5 DEF SecondAnswer
  <2>5. /\ asked' = Reset(m, Counted(asked)) /\ unanswered' = Reset(m, unanswered)
        /\ excused' \in SUBSET Hash /\ pending' = StillPending(m)
    BY <1>5, InType DEF SecondAnswer, Dropped, SnapshotTypeOK
  <2>6. {asked', unanswered'} \subseteq [Hash -> Nat]
    BY <2>5 DEF Counted, Reset, SnapshotTypeOK
  <2>7. Return(m, Told(removed, a.gone)) BY <1>5 DEF SecondAnswer
  <2>8. changes' \in Nat /\ polls' \in Nat BY <1>5 DEF SecondAnswer, Bare, SnapshotTypeOK
  <2> HIDE DEF m, a
  <2>9. Told(removed, a.gone) \in SUBSET Hash BY <2>3 DEF Told, SnapshotTypeOK
  <2>10. phase' = "idle" /\ removed' \in SUBSET Hash /\ believed' \in SUBSET Hash
    BY <2>7, <2>9, ReturnType
  <2>11. pending' \in SUBSET Hash BY <2>5, InType DEF StillPending
  <2>12. counter \in Nat BY DEF SnapshotTypeOK
  <2> QED BY <2>2, <2>4, <2>5, <2>6, <2>8, <2>10, <2>11, <2>12, AnsweredType DEF SnapshotTypeOK
<1>6. CASE EmptyAnswer
  <2>1. Return(snapshot, removed) BY <1>6 DEF EmptyAnswer
  <2>2. phase' = "idle" /\ removed' \in SUBSET Hash /\ believed' \in SUBSET Hash
    BY <2>1, ReturnType DEF SnapshotTypeOK
  <2>3. {asked', unanswered'} \subseteq [Hash -> Nat] /\ pending' \in SUBSET Hash
    BY <1>6, InType DEF EmptyAnswer, SnapshotTypeOK, Counted, StillPending
  <2> QED BY <1>6, <2>2, <2>3 DEF EmptyAnswer, SnapshotTypeOK, server
<1>7. CASE FetchFails
  <2> DEFINE r == IF phase = "first" THEN rid ELSE 0
  <2>1. r \in Nat BY DEF SnapshotTypeOK
  <2>2. UNCHANGED server \/ Answered(r) BY <1>7 DEF FetchFails
  <2>3. /\ qb' \in [Hash -> Torrent \cup {Absent}]
        /\ {sent', accepted'} \subseteq [rid : Nat, list : [Hash -> Torrent \cup {Absent}]]
        /\ counter' \in Nat \ {0}
    <3>1. CASE UNCHANGED server BY <3>1 DEF server, SnapshotTypeOK
    <3>2. CASE Answered(r) BY <3>2, <2>1, AnsweredType
    <3> QED BY <2>2, <3>1, <3>2
  <2>4. {asked', unanswered'} \subseteq [Hash -> Nat]
    BY <1>7 DEF FetchFails, SnapshotTypeOK, Counted
  <2> QED BY <1>7, <2>3, <2>4 DEF FetchFails, SnapshotTypeOK, cache
<1>8. CASE UNCHANGED snapshotVars
  BY <1>8 DEF snapshotVars, server, cache, history, SnapshotTypeOK
<1> QED BY <1>1, <1>2, <1>3, <1>4, <1>5, <1>6, <1>7, <1>8 DEF SnapshotNext

\* The variables have their types (the dictionaries and sets of QBitSyncState hold hashes and
\* fields that qBittorrent has sent).
THEOREM SnapshotTypeCorrect == SnapshotSpec => []SnapshotTypeOK
<1>1. SnapshotInit => SnapshotTypeOK BY InitType
<1>2. SnapshotTypeOK /\ [SnapshotNext]_snapshotVars => SnapshotTypeOK' BY SnapshotNextType
<1> QED BY <1>1, <1>2, PTL DEF SnapshotSpec

-----------------------------------------------------------------------------

\* A list is a copy of itself once the answer has been applied, and what is only recalled is
\* not renamed.
LEMMA CoherentInit == SnapshotInit => Coherent
BY DEF SnapshotInit, Coherent, Never

\* An applied answer: the cache follows.
LEMMA CoherentApplied ==
    ASSUME SnapshotTypeOK, Coherent, NEW r \in {0, rid}, NEW bare \in SUBSET Hash,
           bare \subseteq FirstTime(r), Answered(r), rid' = counter,
           snapshot' = Applied(Answer(r, bare))
    PROVE Coherent' /\ Mirror!Agrees(snapshot', qb)
<1>0. r \in Nat /\ rid \in Nat /\ counter \in Nat \ {0} /\ sent.rid \in Nat /\ accepted.rid \in Nat
  BY DEF SnapshotTypeOK
<1>1. Recalls(r) => Mirror!Agrees(snapshot, Base(r).list)
  BY <1>0 DEF Recalls, Base, Coherent
<1>2. Mirror!Agrees(snapshot', qb) BY <1>0, <1>1, AppliedAgrees
<1>3. sent'.list = qb /\ sent'.rid = counter /\ counter' = counter + 1
  BY DEF Answered
<1>4. accepted'.rid < counter
  BY <1>0 DEF Answered, Coherent, Base, Never
<1>5. rid' < counter' /\ sent'.rid < counter' /\ accepted'.rid < counter' /\ rid' # accepted'.rid
  <2>1. accepted'.rid \in Nat BY <1>0 DEF Answered, Base, Never
  <2> QED BY <1>0, <1>3, <1>4, <2>1
<1>6. Mirror!Agrees(snapshot', sent'.list) BY <1>2, <1>3
<1> QED BY <1>2, <1>5, <1>6 DEF Coherent, Mirror!Agrees

\* An answer that got lost: the cache still agrees with what is recalled under its rid.
LEMMA CoherentLost ==
    ASSUME SnapshotTypeOK, Coherent, NEW r \in {0, rid}, Answered(r), UNCHANGED cache
    PROVE Coherent'
<1>0. r \in Nat /\ rid \in Nat /\ counter \in Nat \ {0} /\ sent.rid \in Nat /\ accepted.rid \in Nat
  BY DEF SnapshotTypeOK
<1>1. sent'.rid = counter /\ counter' = counter + 1 /\ rid' = rid /\ snapshot' = snapshot
  BY DEF Answered, cache
<1>2. accepted' = IF Recalls(r) THEN Base(r) ELSE Never BY DEF Answered
<1>3. accepted'.rid < counter BY <1>0, <1>2 DEF Coherent, Base, Never
<1>4. rid > 0 /\ rid = accepted'.rid => Mirror!Agrees(snapshot, accepted'.list)
  BY <1>0, <1>2 DEF Coherent, Base, Never, Recalls
<1>5. rid' < counter' /\ sent'.rid < counter' /\ accepted'.rid < counter' /\ rid' # sent'.rid
  <2>1. accepted'.rid \in Nat BY <1>0, <1>2 DEF Base, Never
  <2>2. rid < counter BY DEF Coherent
  <2> QED BY <1>0, <1>1, <1>3, <2>1, <2>2
<1> QED BY <1>1, <1>4, <1>5 DEF Coherent, Mirror!Agrees

\* Every step keeps cache and recollection coherent.
LEMMA CoherentNext == SnapshotTypeOK /\ Coherent /\ [SnapshotNext]_snapshotVars => Coherent'
<1> SUFFICES ASSUME SnapshotTypeOK, Coherent, [SnapshotNext]_snapshotVars PROVE Coherent'
  OBVIOUS
<1>1. ASSUME NEW h \in Hash, Change(h) PROVE Coherent'
  BY <1>1 DEF Change, Coherent, cache
<1>2. CASE Forget
  BY <1>2 DEF Forget, Coherent, cache, Never, SnapshotTypeOK
<1>3. CASE Poll
  BY <1>3 DEF Poll, Coherent, cache, server
<1>4. ASSUME NEW bare \in SUBSET Hash, FirstAnswer(bare) PROVE Coherent'
  BY <1>4, CoherentApplied DEF FirstAnswer, Bare
<1>5. ASSUME NEW bare \in SUBSET Hash, SecondAnswer(bare) PROVE Coherent'
  BY <1>5, CoherentApplied DEF SecondAnswer, Bare
<1>6. CASE EmptyAnswer
  BY <1>6 DEF EmptyAnswer, Coherent, server
<1>7. CASE FetchFails
  <2>1. UNCHANGED cache BY <1>7 DEF FetchFails
  <2>2. CASE UNCHANGED server BY <2>1, <2>2 DEF Coherent, server, cache
  <2>3. CASE Answered(IF phase = "first" THEN rid ELSE 0)
    BY <2>1, <2>3, CoherentLost
  <2> QED BY <1>7, <2>2, <2>3 DEF FetchFails
<1>8. CASE UNCHANGED snapshotVars
  BY <1>8 DEF snapshotVars, server, cache, Coherent
<1> QED BY <1>1, <1>2, <1>3, <1>4, <1>5, <1>6, <1>7, <1>8 DEF SnapshotNext

\* Every step of the client is a step of the mirror, or none.
LEMMA StepMirrors ==
    SnapshotTypeOK /\ SnapshotTypeOK' /\ Coherent /\ [SnapshotNext]_snapshotVars => [Mirror!MirrorNext]_<<qb, snapshot>>
<1> SUFFICES ASSUME SnapshotTypeOK, SnapshotTypeOK', Coherent, [SnapshotNext]_snapshotVars
             PROVE [Mirror!MirrorNext]_<<qb, snapshot>>
  OBVIOUS
<1>1. ASSUME NEW h \in Hash, Change(h) PROVE Mirror!Drift
  <2>1. qb' \in [Hash -> Torrent \cup {Absent}] BY DEF SnapshotTypeOK
  <2> QED BY <1>1, <2>1 DEF Change, cache, Mirror!Drift, Mirror!Torrent, Torrent
<1>2. ASSUME NEW r \in {0, rid}, NEW bare \in SUBSET Hash, bare \subseteq FirstTime(r),
             Answered(r), rid' = counter, snapshot' = Applied(Answer(r, bare))
      PROVE Mirror!Refresh
  <2>1. Mirror!Agrees(snapshot', qb) BY <1>2, CoherentApplied
  <2>2. snapshot' \in [Hash -> Mirror!Entry \cup {Absent}]
    <3>1. snapshot' \in [Hash -> Patch \cup {Absent}] BY DEF SnapshotTypeOK
    <3>2. ASSUME NEW h \in Hash PROVE snapshot'[h] \in Mirror!Entry \cup {Absent}
      <4>1. snapshot'[h] \in Patch \cup {Absent} /\ qb[h] \in Torrent \cup {Absent}
        BY <3>1 DEF SnapshotTypeOK
      <4>2. /\ snapshot'[h] = Absent <=> qb[h] = Absent
            /\ snapshot'[h] # Absent => snapshot'[h].rest = qb[h].rest
        BY <2>1 DEF Mirror!Agrees
      <4> QED BY <4>1, <4>2 DEF Patch, Torrent, Mirror!Entry
    <3> QED BY <3>1, <3>2
  <2> QED BY <1>2, <2>1, <2>2 DEF Answered, Mirror!Refresh
<1>3. ASSUME NEW bare \in SUBSET Hash, FirstAnswer(bare) PROVE Mirror!Refresh
  BY <1>3, <1>2 DEF FirstAnswer, Bare
<1>4. ASSUME NEW bare \in SUBSET Hash, SecondAnswer(bare) PROVE Mirror!Refresh
  BY <1>4, <1>2 DEF SecondAnswer, Bare
<1>5. CASE Forget \/ Poll \/ EmptyAnswer \/ FetchFails \/ UNCHANGED snapshotVars
  BY <1>5 DEF Forget, Poll, EmptyAnswer, FetchFails, Answered, snapshotVars, server, cache
<1> QED BY <1>1, <1>3, <1>4, <1>5 DEF SnapshotNext, Mirror!MirrorNext

\* poll() returns qBittorrent's own list: the cache implements the mirror.
THEOREM Implements == SnapshotSpec => ImplementsMirror
<1>1. SnapshotInit => Mirror!MirrorInit
  BY DEF SnapshotInit, Mirror!MirrorInit, Mirror!Nothing, Nothing, Torrent, Mirror!Torrent
<1>2. SnapshotInit => SnapshotTypeOK /\ Coherent BY InitType, CoherentInit
<1>3. SnapshotTypeOK /\ Coherent /\ [SnapshotNext]_snapshotVars => SnapshotTypeOK' /\ Coherent'
  BY SnapshotNextType, CoherentNext
<1>4. SnapshotTypeOK /\ SnapshotTypeOK' /\ Coherent /\ [SnapshotNext]_snapshotVars => [Mirror!MirrorNext]_<<qb, snapshot>>
  BY StepMirrors
<1> QED BY <1>1, <1>2, <1>3, <1>4, PTL DEF SnapshotSpec, ImplementsMirror, Mirror!MirrorSpec

-----------------------------------------------------------------------------

\* In the middle of a poll, what left the snapshot may still be waiting to be returned.
ToldInv ==
    /\ believed \subseteq In(snapshot) \cup excused \cup removed
    /\ phase # "second" => removed = {}

\* Every step keeps the account of what the caller believes.
LEMMA ToldNext == SnapshotTypeOK /\ ToldInv /\ [SnapshotNext]_snapshotVars => ToldInv'
<1> SUFFICES ASSUME SnapshotTypeOK, ToldInv, [SnapshotNext]_snapshotVars PROVE ToldInv'
  OBVIOUS
<1>1. ASSUME NEW h \in Hash, Change(h) PROVE ToldInv'
  BY <1>1 DEF Change, ToldInv, cache, history, In
<1>2. CASE Forget
  BY <1>2 DEF Forget, ToldInv, cache, history, In
<1>3. CASE Poll
  BY <1>3 DEF Poll, ToldInv, cache, history, In
<1>4. ASSUME NEW bare \in SUBSET Hash, FirstAnswer(bare) PROVE ToldInv'
  <2> DEFINE a == Answer(rid, bare)
             m == Applied(a)
  <2>1. phase = "first" /\ snapshot' = m /\ excused' = (excused \cup Dropped(a)) \ In(m)
    BY <1>4 DEF FirstAnswer
  <2>2. removed = {} BY <2>1 DEF ToldInv
  <2>3. In(snapshot)' = In(m) BY <2>1 DEF In
  <2>4. Dropped(a) = In(snapshot) \ (In(m) \cup a.gone) BY DEF Dropped
  <2>5. CASE Missing(m) \subseteq pending \ a.gone
    <3>1. Return(m, a.gone) BY <1>4, <2>5 DEF FirstAnswer
    <3> HIDE DEF m, a
    <3> QED BY <2>1, <2>2, <2>3, <2>4, <3>1 DEF ToldInv, Return
  <2>6. CASE ~(Missing(m) \subseteq pending \ a.gone)
    <3>1. phase' = "second" /\ removed' = a.gone /\ believed' = believed
      BY <1>4, <2>6 DEF FirstAnswer
    <3> HIDE DEF m, a
    <3> QED BY <2>1, <2>2, <2>3, <2>4, <3>1 DEF ToldInv
  <2> QED BY <2>5, <2>6
<1>5. ASSUME NEW bare \in SUBSET Hash, SecondAnswer(bare) PROVE ToldInv'
  <2> DEFINE a == Answer(0, bare)
             m == Applied(a)
  <2>1. snapshot' = m /\ excused' = (excused \cup Dropped(a)) \ In(m)
        /\ Return(m, Told(removed, a.gone))
    BY <1>5 DEF SecondAnswer
  <2>2. In(snapshot)' = In(m) BY <2>1 DEF In
  <2>3. Dropped(a) = In(snapshot) \ (In(m) \cup a.gone) BY DEF Dropped
  <2> HIDE DEF m, a
  <2> QED BY <2>1, <2>2, <2>3 DEF ToldInv, Return, Told
<1>6. CASE EmptyAnswer
  <2>1. snapshot' = snapshot /\ excused' = excused /\ Return(snapshot, removed)
    BY <1>6 DEF EmptyAnswer
  <2>2. In(snapshot)' = In(snapshot) BY <2>1 DEF In
  <2> QED BY <2>1, <2>2 DEF ToldInv, Return
<1>7. CASE FetchFails
  <2>1. /\ snapshot' = snapshot /\ excused' = excused \cup removed
        /\ believed' = believed /\ removed' = {}
    BY <1>7 DEF FetchFails, cache
  <2>2. In(snapshot)' = In(snapshot) BY <2>1 DEF In
  <2> QED BY <2>1, <2>2 DEF ToldInv
<1>8. CASE UNCHANGED snapshotVars
  BY <1>8 DEF snapshotVars, server, cache, history, ToldInv, In
<1> QED BY <1>1, <1>2, <1>3, <1>4, <1>5, <1>6, <1>7, <1>8 DEF SnapshotNext

\* Removals are returned, but for those that a full answer hides or an aborted poll swallows.
THEOREM RemovalsAreTold == SnapshotSpec => []RemovalsTold
<1>1. SnapshotInit => SnapshotTypeOK /\ ToldInv BY InitType DEF SnapshotInit, ToldInv
<1>2. SnapshotTypeOK /\ ToldInv /\ [SnapshotNext]_snapshotVars => SnapshotTypeOK' /\ ToldInv' BY SnapshotNextType, ToldNext
<1>3. ToldInv => RemovalsTold BY DEF ToldInv, RemovalsTold
<1> QED BY <1>1, <1>2, <1>3, PTL DEF SnapshotSpec

\* What was asked for and answered is remembered.
AskedInv ==
    \A h \in Hash :
        \/ asked[h] = unanswered[h]
        \/ asked[h] = unanswered[h] + 1 /\ h \in pending \cap Missing(snapshot)

\* Every step keeps that memory.
LEMMA AskedNext == SnapshotTypeOK /\ AskedInv /\ [SnapshotNext]_snapshotVars => AskedInv'
<1> SUFFICES ASSUME SnapshotTypeOK, AskedInv, [SnapshotNext]_snapshotVars PROVE AskedInv'
  OBVIOUS
<1>1. CASE UNCHANGED <<asked, unanswered, pending, snapshot>>
  BY <1>1 DEF AskedInv, Missing, In
<1>2. ASSUME NEW bare \in SUBSET Hash, FirstAnswer(bare) PROVE AskedInv'
  <2> DEFINE a == Answer(rid, bare)
             m == Applied(a)
  <2>1. Missing(m) \cap a.gone = {} BY DEF Missing, In, Applied
  <2>2. asked' = Reset(m, asked) /\ unanswered' = Reset(m, unanswered) /\ snapshot' = m
    BY <1>2 DEF FirstAnswer
  <2>3. \/ pending' = (pending \ a.gone) \cap Missing(m)
        \/ pending' = pending \ a.gone
    BY <1>2 DEF FirstAnswer
  <2>4. Missing(snapshot)' = Missing(m) BY <2>2 DEF Missing, In
  <2> HIDE DEF m, a
  <2> QED BY <2>1, <2>2, <2>3, <2>4 DEF AskedInv, Reset
<1>3. ASSUME NEW m, asked' = Reset(m, Counted(asked)), unanswered' = Reset(m, unanswered),
             pending' = StillPending(m), snapshot' = m
      PROVE AskedInv'
  <2>1. Missing(snapshot)' = Missing(m) BY <1>3 DEF Missing, In
  <2> QED BY <1>3, <2>1 DEF AskedInv, Reset, Counted, StillPending, SnapshotTypeOK
<1>4. ASSUME NEW bare \in SUBSET Hash, SecondAnswer(bare) PROVE AskedInv'
  BY <1>4, <1>3 DEF SecondAnswer
<1>5. CASE EmptyAnswer
  <2>1. Missing(snapshot)' = Missing(snapshot) BY <1>5 DEF EmptyAnswer, Missing, In
  <2> QED BY <1>5, <1>1, <2>1
      DEF EmptyAnswer, AskedInv, Counted, StillPending, SnapshotTypeOK
<1>6. ASSUME NEW h \in Hash, Change(h) PROVE AskedInv'
  BY <1>6, <1>1 DEF Change, cache, history
<1>7. CASE FetchFails
  <2>1. Missing(snapshot)' = Missing(snapshot) /\ pending' = pending
    BY <1>7 DEF FetchFails, Missing, In, cache
  <2> QED BY <1>7, <2>1 DEF FetchFails, AskedInv, Counted, SnapshotTypeOK
<1>8. CASE Forget \/ Poll \/ UNCHANGED snapshotVars
  BY <1>8, <1>1 DEF Forget, Poll, snapshotVars, cache, history
<1> QED BY <1>2, <1>4, <1>5, <1>6, <1>7, <1>8 DEF SnapshotNext

\* A torrent without a state costs one full fetch that is answered, however long it stays
\* without one; only fetches that raise are repeated.
THEOREM StormFree == SnapshotSpec => []NoStorm
<1>1. SnapshotInit => SnapshotTypeOK /\ AskedInv BY InitType DEF SnapshotInit, AskedInv
<1>2. SnapshotTypeOK /\ AskedInv /\ [SnapshotNext]_snapshotVars => SnapshotTypeOK' /\ AskedInv' BY SnapshotNextType, AskedNext
<1>3. SnapshotTypeOK /\ AskedInv => NoStorm
  BY DEF AskedInv, NoStorm, SnapshotTypeOK
<1> QED BY <1>1, <1>2, <1>3, PTL DEF SnapshotSpec
=============================================================================
