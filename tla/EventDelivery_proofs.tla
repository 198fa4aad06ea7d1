------------------------ MODULE EventDelivery_proofs ------------------------
(***************************************************************************)
(* What holds in EventDelivery for every number of events, values,          *)
(* requests and locks, every size of the table, and every number of losses, *)
(* faults and restarts.                                                    *)
(*                                                                         *)
(* DeliveryInv, the inductive invariant, has four parts besides the types:  *)
(*   - LocksFit: who holds and who waits for which lock; all who have one   *)
(*     lock work on one event;                                             *)
(*   - Serial: as long as no handler of an event was cut off, the one who   *)
(*     works on it has the lock in the table, and who waits for a lock that *)
(*     is free will find the record;                                       *)
(*   - Once: what has been created for an event is recorded, or about to be; *)
(*   - Truthful and Kept: what answers and records say, of which value, and *)
(*     what the agent still has.                                           *)
(* With it every step of the delivery is a step of EventLedger.            *)
(***************************************************************************)
EXTENDS EventDelivery, TLAPS

\* Only who works on an event or waits to has a lock, and who works holds it.
Unlocked == \A r \in Slot : phase[r] \notin Working \cup {"waiting"} => lock[r] = NoLock
Assigned == \A r \in Slot : phase[r] \in Working \cup {"waiting"} => lock[r] \in Lock
Holding  == \A r \in Slot : phase[r] \in Working => holder[lock[r]] = r
Held     == \A l \in Lock : holder[l] # NoSlot => lock[holder[l]] = l /\ phase[holder[l]] \in Working

\* A lock belongs to one event, in the table and among those who have it.
Tabled   == \A e \in Event, r \in Slot : lockOf[e] # NoLock /\ lock[r] = lockOf[e] => ev[r] = e
OwnLock  == \A e, f \in Event : lockOf[e] # NoLock /\ lockOf[e] = lockOf[f] => e = f
OneEvent == \A r, s \in Slot : lock[r] # NoLock /\ lock[r] = lock[s] => ev[r] = ev[s]

LocksFit == Unlocked /\ Assigned /\ Holding /\ Held /\ Tabled /\ OwnLock /\ OneEvent

\* While no handler of its event was cut off, who works on an event has the lock of the table,
\* and who waits for a lock that is free will find the record.
TableHolds  == \A r \in Slot : phase[r] \in Working /\ ev[r] \notin cut => lockOf[ev[r]] = lock[r]
FindsRecord == \A r \in Slot : phase[r] = "waiting" /\ ev[r] \notin cut =>
                  record[ev[r]] # NoRecord \/ holder[lock[r]] # NoSlot

Serial == TableHolds /\ FindsRecord

\* What was created for an event is recorded, or will be by the one who works on it.
Fresh      == \A r \in Slot : phase[r] \in {"lookup", "insert"} /\ ev[r] \notin cut => made[ev[r]] = 0
Unrecorded == \A r \in Slot : phase[r] \in Working \ {"emit"} /\ ev[r] \notin cut =>
                 record[ev[r]] = NoRecord
Recorded   == \A r \in Slot : phase[r] = "emit" => record[ev[r]] # NoRecord
Accounted  == \A e \in Event : made[e] = 0 \/ e \in cut \/ record[e] # NoRecord
                 \/ \E r \in Slot : phase[r] \in {"classify", "announce"} /\ ev[r] = e

Once == EffectOnce /\ Fresh /\ Unrecorded /\ Recorded /\ Accounted

\* What is said to be there was there.
Backed     == \A r \in Slot : phase[r] \in {"classify", "announce"} => <<ev[r], body[r]>> \in taken
TrueReply  == \A r \in Slot : phase[r] \in {"emit", "answered"} /\ reply[r] # "rejected" =>
                 <<ev[r], body[r]>> \in taken
OfValue    == \A e \in Event : record[e] # NoRecord => record[e].value \in Value
TrueRecord == \A e \in Event : record[e] # NoRecord /\ record[e].status # "rejected" =>
                 <<e, record[e].value>> \in taken

Truthful == Backed /\ TrueReply /\ OfValue /\ TrueRecord

\* An event of the agent has one value everywhere, and only a bad one is refused.
SentAsIs      == \A r \in Slot : phase[r] # "free" /\ ev[r] \in Captured => body[r] = val[ev[r]]
RecordedAsIs  == \A e \in Captured : record[e] # NoRecord => record[e].value = val[e]
RefusedRecord == \A e \in Event : record[e] # NoRecord /\ record[e].status = "rejected" =>
                    record[e].value \in Bad
RefusedReply  == \A r \in Slot : phase[r] \in {"emit", "answered"} /\ reply[r] = "rejected"
                    /\ ev[r] \in Captured => body[r] \in Bad

Kept == SentAsIs /\ RecordedAsIs /\ RefusedRecord /\ RefusedReply /\ NothingLost

DeliveryInv == TypeOK /\ LocksFit /\ Serial /\ Once /\ Truthful /\ Kept

-----------------------------------------------------------------------------
(***************************************************************************)
(* Types.                                                                  *)
(***************************************************************************)
LEMMA Counted == TypeOK /\ Happens => events' \in 0..MaxEvents
  BY DeliveryAssumption DEF TypeOK, Happens

LEMMA TypeInit == Init => TypeOK
<1> SUFFICES ASSUME Init PROVE TypeOK
  OBVIOUS
<1>1. ev \in [Slot -> Event] /\ body \in [Slot -> Value]
  BY DeliveryAssumption DEF Init
<1>2. events \in 0..MaxEvents /\ made \in [Event -> Nat]
  BY DeliveryAssumption DEF Init
<1>3. /\ phase \in [Slot -> Phase] /\ reply \in [Slot -> Status]
      /\ record \in [Event -> [value : Value \cup {NoValue}, status : Status]]
  BY DEF Init, Phase, Status, NoRecord
<1> QED
  BY <1>1, <1>2, <1>3 DEF Init, TypeOK

\* What the handler writes up to its first await keeps the types.
LEMMA RecordTypes ==
    ASSUME TypeOK, NEW r \in Slot, NEW s \in Status, Record(r, s)
    PROVE  /\ record' \in [Event -> [value : Value \cup {NoValue}, status : Status]]
           /\ reply' \in [Slot -> Status]
           /\ phase' \in [Slot -> Phase]
           /\ \A q \in Slot : phase'[q] \in {"lookup", "insert"} => body[q] \in Magnet
  BY DEF TypeOK, Record, Phase, Working

LEMMA HandleTypes ==
    ASSUME TypeOK, NEW r \in Slot, Handle(r) \/ Repeat(r)
    PROVE  /\ record' \in [Event -> [value : Value \cup {NoValue}, status : Status]]
           /\ reply' \in [Slot -> Status]
           /\ phase' \in [Slot -> Phase]
           /\ \A q \in Slot : phase'[q] \in {"lookup", "insert"} => body[q] \in Magnet
           /\ library' \subseteq Magnet
           /\ active' \subseteq Address
           /\ made' \in [Event -> Nat]
           /\ taken' \subseteq Event \X Value
<1>1. "rejected" \in Status /\ "accepted" \in Status /\ "duplicate" \in Status
  BY DEF Status
<1>2. ev[r] \in Event /\ body[r] \in Value
  BY DEF TypeOK
<1>3. CASE body[r] \in Bad /\ Record(r, "rejected") /\ UNCHANGED <<library, active, made, taken>>
  BY <1>1, <1>3, RecordTypes DEF TypeOK
<1>4. CASE /\ body[r] \in Magnet
           /\ phase' = [phase EXCEPT ![r] = "lookup"]
           /\ UNCHANGED <<reply, stores, made, taken>>
  BY <1>4 DEF TypeOK, Phase, Working, stores
<1>5. CASE /\ body[r] \in active
           /\ Record(r, "accepted")
           /\ taken' = taken \cup {<<ev[r], body[r]>>}
           /\ UNCHANGED <<library, active, made>>
  BY <1>1, <1>2, <1>5, RecordTypes DEF TypeOK
<1>6. CASE /\ body[r] \in Address \ active
           /\ active' = active \cup {body[r]}
           /\ made' = [made EXCEPT ![ev[r]] = @ + 1]
           /\ taken' = taken \cup {<<ev[r], body[r]>>}
           /\ phase' = [phase EXCEPT ![r] = "announce"]
           /\ UNCHANGED <<reply, library, record>>
  <2>1. made' \in [Event -> Nat]
    BY <1>6 DEF TypeOK
  <2> QED
    BY <1>2, <1>6, <2>1 DEF TypeOK, Phase, Working
<1>7. CASE Repeat(r)
  <2>1. Repeated(r) \in Status
    BY <1>1, <1>2 DEF Repeated, TypeOK
  <2> QED
    BY <1>7, <2>1 DEF Repeat, TypeOK, Phase, stores
<1> QED
  BY <1>3, <1>4, <1>5, <1>6, <1>7 DEF Handle

LEMMA TypeStep == TypeOK /\ [Next]_vars => TypeOK'
<1> SUFFICES ASSUME TypeOK, [Next]_vars PROVE TypeOK'
  OBVIOUS
<1>0. Happens => events' \in 0..MaxEvents
  BY Counted
<1> USE DEF TypeOK, agent, wire, locks, stores, history
<1>1. ASSUME NEW e \in Captured, NEW v \in Value, Capture(e, v) PROVE TypeOK'
  BY <1>0, <1>1, DeliveryAssumption DEF Capture, Save
<1>2. CASE Probe
  BY <1>2 DEF Probe, KickAll, Save
<1>3. CASE ProbeFails
  BY <1>0, <1>3 DEF ProbeFails
<1>4. CASE RetryNow
  BY <1>4 DEF RetryNow, KickAll, Save
<1>5. CASE Settled
  BY <1>5 DEF Settled, Save, Phase
<1>6. CASE SendFails
  <2>1. phase' \in [Slot -> Phase]
    BY <1>6 DEF SendFails, Phase
  <2> QED
    BY <1>6, <2>1 DEF SendFails, MarkFailed, Save
<1>7. CASE SendTimesOut
  BY <1>0, <1>7 DEF SendTimesOut, MarkFailed, Save
<1>8. CASE AgentRestarts
  BY <1>0, <1>8 DEF AgentRestarts
<1>9. ASSUME NEW e \in Captured, Due(e) PROVE TypeOK'
  BY <1>9 DEF Due
<1>10. ASSUME NEW e \in Captured, NEW r \in Slot, Send(e, r) PROVE TypeOK'
  <2>1. val[e] \in Value /\ e \in Event
    BY <1>10 DEF Send, Event
  <2> QED
    BY <1>10, <2>1 DEF Send, Phase
<1>11. ASSUME NEW r \in Slot, Discarded(r) PROVE TypeOK'
  BY <1>11 DEF Discarded, Phase
<1>12. ASSUME NEW r \in Slot, Lost(r) PROVE TypeOK'
  BY <1>0, <1>12 DEF Lost, Phase
<1>13. ASSUME NEW r \in Slot, NEW e \in Posted, NEW v \in Value, Post(e, v, r) PROVE TypeOK'
  BY <1>0, <1>13 DEF Post, Phase, Event
<1>14. ASSUME NEW r \in Slot, Invalid(r) PROVE TypeOK'
  BY <1>14 DEF Invalid, Phase, Status
<1>15. ASSUME NEW r \in Slot, Arrive(r) PROVE TypeOK'
  <2>1. /\ lockOf' \in [Event -> Lock \cup {NoLock}]
        /\ ev[r] \in Event
        /\ \E l \in Lock : Acquire(r, l)
    BY <1>15 DEF Arrive
  <2>2. PICK l \in Lock : Acquire(r, l)
    BY <2>1
  <2>3. holder' \in [Lock -> Slot \cup {NoSlot}] /\ lock' \in [Slot -> Lock \cup {NoLock}]
    BY <2>2 DEF Acquire, Enter
  <2>4. CASE Handle(r) \/ Repeat(r)
    BY <1>15, <2>1, <2>3, <2>4, HandleTypes DEF Arrive
  <2>5. CASE /\ phase' = [phase EXCEPT ![r] = "waiting"]
             /\ UNCHANGED <<reply, stores, made, taken>>
    BY <1>15, <2>1, <2>3, <2>5 DEF Arrive, Phase
  <2> QED
    BY <2>2, <2>4, <2>5 DEF Acquire, Enter
<1>16. ASSUME NEW r \in Slot, Wake(r) PROVE TypeOK'
  <2>1. holder' \in [Lock -> Slot \cup {NoSlot}] /\ lock' \in [Slot -> Lock \cup {NoLock}]
    BY <1>16 DEF Wake
  <2>2. Handle(r) \/ Repeat(r)
    BY <1>16 DEF Wake
  <2> QED
    BY <1>16, <2>1, <2>2, HandleTypes DEF Wake
<1>17. ASSUME NEW r \in Slot, Lookup(r) \/ Insert(r) PROVE TypeOK'
  <2>1. body[r] \in Magnet /\ <<ev[r], body[r]>> \in Event \X Value
    BY <1>17 DEF Lookup, Insert
  <2>2. CASE Record(r, "duplicate")
    BY <1>17, <2>1, <2>2, RecordTypes DEF Lookup, Insert, Status
  <2>3. CASE phase' = [phase EXCEPT ![r] = "insert"] /\ UNCHANGED <<reply, record, taken, library, made>>
    BY <1>17, <2>1, <2>3 DEF Lookup, Insert, Phase, Working
  <2>4. CASE /\ library' = library \cup {body[r]}
             /\ made' = [made EXCEPT ![ev[r]] = @ + 1]
             /\ phase' = [phase EXCEPT ![r] = "classify"]
             /\ UNCHANGED <<reply, record>>
    <3>1. made' \in [Event -> Nat]
      BY <2>4
    <3>2. taken' \subseteq Event \X Value
      BY <1>17, <2>1 DEF Lookup, Insert
    <3> QED
      BY <1>17, <2>1, <2>4, <3>1, <3>2 DEF Lookup, Insert, Phase, Working
  <2> QED
    BY <1>17, <2>2, <2>3, <2>4 DEF Lookup, Insert
<1>18. ASSUME NEW r \in Slot, Complete(r) PROVE TypeOK'
  BY <1>18, RecordTypes DEF Complete, Status
<1>19. ASSUME NEW r \in Slot, Respond(r) PROVE TypeOK'
  BY <1>19 DEF Respond, Release, Phase
<1>20. ASSUME NEW r \in Slot, Raise(r) PROVE TypeOK'
  BY <1>0, <1>20 DEF Raise, Release, Phase
<1>21. CASE ServiceRestarts
  BY <1>0, <1>21 DEF ServiceRestarts, Phase
<1>22. ASSUME NEW u \in Address, JobEnds(u) PROVE TypeOK'
  BY <1>0, <1>22 DEF JobEnds
<1>23. ASSUME NEW v \in Magnet, Remove(v) PROVE TypeOK'
  BY <1>0, <1>23 DEF Remove
<1>24. CASE UNCHANGED vars
  BY <1>24 DEF vars
<1> QED
  BY <1>1, <1>2, <1>3, <1>4, <1>5, <1>6, <1>7, <1>8, <1>9, <1>10, <1>11, <1>12, <1>13, <1>14,
     <1>15, <1>16, <1>17, <1>18, <1>19, <1>20, <1>21, <1>22, <1>23, <1>24
  DEF Next, AgentStep, ServiceStep

-----------------------------------------------------------------------------
(***************************************************************************)
(* The steps, by what they do to the service.                              *)
(***************************************************************************)

\* The agent, and the world behind the stores.
Quiet == UNCHANGED <<phase, ev, body, reply, lockOf, holder, lock, record, made, taken, cut>>

\* A request that is not at the service moves, or its slot gets a new one.
Outside(r) ==
    /\ phase[r] \notin Working \cup {"waiting"}
    /\ \E p \in {"free", "sent", "answered", "failed"} : phase' = [phase EXCEPT ![r] = p]
    /\ phase'[r] = "answered" => reply'[r] = "rejected" /\ body[r] \in Bad
    /\ phase[r] # "free" => UNCHANGED <<ev, body>>
    /\ \A q \in Slot \ {r} : ev'[q] = ev[q] /\ body'[q] = body[q] /\ reply'[q] = reply[q]
    /\ UNCHANGED <<lockOf, holder, lock, record, made, taken, cut>>

LEMMA StepKinds ==
    ASSUME TypeOK, [Next]_vars
    PROVE  \/ Quiet
           \/ \E r \in Slot : Outside(r)
           \/ \E r \in Slot : Arrive(r) \/ Wake(r) \/ Lookup(r) \/ Insert(r) \/ Complete(r)
                              \/ Respond(r) \/ Raise(r)
           \/ ServiceRestarts
<1> USE DEF agent, wire, locks, stores, history
<1>1. ASSUME NEW e \in Captured, NEW v \in Value, Capture(e, v) PROVE Quiet
  BY <1>1 DEF Capture, Quiet
<1>2. CASE Probe \/ ProbeFails \/ RetryNow \/ AgentRestarts \/ SendTimesOut
  BY <1>2 DEF Probe, ProbeFails, RetryNow, AgentRestarts, SendTimesOut, MarkFailed, Quiet
<1>3. ASSUME NEW e \in Captured, Due(e) PROVE Quiet
  BY <1>3 DEF Due, Quiet
<1>4. ASSUME NEW u, JobEnds(u) \/ Remove(u) PROVE Quiet
  BY <1>4 DEF JobEnds, Remove, Quiet
<1>5. CASE UNCHANGED vars
  BY <1>5 DEF vars, Quiet
<1>6. CASE Settled \/ SendFails
  <2>1. sending \in Slot /\ phase' = [phase EXCEPT ![sending] = "free"]
    BY <1>6 DEF Settled, SendFails, TypeOK
  <2>2. phase[sending] \in {"answered", "failed"}
    BY <1>6 DEF Settled, SendFails
  <2>3. UNCHANGED <<ev, body, reply, lockOf, holder, lock, record, made, taken, cut>>
    BY <1>6 DEF Settled, SendFails, MarkFailed
  <2>4. Outside(sending)
    BY <2>1, <2>2, <2>3 DEF Outside, Working, TypeOK
  <2> QED
    BY <2>1, <2>4
<1>7. ASSUME NEW r \in Slot, Discarded(r) \/ Lost(r) PROVE Outside(r)
  BY <1>7 DEF Discarded, Lost, Outside, Working, TypeOK
<1>8. ASSUME NEW r \in Slot, Invalid(r) PROVE Outside(r)
  BY <1>8 DEF Invalid, Outside, Working, TypeOK
<1>9. ASSUME NEW r \in Slot, NEW e, NEW v, Send(e, r) \/ Post(e, v, r) PROVE Outside(r)
  BY <1>9 DEF Send, Post, Outside, Working, TypeOK
<1> QED
  BY <1>1, <1>2, <1>3, <1>4, <1>5, <1>6, <1>7, <1>8, <1>9 DEF Next, AgentStep, ServiceStep

-----------------------------------------------------------------------------
(***************************************************************************)
(* The locks.                                                              *)
(***************************************************************************)
\* The handler goes to work, on an event without a record.
LEMMA HandleMoves ==
    ASSUME TypeOK, NEW r \in Slot, Handle(r)
    PROVE  /\ \E p \in Working : phase' = [phase EXCEPT ![r] = p]
           /\ record[ev[r]] = NoRecord
  BY DEF Handle, Record, Working

\* The lock that _event_lock returns for r is in the table, for this event only, nobody has it
\* for another one, and an entry that had to go was not locked.
Found(r, l) ==
    /\ lockOf' \in [Event -> Lock \cup {NoLock}]
    /\ lockOf'[ev[r]] = l
    /\ \A e \in Event \ {ev[r]} : lockOf[e] # l
    /\ \A q \in Slot : lock[q] = l => ev[q] = ev[r]
    /\ \A e \in Event \ {ev[r]} :
          \/ lockOf'[e] = lockOf[e]
          \/ lockOf'[e] = NoLock /\ lockOf[e] # NoLock /\ holder[lockOf[e]] = NoSlot
    /\ \/ lockOf[ev[r]] = l
       \/ lockOf[ev[r]] = NoLock /\ Waiting(l) = {} /\ \A q \in Slot : lock[q] # l

LEMMA ArriveTable ==
    ASSUME TypeOK, LocksFit, NEW r \in Slot, Arrive(r)
    PROVE  \E l \in Lock : Acquire(r, l) /\ Found(r, l)
<1>1. ev[r] \in Event /\ NoLock \notin Lock
  BY DeliveryAssumption DEF TypeOK
<1>2. CASE lockOf[ev[r]] # NoLock /\ Acquire(r, lockOf[ev[r]]) /\ UNCHANGED lockOf
  <2>1. lockOf[ev[r]] \in Lock
    BY <1>1, <1>2 DEF TypeOK
  <2> QED
    BY <1>1, <1>2, <2>1 DEF Found, LocksFit, Tabled, OwnLock, TypeOK
<1>3. ASSUME lockOf[ev[r]] = NoLock, NEW l \in Lock, Unreferenced(l), Acquire(r, l),
             \/ \E e \in Evictable : lockOf' = [lockOf EXCEPT ![e] = NoLock, ![ev[r]] = l]
             \/ lockOf' = [lockOf EXCEPT ![ev[r]] = l]
      PROVE  Acquire(r, l) /\ Found(r, l)
  BY <1>1, <1>3 DEF Found, Unreferenced, Evictable, Waiting, TypeOK
<1> QED
  BY <1>2, <1>3 DEF Arrive

LEMMA LocksFitStep == TypeOK /\ LocksFit /\ [Next]_vars => LocksFit'
<1> SUFFICES ASSUME TypeOK, LocksFit, [Next]_vars PROVE LocksFit'
  OBVIOUS
<1>0. NoSlot \notin Slot /\ NoLock \notin Lock
  BY DeliveryAssumption
<1>1. CASE Quiet
  BY <1>1 DEF Quiet, LocksFit, Unlocked, Assigned, Holding, Held, Tabled, OwnLock, OneEvent
<1>2. ASSUME NEW r \in Slot, Outside(r) PROVE LocksFit'
  <2>1. lock[r] = NoLock /\ phase'[r] \notin Working \cup {"waiting"}
    BY <1>2 DEF Outside, LocksFit, Unlocked, TypeOK, Working
  <2>2. \A q \in Slot \ {r} : phase'[q] = phase[q] /\ ev'[q] = ev[q]
    BY <1>2 DEF Outside, TypeOK
  <2>3. UNCHANGED <<lockOf, holder, lock>>
    BY <1>2 DEF Outside
  <2>4. \A l \in Lock : holder[l] # NoSlot => holder[l] \in Slot \ {r}
    BY <1>0, <2>1 DEF LocksFit, Unlocked, Assigned, Holding, Held, Tabled, OwnLock, OneEvent, TypeOK
  <2>5. Unlocked'
    BY <1>0, <2>1, <2>2, <2>3, <2>4 DEF LocksFit, Unlocked, Assigned, TypeOK
  <2>6. Assigned'
    BY <1>0, <2>1, <2>2, <2>3, <2>4 DEF LocksFit, Assigned, Unlocked, TypeOK
  <2>7. Holding'
    BY <1>0, <2>1, <2>2, <2>3, <2>4 DEF LocksFit, Holding, Unlocked, TypeOK
  <2>8. Held'
    BY <1>0, <2>1, <2>2, <2>3, <2>4 DEF LocksFit, Held, Unlocked, TypeOK
  <2>9. Tabled'
    BY <1>0, <2>1, <2>2, <2>3, <2>4 DEF LocksFit, Tabled, Unlocked, TypeOK
  <2>10. OwnLock'
    BY <1>0, <2>1, <2>2, <2>3, <2>4 DEF LocksFit, OwnLock, Unlocked, TypeOK
  <2>11. OneEvent'
    BY <1>0, <2>1, <2>2, <2>3, <2>4 DEF LocksFit, OneEvent, Unlocked, TypeOK
  <2> QED
    BY <2>5, <2>6, <2>7, <2>8, <2>9, <2>10, <2>11 DEF LocksFit
<1>3. ASSUME NEW r \in Slot, Lookup(r) \/ Insert(r) \/ Complete(r) PROVE LocksFit'
  <2>1. phase[r] \in Working /\ phase'[r] \in Working
    BY <1>3 DEF Lookup, Insert, Complete, Record, Working, TypeOK
  <2>2. \A q \in Slot \ {r} : phase'[q] = phase[q]
    BY <1>3 DEF Lookup, Insert, Complete, Record, TypeOK
  <2>3. UNCHANGED <<ev, lockOf, holder, lock>>
    BY <1>3 DEF Lookup, Insert, Complete, locks
  <2>4. \A q \in Slot : (phase'[q] \in Working <=> phase[q] \in Working)
                       /\ (phase'[q] = "waiting" <=> phase[q] = "waiting")
    BY <2>1, <2>2 DEF Working
  <2> QED
    BY <2>3, <2>4 DEF LocksFit, Unlocked, Assigned, Holding, Held, Tabled, OwnLock, OneEvent, TypeOK
<1>4. ASSUME NEW r \in Slot, Arrive(r) PROVE LocksFit'
  <2>1. phase[r] = "sent" /\ lock[r] = NoLock /\ UNCHANGED ev /\ ev[r] \in Event
    BY <1>4 DEF Arrive, LocksFit, Unlocked, TypeOK, Working
  <2>2. PICK l \in Lock : Acquire(r, l) /\ Found(r, l)
    BY <1>4, ArriveTable
  <2>3. \A k \in Lock : holder[k] # NoSlot => holder[k] \in Slot \ {r}
    BY <1>0, <2>1 DEF LocksFit, Held, TypeOK
  <2>4. OwnLock'
    BY <1>0, <2>1, <2>2 DEF LocksFit, OwnLock, Found, TypeOK
  <2>5. CASE Handle(r) /\ holder[l] = NoSlot /\ holder' = [holder EXCEPT ![l] = r]
                       /\ lock' = [lock EXCEPT ![r] = l]
    <3>1. PICK p \in Working : phase' = [phase EXCEPT ![r] = p]
      BY <2>5, HandleMoves
    <3>2. phase'[r] \in Working /\ \A q \in Slot \ {r} : phase'[q] = phase[q] /\ lock'[q] = lock[q]
      BY <2>5, <3>1 DEF TypeOK
    <3>3. lock'[r] = l /\ \A k \in Lock : holder'[k] = IF k = l THEN r ELSE holder[k]
      BY <2>5 DEF TypeOK
    <3>4. Unlocked' /\ Assigned'
      BY <3>2, <3>3 DEF LocksFit, Unlocked, Assigned
    <3>5. Holding'
      BY <2>5, <3>2, <3>3, <1>0 DEF LocksFit, Holding, Assigned
    <3>6. Held'
      BY <2>3, <3>2, <3>3 DEF LocksFit, Held
    <3>7. Tabled'
      BY <1>0, <2>1, <2>2, <3>2, <3>3 DEF LocksFit, Tabled, Found, TypeOK
    <3>8. OneEvent'
      BY <1>0, <2>1, <2>2, <3>2, <3>3 DEF LocksFit, OneEvent, Found, TypeOK
    <3> QED
      BY <2>4, <3>4, <3>5, <3>6, <3>7, <3>8 DEF LocksFit
  <2>6. CASE Repeat(r) /\ UNCHANGED <<holder, lock>>
    <3>1. phase' = [phase EXCEPT ![r] = "answered"]
      BY <2>6 DEF Repeat
    <3>2. \A q \in Slot : (phase'[q] \in Working <=> phase[q] \in Working)
                         /\ (phase'[q] = "waiting" <=> phase[q] = "waiting")
      BY <2>1, <3>1 DEF TypeOK, Working
    <3>3. Unlocked' /\ Assigned' /\ Holding' /\ Held'
      BY <2>6, <3>2 DEF LocksFit, Unlocked, Assigned, Holding, Held, TypeOK
    <3>4. Tabled'
      BY <1>0, <2>1, <2>2, <2>6 DEF LocksFit, Tabled, Found
    <3>5. OneEvent'
      BY <2>1, <2>6 DEF LocksFit, OneEvent
    <3> QED
      BY <2>4, <3>3, <3>4, <3>5 DEF LocksFit
  <2>7. CASE /\ phase' = [phase EXCEPT ![r] = "waiting"]
             /\ lock' = [lock EXCEPT ![r] = l]
             /\ UNCHANGED holder
    <3>1. /\ phase'[r] = "waiting" /\ lock'[r] = l
          /\ \A q \in Slot \ {r} : phase'[q] = phase[q] /\ lock'[q] = lock[q]
      BY <2>7 DEF TypeOK
    <3>2. Unlocked' /\ Assigned'
      BY <3>1 DEF LocksFit, Unlocked, Assigned
    <3>3. Holding'
      BY <2>7, <3>1 DEF LocksFit, Holding, Working
    <3>4. Held'
      BY <2>3, <2>7, <3>1 DEF LocksFit, Held
    <3>5. Tabled'
      BY <1>0, <2>1, <2>2, <3>1 DEF LocksFit, Tabled, Found, TypeOK
    <3>6. OneEvent'
      BY <1>0, <2>1, <2>2, <3>1 DEF LocksFit, OneEvent, Found, TypeOK
    <3> QED
      BY <2>4, <3>2, <3>3, <3>4, <3>5, <3>6 DEF LocksFit
  <2> QED
    BY <2>2, <2>5, <2>6, <2>7 DEF Acquire, Enter
<1>5. ASSUME NEW r \in Slot, Wake(r) PROVE LocksFit'
  <2>1. phase[r] = "waiting" /\ holder[lock[r]] = NoSlot /\ lock[r] \in Lock
        /\ UNCHANGED <<ev, lockOf>>
    BY <1>5 DEF Wake, LocksFit, Assigned
  <2>2. \A k \in Lock : holder[k] # NoSlot => holder[k] \in Slot \ {r}
    BY <1>0, <2>1 DEF LocksFit, Held, TypeOK, Working
  <2>3. OwnLock'
    BY <2>1 DEF LocksFit, OwnLock
  <2>4. CASE Handle(r) /\ holder' = [holder EXCEPT ![lock[r]] = r] /\ UNCHANGED lock
    <3>1. PICK p \in Working : phase' = [phase EXCEPT ![r] = p]
      BY <2>4, HandleMoves
    <3>2. phase'[r] \in Working /\ \A q \in Slot \ {r} : phase'[q] = phase[q]
      BY <3>1 DEF TypeOK
    <3>3. \A k \in Lock : holder'[k] = IF k = lock[r] THEN r ELSE holder[k]
      BY <2>4 DEF TypeOK
    <3>4. Unlocked' /\ Assigned'
      BY <2>1, <2>4, <3>2 DEF LocksFit, Unlocked, Assigned
    <3>5. Holding'
      BY <1>0, <2>1, <2>4, <3>2, <3>3 DEF LocksFit, Holding, Assigned
    <3>6. Held'
      BY <2>2, <2>4, <3>2, <3>3 DEF LocksFit, Held
    <3>7. Tabled' /\ OneEvent'
      BY <2>1, <2>4 DEF LocksFit, Tabled, OneEvent
    <3> QED
      BY <2>3, <3>4, <3>5, <3>6, <3>7 DEF LocksFit
  <2>5. CASE Repeat(r) /\ lock' = [lock EXCEPT ![r] = NoLock] /\ UNCHANGED holder
    <3>1. /\ phase'[r] = "answered" /\ lock'[r] = NoLock
          /\ \A q \in Slot \ {r} : phase'[q] = phase[q] /\ lock'[q] = lock[q]
      BY <2>5 DEF Repeat, TypeOK
    <3>2. Unlocked' /\ Assigned' /\ Holding'
      BY <2>5, <3>1 DEF LocksFit, Unlocked, Assigned, Holding, Working
    <3>3. Held'
      BY <2>2, <2>5, <3>1 DEF LocksFit, Held
    <3>4. Tabled' /\ OneEvent'
      BY <2>1, <3>1 DEF LocksFit, Tabled, OneEvent
    <3> QED
      BY <2>3, <3>2, <3>3, <3>4 DEF LocksFit
  <2> QED
    BY <1>5, <2>4, <2>5 DEF Wake
<1>6. ASSUME NEW r \in Slot, Respond(r) \/ Raise(r) PROVE LocksFit'
  <2>1. phase[r] \in Working /\ phase'[r] \notin Working \cup {"waiting"}
    BY <1>6 DEF Respond, Raise, Working, TypeOK
  <2>2. \A q \in Slot \ {r} : phase'[q] = phase[q] /\ lock'[q] = lock[q]
    BY <1>6 DEF Respond, Raise, Release, TypeOK
  <2>3. /\ UNCHANGED <<ev, lockOf>>
        /\ lock'[r] = NoLock
        /\ \A l \in Lock : holder'[l] = IF l = lock[r] THEN NoSlot ELSE holder[l]
    BY <1>6 DEF Respond, Raise, Release, TypeOK
  <2>4. lock[r] \in Lock /\ holder[lock[r]] = r
    BY <2>1 DEF LocksFit, Assigned, Holding
  <2>5. \A q \in Slot \ {r} : phase[q] \in Working => lock[q] # lock[r]
    BY <2>4 DEF LocksFit, Holding
  <2>6. \A l \in Lock : holder'[l] # NoSlot => holder[l] \in Slot \ {r} /\ l # lock[r]
    BY <1>0, <2>3, <2>4 DEF LocksFit, Unlocked, Assigned, Holding, Held, Tabled, OwnLock, OneEvent, TypeOK
  <2>7. Unlocked'
    BY <1>0, <2>1, <2>2, <2>3, <2>4, <2>5, <2>6 DEF LocksFit, Unlocked, Assigned, TypeOK
  <2>8. Assigned'
    BY <1>0, <2>1, <2>2, <2>3, <2>4, <2>5, <2>6 DEF LocksFit, Assigned, Unlocked, TypeOK
  <2>9. Holding'
    BY <2>1, <2>2, <2>3, <2>5 DEF LocksFit, Holding, Assigned
  <2>10. Held'
    BY <1>0, <2>1, <2>2, <2>3, <2>4, <2>5, <2>6 DEF LocksFit, Held, Unlocked, TypeOK
  <2>11. Tabled'
    BY <1>0, <2>1, <2>2, <2>3, <2>4, <2>5, <2>6 DEF LocksFit, Tabled, Unlocked, TypeOK
  <2>12. OwnLock'
    BY <1>0, <2>1, <2>2, <2>3, <2>4, <2>5, <2>6 DEF LocksFit, OwnLock, Unlocked, TypeOK
  <2>13. OneEvent'
    BY <1>0, <2>1, <2>2, <2>3, <2>4, <2>5, <2>6 DEF LocksFit, OneEvent, Unlocked, TypeOK
  <2> QED
    BY <2>7, <2>8, <2>9, <2>10, <2>11, <2>12, <2>13 DEF LocksFit
<1>7. CASE ServiceRestarts
  BY <1>0, <1>7 DEF ServiceRestarts, LocksFit, Unlocked, Assigned, Holding, Held, Tabled, OwnLock, OneEvent, TypeOK, Working
<1> QED
  BY <1>1, <1>2, <1>3, <1>4, <1>5, <1>6, <1>7, StepKinds

-----------------------------------------------------------------------------
(***************************************************************************)
(* One after the other.                                                    *)
(***************************************************************************)

\* What Record writes: a record of its event, and only that.
LEMMA RecordMoves ==
    ASSUME TypeOK, NEW r \in Slot, NEW s \in Status, Record(r, s)
    PROVE  /\ record'[ev[r]] = [value |-> body[r], status |-> s] /\ record'[ev[r]] # NoRecord
           /\ \A e \in Event \ {ev[r]} : record'[e] = record[e]
           /\ phase' = [phase EXCEPT ![r] = "emit"]
           /\ reply' = [reply EXCEPT ![r] = s]
<1>1. ev[r] \in Event /\ body[r] \in Value /\ NoValue \notin Value
  BY DeliveryAssumption DEF TypeOK
<1>2. [value |-> body[r], status |-> s] # NoRecord
  BY <1>1 DEF NoRecord
<1> QED
  BY <1>1, <1>2 DEF Record, TypeOK

\* Two requests of one event are at work only if one of its handlers was cut off.
LEMMA Alone ==
    ASSUME LocksFit, Serial, NEW r \in Slot, NEW s \in Slot,
           phase[r] \in Working, phase[s] \in Working, ev[r] = ev[s], ev[r] \notin cut
    PROVE  r = s
<1>1. lock[r] = lock[s]
  BY DEF Serial, TableHolds
<1> QED
  BY <1>1 DEF LocksFit, Holding

\* What becomes of a request that arrives or wakes up.
LEMMA Entering ==
    ASSUME TypeOK, LocksFit, Serial, NEW r \in Slot, Arrive(r) \/ Wake(r)
    PROVE  \/ /\ Handle(r)
              /\ ev[r] \in cut \/ \A q \in Slot : phase[q] \in Working => ev[q] # ev[r]
           \/ Repeat(r)
           \/ phase' = [phase EXCEPT ![r] = "waiting"] /\ UNCHANGED <<reply, stores, made, taken>>
<1>1. CASE Arrive(r)
  <2>1. PICK l \in Lock : Acquire(r, l) /\ Found(r, l)
    BY <1>1, ArriveTable
  <2>2. CASE holder[l] = NoSlot /\ Handle(r)
    <3>1. ASSUME NEW q \in Slot, phase[q] \in Working, ev[q] = ev[r], ev[r] \notin cut PROVE FALSE
      <4>1. lock[q] = lockOf[ev[r]] /\ lock[q] \in Lock /\ holder[lock[q]] = q
        BY <3>1 DEF Serial, TableHolds, LocksFit, Holding, Assigned
      <4>2. lock[q] = l
        BY <2>1, <4>1, DeliveryAssumption DEF Found
      <4> QED
        BY <2>2, <4>1, <4>2, DeliveryAssumption
    <3> QED
      BY <2>2, <3>1
  <2> QED
    BY <2>1, <2>2 DEF Acquire, Enter
<1>2. CASE Wake(r)
  <2>1. phase[r] = "waiting" /\ holder[lock[r]] = NoSlot
    BY <1>2 DEF Wake
  <2>2. Handle(r) => ev[r] \in cut
    BY <2>1, HandleMoves DEF Serial, FindsRecord
  <2> QED
    BY <1>2, <2>2 DEF Wake
<1> QED
  BY <1>1, <1>2

\* Records stay records, and cuts stay cuts.
LEMMA RecordsGrow ==
    ASSUME TypeOK, LocksFit, Serial, [Next]_vars
    PROVE  \A e \in Event : (record[e] # NoRecord => record'[e] # NoRecord) /\ (e \in cut => e \in cut')
<1> USE DEF stores, history
<1>1. CASE Quiet
  BY <1>1 DEF Quiet
<1>2. ASSUME NEW r \in Slot, Outside(r) PROVE UNCHANGED <<record, cut>>
  BY <1>2 DEF Outside
<1>3. "rejected" \in Status /\ "accepted" \in Status /\ "duplicate" \in Status
  BY DEF Status
<1>4. ASSUME NEW r \in Slot, NEW s \in Status, Record(r, s)
      PROVE  \A e \in Event : record[e] # NoRecord => record'[e] # NoRecord
  BY <1>4, RecordMoves
<1>5. ASSUME NEW r \in Slot, Arrive(r) \/ Wake(r)
      PROVE  /\ cut' = cut
             /\ \A e \in Event : record[e] # NoRecord => record'[e] # NoRecord
  <2>1. cut' = cut
    BY <1>5 DEF Arrive, Wake
  <2>2. record' = record \/ \E s \in Status : Record(r, s)
    BY <1>3, <1>5, Entering DEF Handle, Repeat
  <2> QED
    BY <1>4, <2>1, <2>2
<1>6. ASSUME NEW r \in Slot, Lookup(r) \/ Insert(r) \/ Complete(r)
      PROVE  /\ cut' = cut
             /\ \A e \in Event : record[e] # NoRecord => record'[e] # NoRecord
  <2>1. cut' = cut
    BY <1>6 DEF Lookup, Insert, Complete
  <2>2. record' = record \/ \E s \in Status : Record(r, s)
    BY <1>3, <1>6 DEF Lookup, Insert, Complete
  <2> QED
    BY <1>4, <2>1, <2>2
<1>7. ASSUME NEW r \in Slot, Respond(r) \/ Raise(r) PROVE record' = record /\ cut \subseteq cut'
  BY <1>7 DEF Respond, Raise
<1>8. CASE ServiceRestarts
  BY <1>8 DEF ServiceRestarts
<1> QED
  BY <1>1, <1>2, <1>5, <1>6, <1>7, <1>8, StepKinds

LEMMA SerialStep == TypeOK /\ LocksFit /\ Serial /\ Once /\ [Next]_vars => Serial'
<1> SUFFICES ASSUME TypeOK, LocksFit, Serial, Once, [Next]_vars PROVE Serial'
  OBVIOUS
<1>0. NoSlot \notin Slot /\ NoLock \notin Lock
  BY DeliveryAssumption
<1>00. \A e \in Event : (record[e] # NoRecord => record'[e] # NoRecord) /\ (e \in cut => e \in cut')
  BY RecordsGrow
<1>1. CASE Quiet
  BY <1>1 DEF Quiet, Serial, TableHolds, FindsRecord
<1>2. ASSUME NEW r \in Slot, Outside(r) PROVE Serial'
  <2>1. phase'[r] \notin Working \cup {"waiting"}
    BY <1>2 DEF Outside, TypeOK, Working
  <2>2. \A q \in Slot \ {r} : phase'[q] = phase[q] /\ ev'[q] = ev[q]
    BY <1>2 DEF Outside, TypeOK
  <2>3. UNCHANGED <<lockOf, holder, lock, record, cut>>
    BY <1>2 DEF Outside
  <2> QED
    BY <2>1, <2>2, <2>3 DEF Serial, TableHolds, FindsRecord
<1>3. ASSUME NEW r \in Slot, Lookup(r) \/ Insert(r) \/ Complete(r) PROVE Serial'
  <2>1. phase[r] \in Working /\ phase'[r] \in Working
    BY <1>3 DEF Lookup, Insert, Complete, Record, Working, TypeOK
  <2>2. \A q \in Slot \ {r} : phase'[q] = phase[q]
    BY <1>3 DEF Lookup, Insert, Complete, Record, TypeOK
  <2>3. UNCHANGED <<ev, lockOf, holder, lock, cut>>
    BY <1>3 DEF Lookup, Insert, Complete, locks, history
  <2>4. TableHolds'
    BY <2>1, <2>2, <2>3 DEF Serial, TableHolds
  <2>5. FindsRecord'
    BY <1>00, <2>1, <2>2, <2>3 DEF Serial, FindsRecord, Working, TypeOK
  <2> QED
    BY <2>4, <2>5 DEF Serial
<1>4. ASSUME NEW r \in Slot, Arrive(r) PROVE Serial'
  <2>1. phase[r] = "sent" /\ UNCHANGED <<ev, cut>> /\ ev \in [Slot -> Event]
    BY <1>4 DEF Arrive, TypeOK
  <2>2. PICK l \in Lock : Acquire(r, l) /\ Found(r, l)
    BY <1>4, ArriveTable
  <2>3. ASSUME NEW q \in Slot \ {r}, phase[q] \in Working, ev[q] \notin cut
        PROVE  lockOf'[ev[q]] = lock[q]
    <3>1. lockOf[ev[q]] = lock[q] /\ lock[q] \in Lock /\ holder[lock[q]] = q
      BY <2>3 DEF Serial, TableHolds, LocksFit, Holding, Assigned
    <3> QED
      BY <1>0, <2>1, <2>2, <3>1 DEF Found
  <2>4. CASE Handle(r) /\ holder[l] = NoSlot /\ holder' = [holder EXCEPT ![l] = r]
                       /\ lock' = [lock EXCEPT ![r] = l]
    <3>1. PICK p \in Working : phase' = [phase EXCEPT ![r] = p]
      BY <2>4, HandleMoves
    <3>2. /\ phase'[r] \in Working /\ lock'[r] = l
          /\ \A q \in Slot \ {r} : phase'[q] = phase[q] /\ lock'[q] = lock[q]
          /\ \A k \in Lock : holder'[k] = IF k = l THEN r ELSE holder[k]
      BY <2>4, <3>1 DEF TypeOK
    <3>3. TableHolds'
      BY <2>1, <2>2, <2>3, <3>2 DEF TableHolds, Found
    <3>4. ASSUME NEW q \in Slot, phase'[q] = "waiting", ev[q] \notin cut
          PROVE  record'[ev[q]] # NoRecord \/ holder'[lock'[q]] # NoSlot
      <4>1. q # r /\ phase[q] = "waiting" /\ lock'[q] = lock[q] /\ lock[q] \in Lock
        BY <3>2, <3>4 DEF Working, LocksFit, Assigned
      <4> QED
        BY <1>0, <1>00, <2>1, <3>2, <3>4, <4>1 DEF Serial, FindsRecord
    <3> QED
      BY <2>1, <3>3, <3>4 DEF Serial, FindsRecord
  <2>5. CASE Repeat(r) /\ UNCHANGED <<holder, lock>>
    <3>1. phase'[r] = "answered" /\ \A q \in Slot \ {r} : phase'[q] = phase[q]
      BY <2>5 DEF Repeat, TypeOK
    <3>2. TableHolds'
      BY <2>1, <2>3, <2>5, <3>1 DEF TableHolds, Working
    <3>3. FindsRecord'
      BY <1>00, <2>1, <2>5, <3>1 DEF Serial, FindsRecord
    <3> QED
      BY <3>2, <3>3 DEF Serial
  <2>6. CASE /\ holder[l] # NoSlot \/ Waiting(l) # {}
             /\ phase' = [phase EXCEPT ![r] = "waiting"]
             /\ lock' = [lock EXCEPT ![r] = l]
             /\ UNCHANGED <<reply, holder, stores, made, taken>>
    <3>1. /\ phase'[r] = "waiting" /\ lock'[r] = l
          /\ \A q \in Slot \ {r} : phase'[q] = phase[q] /\ lock'[q] = lock[q]
      BY <2>6 DEF TypeOK
    <3>2. TableHolds'
      BY <2>1, <2>3, <3>1 DEF TableHolds, Working
    <3>3. record[ev[r]] # NoRecord \/ holder[l] # NoSlot \/ ev[r] \in cut
      <4>1. SUFFICES ASSUME holder[l] = NoSlot PROVE record[ev[r]] # NoRecord \/ ev[r] \in cut
        OBVIOUS
      <4>2. PICK w \in Slot : phase[w] = "waiting" /\ lock[w] = l
        BY <2>6, <4>1 DEF Waiting
      <4>3. ev[w] = ev[r]
        BY <2>2, <4>2 DEF Found
      <4> QED
        BY <4>1, <4>2, <4>3 DEF Serial, FindsRecord
    <3>4. FindsRecord'
      BY <2>1, <2>6, <3>1, <3>3 DEF Serial, FindsRecord, stores
    <3> QED
      BY <3>2, <3>4 DEF Serial
  <2> QED
    BY <2>2, <2>4, <2>5, <2>6 DEF Acquire, Enter
<1>5. ASSUME NEW r \in Slot, Wake(r) PROVE Serial'
  <2>1. phase[r] = "waiting" /\ holder[lock[r]] = NoSlot /\ lock[r] \in Lock
        /\ UNCHANGED <<ev, lockOf, cut>> /\ ev \in [Slot -> Event]
    BY <1>5 DEF Wake, LocksFit, Assigned, TypeOK
  <2>2. CASE Handle(r) /\ holder' = [holder EXCEPT ![lock[r]] = r] /\ UNCHANGED lock
    <3>1. PICK p \in Working : phase' = [phase EXCEPT ![r] = p]
      BY <2>2, HandleMoves
    <3>2. /\ phase'[r] \in Working
          /\ \A q \in Slot \ {r} : phase'[q] = phase[q]
          /\ \A k \in Lock : holder'[k] = IF k = lock[r] THEN r ELSE holder[k]
      BY <2>2, <3>1 DEF TypeOK
    <3>3. ev[r] \in cut
      BY <2>1, <2>2, HandleMoves DEF Serial, FindsRecord
    <3>4. TableHolds'
      BY <2>1, <2>2, <3>2, <3>3 DEF Serial, TableHolds
    <3>5. FindsRecord'
      BY <1>0, <1>00, <2>1, <2>2, <3>2 DEF Serial, FindsRecord, LocksFit, Assigned, Working
    <3> QED
      BY <3>4, <3>5 DEF Serial
  <2>3. CASE Repeat(r) /\ lock' = [lock EXCEPT ![r] = NoLock] /\ UNCHANGED holder
    <3>1. /\ phase'[r] = "answered"
          /\ \A q \in Slot \ {r} : phase'[q] = phase[q] /\ lock'[q] = lock[q]
      BY <2>3 DEF Repeat, TypeOK
    <3>2. TableHolds'
      BY <2>1, <3>1 DEF Serial, TableHolds, Working
    <3>3. FindsRecord'
      BY <1>00, <2>1, <2>3, <3>1 DEF Serial, FindsRecord
    <3> QED
      BY <3>2, <3>3 DEF Serial
  <2> QED
    BY <1>5, <2>2, <2>3 DEF Wake
<1>6. ASSUME NEW r \in Slot, Respond(r) \/ Raise(r) PROVE Serial'
  <2>1. phase[r] \in Working /\ phase'[r] \notin Working \cup {"waiting"}
    BY <1>6 DEF Respond, Raise, Working, TypeOK
  <2>2. \A q \in Slot \ {r} : phase'[q] = phase[q] /\ lock'[q] = lock[q]
    BY <1>6 DEF Respond, Raise, Release, TypeOK
  <2>3. /\ UNCHANGED <<ev, lockOf, record>> /\ cut \subseteq cut' /\ ev \in [Slot -> Event]
        /\ \A l \in Lock : holder'[l] = IF l = lock[r] THEN NoSlot ELSE holder[l]
    BY <1>6 DEF Respond, Raise, Release, TypeOK, stores, history
  <2>4. record[ev[r]] # NoRecord \/ ev[r] \in cut'
    BY <1>6 DEF Respond, Raise, Once, Recorded, TypeOK
  <2>5. TableHolds'
    BY <2>1, <2>2, <2>3 DEF Serial, TableHolds
  <2>6. ASSUME NEW q \in Slot, phase'[q] = "waiting", ev[q] \notin cut'
        PROVE  record[ev[q]] # NoRecord \/ holder'[lock'[q]] # NoSlot
    <3>1. q # r /\ phase[q] = "waiting" /\ lock'[q] = lock[q] /\ lock[q] \in Lock /\ ev[q] \notin cut
      BY <2>1, <2>2, <2>3, <2>6 DEF LocksFit, Assigned
    <3>2. CASE lock[q] = lock[r]
      <4>1. ev[q] = ev[r]
        BY <1>0, <3>1, <3>2 DEF LocksFit, OneEvent
      <4> QED
        BY <2>4, <2>6, <4>1
    <3> QED
      BY <2>3, <3>1, <3>2 DEF Serial, FindsRecord
  <2>7. FindsRecord'
    BY <2>3, <2>6 DEF FindsRecord
  <2> QED
    BY <2>5, <2>7 DEF Serial
<1>7. CASE ServiceRestarts
  BY <1>7 DEF ServiceRestarts, Serial, TableHolds, FindsRecord, TypeOK, Working
<1> QED
  BY <1>1, <1>2, <1>3, <1>4, <1>5, <1>6, <1>7, StepKinds

-----------------------------------------------------------------------------
(***************************************************************************)
(* Once.                                                                   *)
(***************************************************************************)

\* A step in which r finishes with the record of an event that had none.
LEMMA OnceRecord ==
    ASSUME TypeOK, Once, NEW r \in Slot, NEW s \in Status, Record(r, s),
           UNCHANGED <<ev, cut, made>>,
           \A q \in Slot \ {r} : phase[q] \in Working /\ ev[q] = ev[r] => ev[r] \in cut
    PROVE  Once'
<1>1. /\ record'[ev[r]] # NoRecord
      /\ \A e \in Event \ {ev[r]} : record'[e] = record[e]
      /\ phase' = [phase EXCEPT ![r] = "emit"]
  BY RecordMoves
<1>11. /\ phase'[r] = "emit" /\ \A q \in Slot \ {r} : phase'[q] = phase[q]
       /\ ev \in [Slot -> Event]
  BY <1>1 DEF TypeOK
<1>2. EffectOnce' /\ Fresh'
  BY <1>1, <1>11 DEF Once, EffectOnce, Fresh
<1>3. Unrecorded'
  BY <1>1, <1>11 DEF Once, Unrecorded
<1>4. Recorded'
  BY <1>1, <1>11 DEF Once, Recorded
<1>5. Accounted'
  BY <1>1, <1>11 DEF Once, Accounted
<1> QED
  BY <1>2, <1>3, <1>4, <1>5 DEF Once

\* A step in which r creates something for an event that had nothing.
LEMMA OnceMake ==
    ASSUME TypeOK, Once, NEW r \in Slot, NEW p \in {"classify", "announce"},
           phase' = [phase EXCEPT ![r] = p],
           made' = [made EXCEPT ![ev[r]] = @ + 1],
           UNCHANGED <<ev, cut, record>>,
           ev[r] \in cut \/ (made[ev[r]] = 0 /\ record[ev[r]] = NoRecord),
           \A q \in Slot \ {r} : phase[q] \in Working /\ ev[q] = ev[r] => ev[r] \in cut
    PROVE  Once'
<1>1. /\ phase'[r] = p /\ \A q \in Slot \ {r} : phase'[q] = phase[q]
      /\ made[ev[r]] \in Nat /\ made'[ev[r]] = made[ev[r]] + 1
      /\ \A e \in Event \ {ev[r]} : made'[e] = made[e]
      /\ ev \in [Slot -> Event]
  BY DEF TypeOK
<1>2. EffectOnce'
  BY <1>1 DEF Once, EffectOnce
<1>3. Fresh'
  BY <1>1 DEF Once, Fresh, Working
<1>4. Unrecorded'
  BY <1>1 DEF Once, Unrecorded, Working
<1>5. Recorded'
  BY <1>1 DEF Once, Recorded
<1>6. Accounted'
  BY <1>1 DEF Once, Accounted
<1> QED
  BY <1>2, <1>3, <1>4, <1>5, <1>6 DEF Once

LEMMA OnceStep == TypeOK /\ LocksFit /\ Serial /\ Once /\ [Next]_vars => Once'
<1> SUFFICES ASSUME TypeOK, LocksFit, Serial, Once, [Next]_vars PROVE Once'
  OBVIOUS
<1>0. "rejected" \in Status /\ "accepted" \in Status /\ "duplicate" \in Status
  BY DEF Status
<1>00. ev \in [Slot -> Event]
  BY DEF TypeOK
<1> DEFINE Moves(r, p) == phase'[r] = p /\ \A q \in Slot \ {r} : phase'[q] = phase[q]
<1>1. CASE Quiet
  BY <1>1 DEF Quiet, Once, EffectOnce, Fresh, Unrecorded, Recorded, Accounted
<1>2. ASSUME NEW r \in Slot, Outside(r) PROVE Once'
  <2>1. phase[r] \notin Working /\ phase'[r] \notin Working
    BY <1>2 DEF Outside, TypeOK, Working
  <2>2. \A q \in Slot \ {r} : phase'[q] = phase[q] /\ ev'[q] = ev[q]
    BY <1>2 DEF Outside, TypeOK
  <2>3. UNCHANGED <<record, made, cut>>
    BY <1>2 DEF Outside
  <2>4. EffectOnce' /\ Fresh' /\ Unrecorded' /\ Recorded'
    BY <2>1, <2>2, <2>3 DEF Once, EffectOnce, Fresh, Unrecorded, Recorded, Working
  <2>5. Accounted'
    BY <2>1, <2>2, <2>3 DEF Once, Accounted, Working
  <2> QED
    BY <2>4, <2>5 DEF Once
<1>3. ASSUME NEW r \in Slot, Lookup(r) \/ Insert(r) \/ Complete(r) PROVE Once'
  <2>1. phase[r] \in Working \ {"emit"} /\ UNCHANGED <<ev, cut>>
    BY <1>3 DEF Lookup, Insert, Complete, Working, history
  <2>2. \A q \in Slot \ {r} : phase[q] \in Working /\ ev[q] = ev[r] => ev[r] \in cut
    BY <2>1, Alone
  <2>3. CASE UNCHANGED made /\ (Record(r, "duplicate") \/ Record(r, "accepted"))
    BY <1>0, <2>1, <2>2, <2>3, OnceRecord
  <2>4. CASE phase[r] = "lookup" /\ phase' = [phase EXCEPT ![r] = "insert"] /\ UNCHANGED <<record, made>>
    <3>1. Moves(r, "insert")
      BY <2>4 DEF TypeOK
    <3>2. EffectOnce' /\ Fresh' /\ Unrecorded' /\ Recorded'
      BY <2>1, <2>4, <3>1 DEF Once, EffectOnce, Fresh, Unrecorded, Recorded, Working
    <3>3. Accounted'
      BY <2>1, <2>4, <3>1 DEF Once, Accounted
    <3> QED
      BY <3>2, <3>3 DEF Once
  <2>5. CASE /\ phase[r] = "insert" /\ phase' = [phase EXCEPT ![r] = "classify"]
             /\ made' = [made EXCEPT ![ev[r]] = @ + 1]
             /\ UNCHANGED record
    <3>1. ev[r] \in cut \/ (made[ev[r]] = 0 /\ record[ev[r]] = NoRecord)
      <4>1. phase[r] \in {"lookup", "insert"} /\ phase[r] \in Working \ {"emit"}
        BY <2>5 DEF Working
      <4>2. ev[r] \in cut \/ made[ev[r]] = 0
        BY <4>1 DEF Once, Fresh
      <4>3. ev[r] \in cut \/ record[ev[r]] = NoRecord
        BY <4>1 DEF Once, Unrecorded
      <4> QED
        BY <4>2, <4>3
    <3> QED
      BY <2>1, <2>2, <2>5, <3>1, OnceMake
  <2> QED
    BY <1>3, <2>3, <2>4, <2>5 DEF Lookup, Insert, Complete, history
<1>4. ASSUME NEW r \in Slot, Arrive(r) \/ Wake(r) PROVE Once'
  <2>1. phase[r] \notin Working /\ UNCHANGED <<ev, cut>>
    BY <1>4 DEF Arrive, Wake, Working
  <2>2. CASE /\ Handle(r)
             /\ ev[r] \in cut \/ \A q \in Slot : phase[q] \in Working => ev[q] # ev[r]
    <3>1. record[ev[r]] = NoRecord
      BY <2>2, HandleMoves
    <3>2. ev[r] \in cut \/ made[ev[r]] = 0
      BY <1>00, <2>2, <3>1 DEF Once, Accounted, Working
    <3>3. \A q \in Slot \ {r} : phase[q] \in Working /\ ev[q] = ev[r] => ev[r] \in cut
      BY <2>2
    <3>4. CASE UNCHANGED made /\ (Record(r, "rejected") \/ Record(r, "accepted"))
      BY <1>0, <2>1, <3>3, <3>4, OnceRecord
    <3>5. CASE phase' = [phase EXCEPT ![r] = "lookup"] /\ UNCHANGED <<record, made>>
      <4>1. Moves(r, "lookup")
        BY <3>5 DEF TypeOK
      <4>2. EffectOnce' /\ Fresh' /\ Unrecorded' /\ Recorded'
        BY <2>1, <3>1, <3>2, <3>5, <4>1 DEF Once, EffectOnce, Fresh, Unrecorded, Recorded
      <4>3. Accounted'
        BY <2>1, <3>5, <4>1 DEF Once, Accounted, Working
      <4> QED
        BY <4>2, <4>3 DEF Once
    <3>6. CASE /\ phase' = [phase EXCEPT ![r] = "announce"]
               /\ made' = [made EXCEPT ![ev[r]] = @ + 1]
               /\ UNCHANGED record
      BY <2>1, <3>1, <3>2, <3>3, <3>6, OnceMake
    <3> QED
      BY <2>2, <3>4, <3>5, <3>6 DEF Handle, stores
  <2>3. ASSUME NEW p \in {"answered", "waiting"}, phase' = [phase EXCEPT ![r] = p],
               UNCHANGED <<record, made>>
        PROVE  Once'
    <3>1. phase'[r] \notin Working /\ \A q \in Slot \ {r} : phase'[q] = phase[q]
      BY <2>3 DEF TypeOK, Working
    <3>2. EffectOnce' /\ Fresh' /\ Unrecorded' /\ Recorded'
      BY <2>1, <2>3, <3>1 DEF Once, EffectOnce, Fresh, Unrecorded, Recorded, Working
    <3>3. Accounted'
      BY <2>1, <2>3, <3>1 DEF Once, Accounted, Working
    <3> QED
      BY <3>2, <3>3 DEF Once
  <2> QED
    BY <1>4, <2>2, <2>3, Entering DEF Repeat, stores
<1>5. ASSUME NEW r \in Slot, Respond(r) \/ Raise(r) PROVE Once'
  <2>1. /\ phase'[r] \notin Working /\ \A q \in Slot \ {r} : phase'[q] = phase[q]
        /\ UNCHANGED <<ev, record, made>> /\ cut \subseteq cut'
        /\ phase[r] = "emit" \/ ev[r] \in cut'
    BY <1>5 DEF Respond, Raise, TypeOK, Working, stores, history
  <2>2. EffectOnce' /\ Fresh' /\ Unrecorded' /\ Recorded'
    BY <2>1 DEF Once, EffectOnce, Fresh, Unrecorded, Recorded, Working
  <2>3. Accounted'
    BY <2>1 DEF Once, Accounted, Working
  <2> QED
    BY <2>2, <2>3 DEF Once
<1>6. CASE ServiceRestarts
  <2>1. /\ \A q \in Slot : phase'[q] \notin Working
        /\ UNCHANGED <<ev, record, made>> /\ cut \subseteq cut'
        /\ \A q \in Slot : phase[q] \in Working => ev[q] \in cut'
    BY <1>6 DEF ServiceRestarts, TypeOK, Working, stores
  <2>2. EffectOnce' /\ Fresh' /\ Unrecorded' /\ Recorded'
    BY <2>1 DEF Once, EffectOnce, Fresh, Unrecorded, Recorded, Working
  <2>3. Accounted'
    BY <2>1 DEF Once, Accounted, Working
  <2> QED
    BY <2>2, <2>3 DEF Once
<1> QED
  BY <1>1, <1>2, <1>3, <1>4, <1>5, <1>6, StepKinds

-----------------------------------------------------------------------------
(***************************************************************************)
(* True answers.                                                           *)
(***************************************************************************)

\* r records s, and if that is not a refusal its value is there.
LEMMA TruthfulRecord ==
    ASSUME TypeOK, Truthful, NEW r \in Slot, NEW s \in Status, Record(r, s),
           UNCHANGED <<ev, body>>, taken \subseteq taken',
           s = "rejected" \/ <<ev[r], body[r]>> \in taken'
    PROVE  Truthful'
<1>1. /\ record'[ev[r]] = [value |-> body[r], status |-> s]
      /\ \A e \in Event \ {ev[r]} : record'[e] = record[e]
      /\ phase' = [phase EXCEPT ![r] = "emit"]
      /\ reply' = [reply EXCEPT ![r] = s]
  BY RecordMoves
<1>2. /\ phase'[r] = "emit" /\ reply'[r] = s
      /\ \A q \in Slot \ {r} : phase'[q] = phase[q] /\ reply'[q] = reply[q]
      /\ ev[r] \in Event /\ body[r] \in Value
  BY <1>1 DEF TypeOK
<1>3. Backed' /\ TrueReply'
  BY <1>2 DEF Truthful, Backed, TrueReply
<1>4. OfValue' /\ TrueRecord'
  BY <1>1, <1>2 DEF Truthful, OfValue, TrueRecord
<1> QED
  BY <1>3, <1>4 DEF Truthful

\* r moves on without a record.
LEMMA TruthfulMove ==
    ASSUME TypeOK, Truthful, NEW r \in Slot, NEW p \in Phase, phase' = [phase EXCEPT ![r] = p],
           UNCHANGED <<ev, body, record>>, taken \subseteq taken',
           \A q \in Slot \ {r} : reply'[q] = reply[q],
           p \in {"classify", "announce"} => <<ev[r], body[r]>> \in taken',
           p \in {"emit", "answered"} /\ reply'[r] # "rejected" => <<ev[r], body[r]>> \in taken'
    PROVE  Truthful'
<1>1. phase'[r] = p /\ \A q \in Slot \ {r} : phase'[q] = phase[q]
  BY DEF TypeOK
<1>2. Backed' /\ TrueReply'
  BY <1>1 DEF Truthful, Backed, TrueReply
<1>3. OfValue' /\ TrueRecord'
  BY <1>1 DEF Truthful, OfValue, TrueRecord
<1> QED
  BY <1>2, <1>3 DEF Truthful

LEMMA TruthfulStep == TypeOK /\ LocksFit /\ Serial /\ Truthful /\ [Next]_vars => Truthful'
<1> SUFFICES ASSUME TypeOK, LocksFit, Serial, Truthful, [Next]_vars PROVE Truthful'
  OBVIOUS
<1>0. "rejected" \in Status /\ "accepted" \in Status /\ "duplicate" \in Status
  BY DEF Status
<1>00. \A p \in {"lookup", "insert", "classify", "announce", "emit", "answered", "waiting", "failed"} :
         p \in Phase
  BY DEF Phase, Working
<1>1. CASE Quiet
  BY <1>1 DEF Quiet, Truthful, Backed, TrueReply, OfValue, TrueRecord
<1>2. ASSUME NEW r \in Slot, Outside(r) PROVE Truthful'
  <2>1. phase'[r] \notin Working /\ (phase'[r] = "answered" => reply'[r] = "rejected")
    BY <1>2 DEF Outside, TypeOK, Working
  <2>2. /\ \A q \in Slot \ {r} : /\ phase'[q] = phase[q] /\ ev'[q] = ev[q]
                                 /\ body'[q] = body[q] /\ reply'[q] = reply[q]
        /\ UNCHANGED <<record, taken>>
    BY <1>2 DEF Outside, TypeOK
  <2> QED
    BY <2>1, <2>2 DEF Truthful, Backed, TrueReply, OfValue, TrueRecord, Working
<1>3. ASSUME NEW r \in Slot, Lookup(r) PROVE Truthful'
  BY <1>0, <1>00, <1>3, TruthfulRecord, TruthfulMove DEF Lookup
<1>4. ASSUME NEW r \in Slot, Insert(r) PROVE Truthful'
  <2>1. CASE Record(r, "duplicate")
    BY <1>0, <1>4, <2>1, TruthfulRecord DEF Insert
  <2>2. CASE phase' = [phase EXCEPT ![r] = "classify"] /\ UNCHANGED <<reply, record>>
    BY <1>00, <1>4, <2>2, TruthfulMove DEF Insert
  <2> QED
    BY <1>4, <2>1, <2>2 DEF Insert
<1>5. ASSUME NEW r \in Slot, Complete(r) PROVE Truthful'
  BY <1>0, <1>5, TruthfulRecord DEF Complete, Truthful, Backed, history
<1>6. ASSUME NEW r \in Slot, Arrive(r) \/ Wake(r) PROVE Truthful'
  <2>1. UNCHANGED <<ev, body>> /\ ev[r] \in Event
    BY <1>6 DEF Arrive, Wake, TypeOK
  <2>2. CASE Handle(r)
    BY <1>0, <1>00, <2>1, <2>2, TruthfulRecord, TruthfulMove DEF Handle, stores
  <2>3. CASE Repeat(r)
    <3>1. Repeated(r) # "rejected" => <<ev[r], body[r]>> \in taken
      BY <2>1, <2>3 DEF Repeat, Repeated, Truthful, TrueRecord
    <3>2. /\ phase' = [phase EXCEPT ![r] = "answered"] /\ UNCHANGED <<record, taken>>
          /\ reply'[r] = Repeated(r) /\ \A q \in Slot \ {r} : reply'[q] = reply[q]
      BY <2>3 DEF Repeat, stores, TypeOK
    <3> QED
      BY <1>00, <2>1, <3>1, <3>2, TruthfulMove
  <2>4. CASE phase' = [phase EXCEPT ![r] = "waiting"] /\ UNCHANGED <<reply, stores, made, taken>>
    BY <1>00, <2>1, <2>4, TruthfulMove DEF stores
  <2> QED
    BY <1>6, <2>2, <2>3, <2>4, Entering
<1>7. ASSUME NEW r \in Slot, Respond(r) PROVE Truthful'
  BY <1>00, <1>7, TruthfulMove DEF Respond, stores, history, Truthful, TrueReply
<1>8. ASSUME NEW r \in Slot, Raise(r) PROVE Truthful'
  BY <1>00, <1>8, TruthfulMove DEF Raise, stores
<1>9. CASE ServiceRestarts
  BY <1>9 DEF ServiceRestarts, stores, TypeOK, Working, Truthful, Backed, TrueReply, OfValue, TrueRecord
<1> QED
  BY <1>1, <1>2, <1>3, <1>4, <1>5, <1>6, <1>7, <1>8, <1>9, StepKinds

-----------------------------------------------------------------------------
(***************************************************************************)
(* Nothing is lost.                                                        *)
(***************************************************************************)

\* r records s: a refusal only of a bad value.
LEMMA KeptRecord ==
    ASSUME TypeOK, Kept, NEW r \in Slot, NEW s \in Status, Record(r, s), phase[r] # "free",
           UNCHANGED <<ev, body, queue, val, forgotten>>, taken \subseteq taken',
           s = "rejected" => body[r] \in Bad
    PROVE  Kept'
<1>1. /\ record'[ev[r]] = [value |-> body[r], status |-> s]
      /\ \A e \in Event \ {ev[r]} : record'[e] = record[e]
      /\ phase' = [phase EXCEPT ![r] = "emit"]
      /\ reply' = [reply EXCEPT ![r] = s]
  BY RecordMoves
<1>2. /\ phase'[r] = "emit" /\ reply'[r] = s
      /\ \A q \in Slot \ {r} : phase'[q] = phase[q] /\ reply'[q] = reply[q]
  BY <1>1 DEF TypeOK
<1>3. SentAsIs' /\ RefusedReply'
  BY <1>2 DEF Kept, SentAsIs, RefusedReply
<1>4. RecordedAsIs' /\ RefusedRecord'
  BY <1>1 DEF Kept, SentAsIs, RecordedAsIs, RefusedRecord, Event
<1>5. NothingLost'
  BY DEF Kept, NothingLost
<1> QED
  BY <1>3, <1>4, <1>5 DEF Kept

\* r moves on without a record.
LEMMA KeptMove ==
    ASSUME TypeOK, Kept, NEW r \in Slot, NEW p \in Phase, phase' = [phase EXCEPT ![r] = p],
           phase[r] # "free",
           UNCHANGED <<ev, body, record, queue, val, forgotten>>, taken \subseteq taken',
           \A q \in Slot \ {r} : reply'[q] = reply[q],
           p \in {"emit", "answered"} /\ reply'[r] = "rejected" /\ ev[r] \in Captured =>
              body[r] \in Bad
    PROVE  Kept'
<1>1. phase'[r] = p /\ \A q \in Slot \ {r} : phase'[q] = phase[q]
  BY DEF TypeOK
<1>2. SentAsIs' /\ RefusedReply'
  BY <1>1 DEF Kept, SentAsIs, RefusedReply
<1>3. RecordedAsIs' /\ RefusedRecord' /\ NothingLost'
  BY DEF Kept, RecordedAsIs, RefusedRecord, NothingLost
<1> QED
  BY <1>2, <1>3 DEF Kept

\* The agent's own steps: it drops an entry only with an answer.
LEMMA KeptAgent == TypeOK /\ Truthful /\ Kept /\ AgentStep => Kept'
<1> SUFFICES ASSUME TypeOK, Truthful, Kept, AgentStep PROVE Kept'
  OBVIOUS
<1> USE DEF wire, locks, stores, history
<1>0. "free" \in Phase
  BY DEF Phase
<1>1. ASSUME NEW e \in Captured, NEW v \in Value, Capture(e, v) PROVE Kept'
  <2>1. val[e] = NoValue /\ NoValue \notin Value
    BY <1>1, DeliveryAssumption DEF Capture
  <2>2. /\ val'[e] = v /\ \A f \in Captured \ {e} : val'[f] = val[f]
        /\ queue' = queue \cup {e}
        /\ UNCHANGED <<phase, ev, body, reply, record, taken, forgotten>>
    BY <1>1 DEF Capture, Save, TypeOK
  <2>3. SentAsIs'
    BY <2>1, <2>2 DEF Kept, SentAsIs, TypeOK
  <2>4. RecordedAsIs'
    BY <2>1, <2>2 DEF Kept, RecordedAsIs, Truthful, OfValue, Event
  <2>5. RefusedRecord' /\ RefusedReply'
    BY <2>2 DEF Kept, RefusedRecord, RefusedReply
  <2>6. NothingLost'
    BY <2>2 DEF Kept, NothingLost
  <2> QED
    BY <2>3, <2>4, <2>5, <2>6 DEF Kept
<1>2. CASE /\ queue' = queue
           /\ UNCHANGED <<val, phase, ev, body, reply, record, taken, forgotten>>
  BY <1>2 DEF Kept, SentAsIs, RecordedAsIs, RefusedRecord, RefusedReply, NothingLost
<1>3. CASE Settled
  <2> DEFINE r == sending
  <2>1. /\ r \in Slot /\ phase[r] = "answered" /\ phase' = [phase EXCEPT ![r] = "free"]
        /\ queue' = queue \ {ev[r]}
        /\ UNCHANGED <<val, ev, body, reply, record, taken, forgotten>>
    BY <1>3 DEF Settled, Save, TypeOK
  <2>2. phase'[r] = "free" /\ \A q \in Slot \ {r} : phase'[q] = phase[q]
    BY <2>1 DEF TypeOK
  <2>3. SentAsIs' /\ RecordedAsIs' /\ RefusedRecord' /\ RefusedReply'
    BY <2>1, <2>2 DEF Kept, SentAsIs, RecordedAsIs, RefusedRecord, RefusedReply
  <2>4. ASSUME ev[r] \in Captured PROVE <<ev[r], val[ev[r]]>> \in taken \/ val[ev[r]] \in Bad
    <3>1. body[r] = val[ev[r]]
      BY <2>1, <2>4 DEF Kept, SentAsIs
    <3>2. CASE reply[r] = "rejected"
      BY <2>1, <2>4, <3>1, <3>2 DEF Kept, RefusedReply
    <3>3. CASE reply[r] # "rejected"
      BY <2>1, <3>1, <3>3 DEF Truthful, TrueReply
    <3> QED
      BY <3>2, <3>3
  <2>5. NothingLost'
    BY <2>1, <2>4 DEF Kept, NothingLost
  <2> QED
    BY <2>3, <2>5 DEF Kept
<1>4. CASE SendFails
  <2>1. /\ sending \in Slot /\ phase[sending] = "failed" /\ phase' = [phase EXCEPT ![sending] = "free"]
        /\ UNCHANGED <<queue, val, ev, body, reply, record, taken, forgotten>>
    BY <1>4 DEF SendFails, MarkFailed, Save, TypeOK
  <2> QED
    BY <1>0, <2>1, KeptMove
<1>5. CASE AgentRestarts
  <2>1. /\ forgotten' = forgotten \cup (queue \ disk) /\ queue' = disk
        /\ UNCHANGED <<val, phase, ev, body, reply, record, taken>>
    BY <1>5 DEF AgentRestarts
  <2> QED
    BY <2>1 DEF Kept, SentAsIs, RecordedAsIs, RefusedRecord, RefusedReply, NothingLost
<1>6. ASSUME NEW e \in Captured, NEW r \in Slot, Send(e, r) PROVE Kept'
  <2>1. /\ phase'[r] = "sent" /\ ev'[r] = e /\ body'[r] = val[e]
        /\ \A q \in Slot \ {r} : phase'[q] = phase[q] /\ ev'[q] = ev[q] /\ body'[q] = body[q]
        /\ UNCHANGED <<queue, val, reply, record, taken, forgotten>>
    BY <1>6 DEF Send, TypeOK
  <2>2. SentAsIs' /\ RefusedReply'
    BY <2>1 DEF Kept, SentAsIs, RefusedReply
  <2>3. RecordedAsIs' /\ RefusedRecord' /\ NothingLost'
    BY <2>1 DEF Kept, RecordedAsIs, RefusedRecord, NothingLost
  <2> QED
    BY <2>2, <2>3 DEF Kept
<1> QED
  BY <1>1, <1>2, <1>3, <1>4, <1>5, <1>6
  DEF AgentStep, Probe, ProbeFails, RetryNow, KickAll, SendTimesOut, MarkFailed, Due, Save

LEMMA KeptStep == TypeOK /\ LocksFit /\ Serial /\ Truthful /\ Kept /\ [Next]_vars => Kept'
<1> SUFFICES ASSUME TypeOK, LocksFit, Serial, Truthful, Kept, [Next]_vars PROVE Kept'
  OBVIOUS
<1>0. "rejected" \in Status /\ "accepted" \in Status /\ "duplicate" \in Status
  BY DEF Status
<1>00. \A p \in {"free", "lookup", "insert", "classify", "announce", "answered", "waiting", "failed"} :
         p \in Phase
  BY DEF Phase, Working
<1> USE DEF agent, wire, locks, stores, history
<1>1. CASE AgentStep
  BY <1>1, KeptAgent
<1>2. CASE UNCHANGED vars \/ (\E u : JobEnds(u)) \/ (\E v : Remove(v))
  BY <1>2 DEF vars, JobEnds, Remove, Kept, SentAsIs, RecordedAsIs, RefusedRecord, RefusedReply,
     NothingLost
<1>3. ASSUME NEW r \in Slot, Lookup(r) \/ Complete(r) PROVE Kept'
  BY <1>0, <1>00, <1>3, KeptRecord, KeptMove DEF Lookup, Complete
<1>4. ASSUME NEW r \in Slot, Insert(r) PROVE Kept'
  <2>1. CASE Record(r, "duplicate")
    BY <1>0, <1>4, <2>1, KeptRecord DEF Insert
  <2>2. CASE phase' = [phase EXCEPT ![r] = "classify"] /\ UNCHANGED <<reply, record>>
    BY <1>00, <1>4, <2>2, KeptMove DEF Insert
  <2> QED
    BY <1>4, <2>1, <2>2 DEF Insert
<1>5. ASSUME NEW r \in Slot, Arrive(r) \/ Wake(r) PROVE Kept'
  <2>1. phase[r] # "free" /\ ev[r] \in Event
        /\ UNCHANGED <<ev, body, queue, val, forgotten>>
    BY <1>5 DEF Arrive, Wake, TypeOK
  <2>2. CASE Handle(r)
    BY <1>0, <1>00, <2>1, <2>2, KeptRecord, KeptMove DEF Handle
  <2>3. CASE Repeat(r)
    <3>1. Repeated(r) = "rejected" /\ ev[r] \in Captured => body[r] \in Bad
      BY <2>1, <2>3 DEF Repeat, Repeated, Kept, SentAsIs, RecordedAsIs, RefusedRecord
    <3>2. /\ phase' = [phase EXCEPT ![r] = "answered"] /\ UNCHANGED <<record, taken>>
          /\ reply'[r] = Repeated(r) /\ \A q \in Slot \ {r} : reply'[q] = reply[q]
      BY <2>3 DEF Repeat, TypeOK
    <3> QED
      BY <1>00, <2>1, <3>1, <3>2, KeptMove
  <2>4. CASE phase' = [phase EXCEPT ![r] = "waiting"] /\ UNCHANGED <<reply, stores, made, taken>>
    BY <1>00, <2>1, <2>4, KeptMove
  <2> QED
    BY <1>5, <2>2, <2>3, <2>4, Entering
<1>6. ASSUME NEW r \in Slot, Respond(r) PROVE Kept'
  BY <1>00, <1>6, KeptMove DEF Respond, Kept, RefusedReply
<1>7. ASSUME NEW r \in Slot, Raise(r) PROVE Kept'
  BY <1>00, <1>7, KeptMove DEF Raise, Working
<1>8. ASSUME NEW r \in Slot, Discarded(r) \/ Lost(r) \/ Invalid(r) PROVE Kept'
  <2>1. CASE Discarded(r)
    BY <1>00, <2>1, KeptMove DEF Discarded
  <2>2. CASE Lost(r)
    BY <1>00, <2>2, KeptMove DEF Lost
  <2>3. CASE Invalid(r)
    <3>1. \A q \in Slot \ {r} : reply'[q] = reply[q]
      BY <2>3 DEF Invalid, TypeOK
    <3> QED
      BY <1>00, <2>3, <3>1, KeptMove DEF Invalid
  <2> QED
    BY <1>8, <2>1, <2>2, <2>3
<1>9. ASSUME NEW r \in Slot, NEW e \in Posted, NEW v \in Value, Post(e, v, r) PROVE Kept'
  <2>1. e \notin Captured
    BY DeliveryAssumption
  <2>2. /\ phase'[r] = "sent" /\ ev'[r] = e
        /\ \A q \in Slot \ {r} : phase'[q] = phase[q] /\ ev'[q] = ev[q] /\ body'[q] = body[q]
        /\ UNCHANGED <<queue, val, reply, record, taken, forgotten>>
    BY <1>9 DEF Post, TypeOK
  <2>3. SentAsIs' /\ RefusedReply'
    BY <2>1, <2>2 DEF Kept, SentAsIs, RefusedReply
  <2>4. RecordedAsIs' /\ RefusedRecord' /\ NothingLost'
    BY <2>2 DEF Kept, RecordedAsIs, RefusedRecord, NothingLost
  <2> QED
    BY <2>3, <2>4 DEF Kept
<1>10. CASE ServiceRestarts
  <2>1. \A q \in Slot : phase'[q] = phase[q] \/ (phase'[q] = "failed" /\ phase[q] # "free")
    BY <1>10 DEF ServiceRestarts, Working, TypeOK
  <2> QED
    BY <1>10, <2>1 DEF ServiceRestarts, Kept, SentAsIs, RecordedAsIs, RefusedRecord, RefusedReply,
       NothingLost
<1> QED
  BY <1>1, <1>2, <1>3, <1>4, <1>5, <1>6, <1>7, <1>8, <1>9, <1>10 DEF Next, ServiceStep

-----------------------------------------------------------------------------
(***************************************************************************)
(* The theorems.                                                           *)
(***************************************************************************)
LEMMA InvInit == Init => DeliveryInv
<1> SUFFICES ASSUME Init PROVE DeliveryInv
  OBVIOUS
<1>1. TypeOK
  BY TypeInit
<1>2. LocksFit
  BY DeliveryAssumption DEF Init, LocksFit, Unlocked, Assigned, Holding, Held, Tabled, OwnLock,
     OneEvent, Working
<1>3. Serial
  BY DEF Init, Serial, TableHolds, FindsRecord, Working
<1>4. Once
  BY DEF Init, Once, EffectOnce, Fresh, Unrecorded, Recorded, Accounted, Working
<1>5. Truthful
  BY DEF Init, Truthful, Backed, TrueReply, OfValue, TrueRecord
<1>6. Kept
  BY DEF Init, Kept, SentAsIs, RecordedAsIs, RefusedRecord, RefusedReply, NothingLost, Event
<1> QED
  BY <1>1, <1>2, <1>3, <1>4, <1>5, <1>6 DEF DeliveryInv

LEMMA InvStep == DeliveryInv /\ [Next]_vars => DeliveryInv'
  BY TypeStep, LocksFitStep, SerialStep, OnceStep, TruthfulStep, KeptStep DEF DeliveryInv

LEMMA InvHolds == Spec => []DeliveryInv
  BY InvInit, InvStep, PTL DEF Spec

\* The variables keep their types, in every instance (services/ingest.py, QueueStore.swift).
THEOREM TypeCorrect == Spec => []TypeOK
<1>1. DeliveryInv => TypeOK
  BY DEF DeliveryInv
<1> QED
  BY <1>1, InvHolds, PTL

\* What the agent captured is queued until the service had it, whatever is lost or restarted
\* (markSent, handle_event).
THEOREM NeverLost == Spec => []NothingLost
<1>1. DeliveryInv => NothingLost
  BY DEF DeliveryInv, Kept
<1> QED
  BY <1>1, InvHolds, PTL

\* An event creates at most one row or job, however often and however concurrently it is sent
\* and however full the table of locks is, as long as none of its handlers was cut off
\* (handle_event, _event_lock).
THEOREM AtMostOnce == Spec => []EffectOnce
<1>1. DeliveryInv => EffectOnce
  BY DEF DeliveryInv, Once
<1> QED
  BY <1>1, InvHolds, PTL

\* An answer that says accepted or duplicate is true of the value it answers
\* (_handle_event_once).
THEOREM AnswersTrue == Spec => []AnswerTrue
<1>1. DeliveryInv => AnswerTrue
  BY DEF DeliveryInv, Truthful, TrueReply, AnswerTrue
<1> QED
  BY <1>1, InvHolds, PTL

\* A record is never overwritten as long as no handler of its event was cut off
\* (_handle_event_once, record_event).
THEOREM RecordsKept == Spec => RecordKept
<1> DEFINE Same == \A e \in Event : record[e] # NoRecord => record'[e] = record[e] \/ e \in cut
<1>1. ASSUME DeliveryInv, [Next]_vars PROVE Same
  <2> USE DEF stores, history
  <2>0. "rejected" \in Status /\ "accepted" \in Status /\ "duplicate" \in Status
    BY DEF Status
  <2>1. ASSUME NEW r \in Slot, NEW s \in Status, Record(r, s),
               record[ev[r]] = NoRecord \/ ev[r] \in cut
        PROVE  Same
    <3>1. \A e \in Event \ {ev[r]} : record'[e] = record[e]
      BY <1>1, <2>1, RecordMoves DEF DeliveryInv
    <3> QED
      BY <2>1, <3>1
  <2>2. CASE record' = record
    BY <2>2
  <2>3. ASSUME NEW r \in Slot, Arrive(r) \/ Wake(r) PROVE Same
    <3>1. CASE Handle(r)
      <4>1. record[ev[r]] = NoRecord
        BY <1>1, <3>1, HandleMoves DEF DeliveryInv
      <4> QED
        BY <2>0, <2>1, <2>2, <3>1, <4>1 DEF Handle
    <3>2. CASE record' = record
      BY <2>2, <3>2
    <3> QED
      BY <1>1, <2>3, <3>1, <3>2, Entering DEF DeliveryInv, Repeat
  <2>4. ASSUME NEW r \in Slot, Lookup(r) \/ Insert(r) \/ Complete(r) PROVE Same
    <3>1. phase[r] \in Working \ {"emit"}
      BY <2>4 DEF Lookup, Insert, Complete, Working
    <3>2. record[ev[r]] = NoRecord \/ ev[r] \in cut
      BY <1>1, <3>1 DEF DeliveryInv, Once, Unrecorded
    <3> QED
      BY <2>0, <2>1, <2>2, <2>4, <3>2 DEF Lookup, Insert, Complete
  <2>5. ASSUME NEW r \in Slot, Outside(r) \/ Respond(r) \/ Raise(r) PROVE record' = record
    BY <2>5 DEF Outside, Respond, Raise
  <2>6. CASE Quiet \/ ServiceRestarts
    BY <2>2, <2>6 DEF Quiet, ServiceRestarts
  <2> QED
    BY <1>1, <2>2, <2>3, <2>4, <2>5, <2>6, StepKinds DEF DeliveryInv
<1>2. DeliveryInv /\ [Next]_vars => [Same]_vars
  BY <1>1
<1> QED
  BY <1>2, InvHolds, PTL DEF Spec, RecordKept

-----------------------------------------------------------------------------
(***************************************************************************)
(* The ledger: every step of the delivery is a step of it, or leaves the    *)
(* queue, the effects and the records as they are.                         *)
(***************************************************************************)

\* A value to be refused is never in the stores.
GoodTaken == \A e \in Event, v \in Bad : <<e, v>> \notin taken

LEMMA GoodTakenStep == TypeOK /\ GoodTaken /\ [Next]_vars => GoodTaken'
<1> SUFFICES ASSUME TypeOK, GoodTaken, [Next]_vars PROVE GoodTaken'
  OBVIOUS
<1> USE DEF stores, history
<1>1. ASSUME NEW r \in Slot, body[r] \notin Bad,
             taken' = taken \/ taken' = taken \cup {<<ev[r], body[r]>>}
      PROVE  GoodTaken'
  <2>1. ASSUME NEW e \in Event, NEW v \in Bad PROVE <<e, v>> \notin taken'
    <3>1. <<e, v>> \notin taken /\ v # body[r]
      BY <1>1 DEF GoodTaken
    <3> QED
      BY <1>1, <3>1
  <2> QED
    BY <2>1 DEF GoodTaken
<1>2. CASE taken' = taken
  BY <1>2 DEF GoodTaken
<1>3. ASSUME NEW r \in Slot, Handle(r) \/ Repeat(r)
      PROVE  taken' = taken \/ (taken' = taken \cup {<<ev[r], body[r]>>} /\ body[r] \in Address)
  BY <1>3 DEF Handle, Repeat, TypeOK
<1>4. ASSUME NEW r \in Slot, Arrive(r) \/ Wake(r) PROVE GoodTaken'
  <2>1. (\E l \in Lock : Acquire(r, l)) \/ Handle(r) \/ Repeat(r)
    BY <1>4 DEF Arrive, Wake, TypeOK
  <2>2. taken' = taken \/ Handle(r) \/ Repeat(r)
    BY <2>1 DEF Acquire, Enter
  <2> QED
    BY <1>1, <1>2, <1>3, <2>2, DeliveryAssumption
<1>5. ASSUME NEW r \in Slot, Lookup(r) \/ Insert(r) PROVE GoodTaken'
  <2>1. body[r] \notin Bad
    BY <1>5, DeliveryAssumption DEF Lookup, Insert, TypeOK
  <2> QED
    BY <1>1, <1>5, <2>1 DEF Lookup, Insert
<1>6. ASSUME NEW r \in Slot, Complete(r) \/ Respond(r) \/ Raise(r) PROVE taken' = taken
  BY <1>6 DEF Complete, Respond, Raise
<1>7. CASE Quiet \/ (\E r \in Slot : Outside(r)) \/ ServiceRestarts
  BY <1>2, <1>7 DEF Quiet, Outside, ServiceRestarts
<1> QED
  BY <1>2, <1>4, <1>5, <1>6, <1>7, StepKinds

\* What the ledger may not see.
Unseen == UNCHANGED <<val, queue, forgotten, taken, made, record, cut>>

\* A request carries a value that its event may have.
LEMMA Carried ==
    ASSUME DeliveryInv, NEW r \in Slot, phase[r] # "free"
    PROVE  ev[r] \in Event /\ body[r] \in Value /\ Ledger!Carries(ev[r], body[r])
BY DEF DeliveryInv, TypeOK, Kept, SentAsIs, Ledger!Carries

\* r records its event.
LEMMA LedgerAnswer ==
    ASSUME DeliveryInv, NEW r \in Slot, NEW s \in Status, phase[r] # "free", Record(r, s),
           record[ev[r]] = NoRecord \/ ev[r] \in cut,
           \/ s = "rejected" /\ body[r] \in Bad /\ taken' = taken
           \/ s # "rejected" /\ body[r] \notin Bad /\ taken' = taken \cup {<<ev[r], body[r]>>},
           UNCHANGED <<val, queue, forgotten, made, cut>>
    PROVE  Ledger!Next
<1>1. ev[r] \in Event /\ body[r] \in Value /\ Ledger!Carries(ev[r], body[r])
  BY Carried
<1>2. Ledger!Undone(ev[r])
  BY DEF Ledger!Undone, Ledger!NoRecord, NoRecord
<1>3. s \in {"accepted", "duplicate", "rejected"}
  BY DEF Status
<1>4. Ledger!Answer(ev[r], body[r], s)
  BY <1>1, <1>2, <1>3 DEF Ledger!Answer, Record
<1> QED
  BY <1>1, <1>3, <1>4 DEF Ledger!Next

\* r creates a row or a job.
LEMMA LedgerCreate ==
    ASSUME DeliveryInv, NEW r \in Slot, phase[r] # "free", body[r] \notin Bad,
           record[ev[r]] = NoRecord \/ ev[r] \in cut,
           made[ev[r]] = 0 \/ ev[r] \in cut,
           made' = [made EXCEPT ![ev[r]] = @ + 1],
           taken' = taken \cup {<<ev[r], body[r]>>},
           UNCHANGED <<val, queue, forgotten, record, cut>>
    PROVE  Ledger!Next
<1>1. ev[r] \in Event /\ body[r] \in Value /\ Ledger!Carries(ev[r], body[r])
  BY Carried
<1>2. Ledger!Undone(ev[r])
  BY DEF Ledger!Undone, Ledger!NoRecord, NoRecord
<1>3. Ledger!Create(ev[r], body[r])
  BY <1>1, <1>2 DEF Ledger!Create
<1> QED
  BY <1>1, <1>3 DEF Ledger!Next

\* The agent lets go of an entry only with an answer to it.
LEMMA LedgerAgent ==
    ASSUME DeliveryInv, AgentStep
    PROVE  Unseen \/ Ledger!Next
<1> USE DEF wire, locks, stores, history
<1>1. ASSUME NEW e \in Captured, NEW v \in Value, Capture(e, v) PROVE Ledger!Next
  <2>1. Ledger!Capture(e, v)
    BY <1>1 DEF Capture, Save, Ledger!Capture
  <2> QED
    BY <2>1 DEF Ledger!Next
<1>2. CASE Settled
  <2> DEFINE e == ev[sending]
  <2>1. /\ sending \in Slot /\ phase[sending] = "answered"
        /\ queue' = queue \ {e}
        /\ UNCHANGED <<val, forgotten, taken, made, record, cut>>
    BY <1>2 DEF Settled, Save, DeliveryInv, TypeOK
  <2>2. CASE e \notin queue
    BY <2>1, <2>2 DEF Unseen
  <2>3. CASE e \in queue
    <3>1. e \in Captured
      BY <2>3 DEF DeliveryInv, TypeOK
    <3>2. body[sending] = val[e]
      BY <2>1, <3>1 DEF DeliveryInv, Kept, SentAsIs
    <3>3. <<e, val[e]>> \in taken \/ val[e] \in Bad
      <4>1. CASE reply[sending] = "rejected"
        BY <2>1, <3>1, <3>2, <4>1 DEF DeliveryInv, Kept, RefusedReply
      <4>2. CASE reply[sending] # "rejected"
        BY <2>1, <3>2, <4>2 DEF DeliveryInv, Truthful, TrueReply
      <4> QED
        BY <4>1, <4>2
    <3>4. Ledger!Settle(e)
      BY <2>1, <2>3, <3>3 DEF Ledger!Settle
    <3> QED
      BY <3>1, <3>4 DEF Ledger!Next
  <2> QED
    BY <2>2, <2>3
<1>3. CASE AgentRestarts
  <2>1. disk \subseteq {e \in Captured : val[e] # NoValue}
    BY DEF DeliveryInv, TypeOK
  <2>2. Ledger!Reload
    BY <1>3, <2>1 DEF AgentRestarts, Ledger!Reload
  <2> QED
    BY <2>2 DEF Ledger!Next
<1>4. CASE Probe \/ ProbeFails \/ RetryNow \/ SendFails \/ SendTimesOut
  BY <1>4 DEF Probe, ProbeFails, RetryNow, KickAll, SendFails, SendTimesOut, MarkFailed, Save, Unseen
<1>5. ASSUME NEW e \in Captured, Due(e) \/ \E r \in Slot : Send(e, r) PROVE Unseen
  BY <1>5 DEF Due, Send, Unseen
<1> QED
  BY <1>1, <1>2, <1>3, <1>4, <1>5 DEF AgentStep

\* A request that arrives or wakes up: the handler up to its first await.
LEMMA LedgerEnter ==
    ASSUME DeliveryInv, NEW r \in Slot, Arrive(r) \/ Wake(r)
    PROVE  Unseen \/ Ledger!Next
<1> USE DEF agent, stores
<1>0. "rejected" \in Status /\ "accepted" \in Status
  BY DEF Status
<1>1. phase[r] # "free" /\ UNCHANGED <<val, queue, forgotten, cut>>
  BY DEF Arrive, Wake
<1>2. ASSUME Handle(r), ev[r] \in cut \/ \A q \in Slot : phase[q] \in Working => ev[q] # ev[r]
      PROVE  Unseen \/ Ledger!Next
  <2>1. record[ev[r]] = NoRecord
    BY <1>2, HandleMoves DEF DeliveryInv
  <2>2. made[ev[r]] = 0 \/ ev[r] \in cut
    BY <1>2, <2>1 DEF DeliveryInv, TypeOK, Once, Accounted, Working
  <2>3. body[r] \in Address => body[r] \notin Bad
    BY DeliveryAssumption
  <2>4. CASE body[r] \in Bad /\ Record(r, "rejected") /\ UNCHANGED <<made, taken>>
    BY <1>0, <1>1, <2>1, <2>4, LedgerAnswer
  <2>5. CASE UNCHANGED <<record, made, taken>>
    BY <1>1, <2>5 DEF Unseen
  <2>6. CASE /\ body[r] \in Address /\ Record(r, "accepted")
             /\ taken' = taken \cup {<<ev[r], body[r]>>}
             /\ made' = made
    BY <1>0, <1>1, <2>1, <2>3, <2>6, LedgerAnswer
  <2>7. CASE /\ body[r] \in Address
             /\ made' = [made EXCEPT ![ev[r]] = @ + 1]
             /\ taken' = taken \cup {<<ev[r], body[r]>>}
             /\ record' = record
    BY <1>1, <2>1, <2>2, <2>3, <2>7, LedgerCreate
  <2>8. active \subseteq Address
    BY DEF DeliveryInv, TypeOK
  <2> QED
    BY <1>2, <2>4, <2>5, <2>6, <2>7, <2>8 DEF Handle
<1>3. CASE Repeat(r) \/ UNCHANGED <<reply, stores, made, taken>>
  BY <1>1, <1>3 DEF Repeat, Unseen
<1> QED
  BY <1>2, <1>3, Entering DEF DeliveryInv

LEMMA LedgerStep == DeliveryInv /\ GoodTaken /\ [Next]_vars => [Ledger!Next]_(Ledger!vars)
<1> SUFFICES ASSUME DeliveryInv, GoodTaken, [Next]_vars PROVE Unseen \/ Ledger!Next
  BY DEF Unseen, Ledger!vars
<1> USE DEF agent, wire, locks, stores, history
<1>0. "accepted" \in Status /\ "duplicate" \in Status
  BY DEF Status
<1>1. ASSUME NEW r \in Slot, Lookup(r) \/ Insert(r) \/ Complete(r) PROVE Unseen \/ Ledger!Next
  <2>1. /\ phase[r] \in Working \ {"emit"} /\ phase[r] # "free"
        /\ UNCHANGED <<val, queue, forgotten, cut>>
    BY <1>1 DEF Lookup, Insert, Complete, Working
  <2>2. record[ev[r]] = NoRecord \/ ev[r] \in cut
    BY <2>1 DEF DeliveryInv, Once, Unrecorded
  <2>3. CASE Lookup(r) \/ Insert(r)
    <3>1. body[r] \notin Bad /\ phase[r] \in {"lookup", "insert"}
      BY <2>3, DeliveryAssumption DEF Lookup, Insert, DeliveryInv, TypeOK
    <3>2. made[ev[r]] = 0 \/ ev[r] \in cut
      BY <3>1 DEF DeliveryInv, Once, Fresh
    <3>3. CASE /\ Record(r, "duplicate") /\ taken' = taken \cup {<<ev[r], body[r]>>}
               /\ made' = made
      BY <1>0, <2>1, <2>2, <3>1, <3>3, LedgerAnswer
    <3>4. CASE /\ made' = [made EXCEPT ![ev[r]] = @ + 1]
               /\ taken' = taken \cup {<<ev[r], body[r]>>}
               /\ record' = record
      BY <2>1, <2>2, <3>1, <3>2, <3>4, LedgerCreate
    <3>5. CASE UNCHANGED <<record, made, taken>>
      BY <2>1, <3>5 DEF Unseen
    <3> QED
      BY <2>3, <3>3, <3>4, <3>5 DEF Lookup, Insert
  <2>4. CASE Complete(r)
    <3>1. /\ Record(r, "accepted") /\ UNCHANGED <<made, taken>>
          /\ <<ev[r], body[r]>> \in taken
      BY <2>4 DEF Complete, DeliveryInv, Truthful, Backed
    <3>2. body[r] \notin Bad /\ taken' = taken \cup {<<ev[r], body[r]>>}
      BY <3>1 DEF GoodTaken, DeliveryInv, TypeOK
    <3> QED
      BY <1>0, <2>1, <2>2, <3>1, <3>2, LedgerAnswer
  <2> QED
    BY <1>1, <2>3, <2>4
<1>2. ASSUME NEW r \in Slot, Raise(r) PROVE Ledger!CutOff
  BY <1>2 DEF Raise, Ledger!CutOff, DeliveryInv, TypeOK
<1>3. CASE ServiceRestarts
  <2>1. Ledger!CutOff
    BY <1>3 DEF ServiceRestarts, Ledger!CutOff, DeliveryInv, TypeOK
  <2> QED
    BY <2>1 DEF Ledger!Next
<1>4. ASSUME NEW r \in Slot, NEW e \in Posted, NEW v \in Value,
             Respond(r) \/ Discarded(r) \/ Lost(r) \/ Invalid(r) \/ Post(e, v, r)
      PROVE  Unseen
  BY <1>4 DEF Respond, Discarded, Lost, Invalid, Post, Unseen
<1>5. ASSUME NEW r \in Slot, Respond(r) \/ Discarded(r) \/ Lost(r) \/ Invalid(r) PROVE Unseen
  BY <1>5 DEF Respond, Discarded, Lost, Invalid, Unseen
<1>6. CASE UNCHANGED vars \/ (\E u \in Address : JobEnds(u)) \/ (\E v \in Magnet : Remove(v))
  BY <1>6 DEF vars, JobEnds, Remove, Unseen
<1>7. ASSUME NEW r \in Slot, ServiceStep(r) PROVE Unseen \/ Ledger!Next
  BY <1>1, <1>2, <1>4, <1>5, <1>7, LedgerEnter DEF ServiceStep, Ledger!Next
<1> QED
  BY <1>3, <1>6, <1>7, LedgerAgent DEF Next

\* The delivery implements the ledger: with any number of events, requests and locks, losses,
\* faults and restarts, an entry is let go of when it was taken or refused, and nothing is done or
\* recorded twice but for an event with a handler that was cut off (handle_event, markSent,
\* markFailed).
THEOREM DeliveryImplementsLedger == Spec => ImplementsLedger
<1>1. Init => Ledger!Init /\ GoodTaken
  BY DEF Init, Ledger!Init, NoRecord, Ledger!NoRecord, GoodTaken
<1>2. DeliveryInv => TypeOK
  BY DEF DeliveryInv
<1>3. Spec => []GoodTaken
  BY <1>1, <1>2, GoodTakenStep, InvHolds, PTL DEF Spec
<1> QED
  BY <1>1, <1>3, LedgerStep, InvHolds, PTL DEF Spec, ImplementsLedger, Ledger!Spec
=============================================================================
