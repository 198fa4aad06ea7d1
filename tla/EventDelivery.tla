---------------------------- MODULE EventDelivery ----------------------------
(***************************************************************************)
(* From the clipboard of the Mac to the library: the agent's persistent     *)
(* queue (AgentCore.swift, QueueStore.swift), a network that loses requests *)
(* and answers, and IngestService.handle_event (services/ingest.py) with    *)
(* its table of locks and its records of the events it has processed.       *)
(*                                                                         *)
(* The agent changes its state on one dispatch queue, so each of its        *)
(* handlers is one action, with the save of the file at its end.  The       *)
(* service is one event loop: the steps between two awaits are one action.  *)
(***************************************************************************)
EXTENDS Naturals, FiniteSets

CONSTANTS
    Captured,          \* event ids of the agent, fresh for each capture
    Posted,            \* event ids another client of the API chooses itself
    Magnet,            \* values with an infohash
    Address,           \* values that are addresses to crawl
    Bad,               \* values the service refuses
    NoValue,           \* the value of an id not used yet
    Slot,              \* requests on their way or at the service
    NoSlot,
    Lock,              \* lock objects
    NoLock,
    MaxLocks,          \* _MAX_EVENT_LOCKS (1024 in the code)
    MaxEvents,         \* bound on captures, losses, faults and restarts
    StoreMayFail       \* TRUE: a call of a store, or the agent's save, may fail

Event == Captured \cup Posted
Value == Magnet \cup Address \cup Bad

ASSUME DeliveryAssumption ==
    /\ Captured \cap Posted = {}
    /\ Magnet \cap Address = {} /\ Magnet \cap Bad = {} /\ Address \cap Bad = {}
    /\ Event # {} /\ Value # {}
    /\ NoValue \notin Value
    /\ NoSlot \notin Slot
    /\ NoLock \notin Lock
    /\ MaxLocks \in Nat \ {0}
    /\ MaxEvents \in Nat
    /\ StoreMayFail \in BOOLEAN

VARIABLES
    queue,             \* ids of the entries in the agent's memory
    disk,              \* ids of the entries in its file
    val,               \* val[e]: the value of entry e
    delayed,           \* entries whose nextAttemptAt has not come
    online,            \* the agent believes the service can be reached
    sending,           \* the request the agent waits for (inFlightSend)
    phase,             \* phase[r]: where request r stands
    ev,                \* ev[r]: its event id
    body,              \* body[r]: its value
    reply,             \* reply[r]: the status in its answer
    lockOf,            \* _event_locks
    holder,            \* holder[l]: the request that has locked l
    lock,              \* lock[r]: the lock r holds or waits for
    library,           \* infohashes in the item store
    active,            \* addresses with a job that is queued or running
    record,            \* record[e]: the row of e in ingest_events
    made,              \* made[e]: rows and jobs created for e (history)
    taken,             \* the events and values the service has in its stores, or had (history)
    cut,               \* events with a handler that did not come to its end (history)
    forgotten,         \* entries lost in a restart because a save had failed (history)
    events             \* how many bounded events have happened

agent   == <<queue, disk, val, delayed, online, sending>>
wire    == <<phase, ev, body, reply>>
locks   == <<lockOf, holder, lock>>
stores  == <<library, active, record>>
history == <<made, taken, cut, forgotten>>
vars == <<agent, wire, locks, stores, history, events>>

\* Where a request stands:
\*   sent      on its way
\*   waiting   waits for the lock of its event
\*   lookup    reads the row of its infohash
\*   insert    found none, is about to insert it
\*   classify  inserted, is being classified
\*   announce  created a job, in _emit_job
\*   emit      recorded, in the last emit
\*   answered  its answer is on the way
\*   failed    the connection broke, or the answer is an error
Working == {"lookup", "insert", "classify", "announce", "emit"}
Phase == Working \cup {"free", "sent", "waiting", "answered", "failed"}

Status == {"accepted", "duplicate", "rejected"}

NoRecord == [value |-> NoValue, status |-> "rejected"]

TypeOK ==
    /\ val \in [Captured -> Value \cup {NoValue}]
    /\ queue \cup disk \subseteq {e \in Captured : val[e] # NoValue}
    /\ delayed \subseteq Captured
    /\ online \in BOOLEAN
    /\ sending \in Slot \cup {NoSlot}
    /\ phase \in [Slot -> Phase]
    /\ ev \in [Slot -> Event]
    /\ body \in [Slot -> Value]
    /\ \A r \in Slot : phase[r] \in {"lookup", "insert"} => body[r] \in Magnet
    /\ reply \in [Slot -> Status]
    /\ lockOf \in [Event -> Lock \cup {NoLock}]
    /\ holder \in [Lock -> Slot \cup {NoSlot}]
    /\ lock \in [Slot -> Lock \cup {NoLock}]
    /\ library \subseteq Magnet
    /\ active \subseteq Address
    /\ record \in [Event -> [value : Value \cup {NoValue}, status : Status]]
    /\ made \in [Event -> Nat]
    /\ taken \subseteq Event \X Value
    /\ cut \subseteq Event
    /\ forgotten \subseteq Captured
    /\ events \in 0..MaxEvents

Init ==
    /\ queue = {} /\ disk = {} /\ delayed = {}
    /\ val = [e \in Captured |-> NoValue]
    /\ online = FALSE
    /\ sending = NoSlot
    /\ phase = [r \in Slot |-> "free"]
    /\ ev = [r \in Slot |-> CHOOSE e \in Event : TRUE]
    /\ body = [r \in Slot |-> CHOOSE v \in Value : TRUE]
    /\ reply = [r \in Slot |-> "rejected"]
    /\ lockOf = [e \in Event |-> NoLock]
    /\ holder = [l \in Lock |-> NoSlot]
    /\ lock = [r \in Slot |-> NoLock]
    /\ library = {} /\ active = {}
    /\ record = [e \in Event |-> NoRecord]
    /\ made = [e \in Event |-> 0]
    /\ taken = {} /\ cut = {} /\ forgotten = {}
    /\ events = 0

Happens ==
    /\ events < MaxEvents
    /\ events' = events + 1

-----------------------------------------------------------------------------
(***************************************************************************)
(* The agent.                                                              *)
(***************************************************************************)

\* QueueStore.save at the end of a handler that leaves the entries q: the whole file is
\* replaced, or, if that fails, stays as it was, and nobody is told.
Save(q) ==
    /\ queue' = q
    /\ disk' = q \/ (StoreMayFail /\ disk' = disk)

\* pollPasteboard and shouldAccept: a value that is not queued, with a fresh id.  A value seen
\* less than dedupeWindow ago is ignored; here any capture may be, for it need not happen.
Capture(e, v) ==
    /\ Happens
    /\ val[e] = NoValue
    /\ v \in Magnet => \A f \in queue : val[f] # v
    /\ Save(queue \cup {e})
    /\ val' = [val EXCEPT ![e] = v]
    /\ UNCHANGED <<delayed, online, sending, wire, locks, stores, history>>

\* kickAll: every entry may be sent at once.
KickAll ==
    /\ delayed' = {}
    /\ Save(queue)

\* A probe of the service succeeds after an outage.
Probe ==
    /\ ~ online
    /\ online' = TRUE
    /\ KickAll
    /\ UNCHANGED <<val, sending, wire, locks, stores, history, events>>

\* retryNow: the user wants every entry sent again now.
RetryNow ==
    /\ KickAll
    /\ UNCHANGED <<val, online, sending, wire, locks, stores, history, events>>

\* A probe fails.
ProbeFails ==
    /\ Happens
    /\ online
    /\ online' = FALSE
    /\ UNCHANGED <<queue, disk, val, delayed, sending, wire, locks, stores, history>>

\* nextAttemptAt has come.
Due(e) ==
    /\ e \in delayed
    /\ delayed' = delayed \ {e}
    /\ UNCHANGED <<queue, disk, val, online, sending, wire, locks, stores, history, events>>

\* maybeSend: one entry that is due.
Send(e, r) ==
    /\ sending = NoSlot
    /\ online
    /\ e \in queue \ delayed
    /\ phase[r] = "free"
    /\ sending' = r
    /\ phase' = [phase EXCEPT ![r] = "sent"]
    /\ ev' = [ev EXCEPT ![r] = e]
    /\ body' = [body EXCEPT ![r] = val[e]]
    /\ UNCHANGED <<queue, disk, val, delayed, online, reply, locks, stores, history, events>>

\* markSent: the service has answered, or refused the request with 400, 404 or 422.
Settled ==
    /\ sending # NoSlot
    /\ phase[sending] = "answered"
    /\ Save(queue \ {ev[sending]})
    /\ phase' = [phase EXCEPT ![sending] = "free"]
    /\ sending' = NoSlot
    /\ delayed' = delayed \ {ev[sending]}
    /\ UNCHANGED <<val, online, ev, body, reply, locks, stores, history, events>>

\* Mutant: inFlightSend stays set after a failure.
MarkFailed_InFlight(on) ==
    /\ Save(queue)
    /\ delayed' = delayed \cup ({ev[sending]} \cap queue)
    /\ online' = on
    /\ UNCHANGED <<val, sending, ev, body, reply, locks, stores, history>>

\* markFailed: the entry stays, for later.  on: the agent still believes it is online.
MarkFailed(on) ==
    /\ Save(queue)
    /\ delayed' = delayed \cup ({ev[sending]} \cap queue)
    /\ online' = on
    /\ sending' = NoSlot
    /\ UNCHANGED <<val, ev, body, reply, locks, stores, history>>

\* Mutant: every failure takes the entry off the queue.
SendFails_Drops ==
    /\ sending # NoSlot
    /\ phase[sending] = "failed"
    /\ phase' = [phase EXCEPT ![sending] = "free"]
    /\ Save(queue \ {ev[sending]})
    /\ sending' = NoSlot
    /\ UNCHANGED <<val, delayed, online, ev, body, reply, locks, stores, history, events>>

\* The connection broke (the agent is offline now), or the answer is an error (it is not).
SendFails ==
    /\ sending # NoSlot
    /\ phase[sending] = "failed"
    /\ phase' = [phase EXCEPT ![sending] = "free"]
    /\ \E on \in {online, FALSE} : MarkFailed(on)
    /\ UNCHANGED events

\* The time of the request is over: the service may still be working on it, or its answer
\* may still be on the way.
SendTimesOut ==
    /\ Happens
    /\ sending # NoSlot
    /\ MarkFailed(FALSE)
    /\ UNCHANGED phase

\* The agent ends and starts again, with what its file says.
AgentRestarts ==
    /\ Happens
    /\ queue' = disk
    /\ forgotten' = forgotten \cup (queue \ disk)
    /\ delayed' = {}
    /\ online' = FALSE
    /\ sending' = NoSlot
    /\ UNCHANGED <<disk, val, wire, locks, stores, made, taken, cut>>

\* Nobody reads this answer any more.
Discarded(r) ==
    /\ r # sending
    /\ phase[r] \in {"answered", "failed"}
    /\ phase' = [phase EXCEPT ![r] = "free"]
    /\ UNCHANGED <<agent, ev, body, reply, locks, stores, history, events>>

\* A request on its way is lost, or refused with an error that passes.
Lost(r) ==
    /\ Happens
    /\ phase[r] = "sent"
    /\ phase' = [phase EXCEPT ![r] = "failed"]
    /\ UNCHANGED <<agent, ev, body, reply, locks, stores, history>>

\* Another client posts a value under an id of its own, perhaps one it has used before.
Post(e, v, r) ==
    /\ Happens
    /\ phase[r] = "free"
    /\ phase' = [phase EXCEPT ![r] = "sent"]
    /\ ev' = [ev EXCEPT ![r] = e]
    /\ body' = [body EXCEPT ![r] = v]
    /\ UNCHANGED <<agent, reply, locks, stores, history>>

\* The request is refused before the handler: a value the model of the request does not let
\* through.  The agent takes any 400, 404 or 422 for such an answer and lets the entry go; the
\* service gives one to a bad value only, and nobody else answers here.
Invalid(r) ==
    /\ phase[r] = "sent"
    /\ body[r] \in Bad
    /\ phase' = [phase EXCEPT ![r] = "answered"]
    /\ reply' = [reply EXCEPT ![r] = "rejected"]
    /\ UNCHANGED <<agent, ev, body, locks, stores, history, events>>

-----------------------------------------------------------------------------
(***************************************************************************)
(* The service: handle_event.                                              *)
(***************************************************************************)

\* Mutant: the content of the request is not compared with the record's.
Repeated_AnyContent(r) ==
    LET first == record[ev[r]] IN IF first.status = "accepted" THEN "duplicate" ELSE first.status

\* The answer of a request that was recorded before: the first one, marked as repeated.
Repeated(r) ==
    LET first == record[ev[r]] IN
        IF first.value # body[r] THEN "rejected"
        ELSE IF first.status = "accepted" THEN "duplicate" ELSE first.status

\* record_event, and on to the last emit.
Record(r, s) ==
    /\ record' = [record EXCEPT ![ev[r]] = [value |-> body[r], status |-> s]]
    /\ reply' = [reply EXCEPT ![r] = s]
    /\ phase' = [phase EXCEPT ![r] = "emit"]

\* _handle_event_once up to its first await, for an event not recorded yet: a value that is
\* refused, an infohash to look up, an address with a job already, or one that gets a job.
Handle(r) ==
    /\ record[ev[r]] = NoRecord
    /\ \/ /\ body[r] \in Bad
          /\ Record(r, "rejected")
          /\ UNCHANGED <<library, active, made, taken>>
       \/ /\ body[r] \in Magnet
          /\ phase' = [phase EXCEPT ![r] = "lookup"]
          /\ UNCHANGED <<reply, stores, made, taken>>
       \/ /\ body[r] \in active
          /\ Record(r, "accepted")
          /\ taken' = taken \cup {<<ev[r], body[r]>>}
          /\ UNCHANGED <<library, active, made>>
       \/ /\ body[r] \in Address \ active
          /\ active' = active \cup {body[r]}
          /\ made' = [made EXCEPT ![ev[r]] = @ + 1]
          /\ taken' = taken \cup {<<ev[r], body[r]>>}
          /\ phase' = [phase EXCEPT ![r] = "announce"]
          /\ UNCHANGED <<reply, library, record>>

\* The event was recorded: answered without an await, the lock is free again at once.
Repeat(r) ==
    /\ record[ev[r]] # NoRecord
    /\ reply' = [reply EXCEPT ![r] = Repeated(r)]
    /\ phase' = [phase EXCEPT ![r] = "answered"]
    /\ UNCHANGED <<stores, made, taken>>

Waiting(l) == {r \in Slot : phase[r] = "waiting" /\ lock[r] = l}

\* With l in hand, which is neither locked nor waited for.
Enter(r, l) ==
    \/ /\ Handle(r)
       /\ holder' = [holder EXCEPT ![l] = r]
       /\ lock' = [lock EXCEPT ![r] = l]
    \/ /\ Repeat(r)
       /\ UNCHANGED <<holder, lock>>

\* asyncio.Lock.acquire: a lock that is locked, or that somebody waits for, is waited for.
Acquire(r, l) ==
    \/ /\ holder[l] = NoSlot /\ Waiting(l) = {}
       /\ Enter(r, l)
    \/ /\ holder[l] # NoSlot \/ Waiting(l) # {}
       /\ phase' = [phase EXCEPT ![r] = "waiting"]
       /\ lock' = [lock EXCEPT ![r] = l]
       /\ UNCHANGED <<reply, holder, stores, made, taken>>

\* Mutant: a lock that is held may be evicted.
Evictable_Held == {e \in Event : lockOf[e] # NoLock}

\* The entries of a full table that may be evicted: the code takes the oldest one that is
\* not locked, here any.
Evictable == {e \in Event : lockOf[e] # NoLock /\ holder[lockOf[e]] = NoSlot}
Full == Cardinality({e \in Event : lockOf[e] # NoLock}) >= MaxLocks

Unreferenced(l) ==
    /\ \A e \in Event : lockOf[e] # l
    /\ \A r \in Slot : lock[r] # l

\* The request arrives: _event_lock, then the lock.
Arrive(r) ==
    /\ phase[r] = "sent"
    /\ \/ /\ lockOf[ev[r]] # NoLock
          /\ Acquire(r, lockOf[ev[r]])
          /\ UNCHANGED lockOf
       \/ /\ lockOf[ev[r]] = NoLock
          /\ \E l \in Lock :
                /\ Unreferenced(l)
                /\ Acquire(r, l)
                /\ \/ /\ Full
                      /\ \E e \in Evictable :
                            lockOf' = [lockOf EXCEPT ![e] = NoLock, ![ev[r]] = l]
                   \/ /\ ~Full \/ Evictable = {}
                      /\ lockOf' = [lockOf EXCEPT ![ev[r]] = l]
    /\ UNCHANGED <<agent, ev, body, cut, forgotten, events>>

\* The lock was released and this waiter runs.
Wake(r) ==
    /\ phase[r] = "waiting"
    /\ holder[lock[r]] = NoSlot
    /\ \/ /\ Handle(r)
          /\ holder' = [holder EXCEPT ![lock[r]] = r]
          /\ UNCHANGED lock
       \/ /\ Repeat(r)
          /\ lock' = [lock EXCEPT ![r] = NoLock]
          /\ UNCHANGED holder
    /\ UNCHANGED <<agent, ev, body, lockOf, cut, forgotten, events>>

\* ingest_magnet_text: the row exists, or will be inserted ...
Lookup(r) ==
    /\ phase[r] = "lookup"
    /\ \/ /\ body[r] \in library
          /\ Record(r, "duplicate")
          /\ taken' = taken \cup {<<ev[r], body[r]>>}
       \/ /\ body[r] \notin library
          /\ phase' = [phase EXCEPT ![r] = "insert"]
          /\ UNCHANGED <<reply, record, taken>>
    /\ UNCHANGED <<agent, ev, body, locks, library, active, made, cut, forgotten, events>>

\* ... which inserts it, unless somebody else has meanwhile.
Insert(r) ==
    /\ phase[r] = "insert"
    /\ taken' = taken \cup {<<ev[r], body[r]>>}
    /\ \/ /\ body[r] \in library
          /\ Record(r, "duplicate")
          /\ UNCHANGED <<library, made>>
       \/ /\ body[r] \notin library
          /\ library' = library \cup {body[r]}
          /\ made' = [made EXCEPT ![ev[r]] = @ + 1]
          /\ phase' = [phase EXCEPT ![r] = "classify"]
          /\ UNCHANGED <<reply, record>>
    /\ UNCHANGED <<agent, ev, body, locks, active, cut, forgotten, events>>

\* The row has been classified, or the job started: the event is recorded.
Complete(r) ==
    /\ phase[r] \in {"classify", "announce"}
    /\ Record(r, "accepted")
    /\ UNCHANGED <<agent, ev, body, locks, library, active, history, events>>

Release(r) ==
    /\ holder' = [holder EXCEPT ![lock[r]] = NoSlot]
    /\ lock' = [lock EXCEPT ![r] = NoLock]
    /\ UNCHANGED lockOf

Respond(r) ==
    /\ phase[r] = "emit"
    /\ Release(r)
    /\ phase' = [phase EXCEPT ![r] = "answered"]
    /\ UNCHANGED <<agent, ev, body, reply, stores, history, events>>

\* A store raises: the answer is 503, the lock is free, nothing is recorded.
Raise(r) ==
    /\ StoreMayFail
    /\ Happens
    /\ phase[r] \in Working \ {"emit"}
    /\ Release(r)
    /\ phase' = [phase EXCEPT ![r] = "failed"]
    /\ cut' = cut \cup {ev[r]}
    /\ UNCHANGED <<agent, ev, body, reply, stores, made, taken, forgotten>>

\* The service ends and starts again: the stores are as they were, everything else is new.
ServiceRestarts ==
    /\ Happens
    /\ phase' = [r \in Slot |-> IF phase[r] \in Working \cup {"sent", "waiting"} THEN "failed"
                                ELSE phase[r]]
    /\ cut' = cut \cup {ev[r] : r \in {s \in Slot : phase[s] \in Working}}
    /\ lockOf' = [e \in Event |-> NoLock]
    /\ holder' = [l \in Lock |-> NoSlot]
    /\ lock' = [r \in Slot |-> NoLock]
    /\ UNCHANGED <<agent, ev, body, reply, stores, made, taken, forgotten>>

\* The crawl of an address ends; the user deletes a row.
JobEnds(u) ==
    /\ Happens
    /\ u \in active
    /\ active' = active \ {u}
    /\ UNCHANGED <<agent, wire, locks, library, record, history>>

Remove(v) ==
    /\ Happens
    /\ v \in library
    /\ library' = library \ {v}
    /\ UNCHANGED <<agent, wire, locks, active, record, history>>

-----------------------------------------------------------------------------
AgentStep ==
    \/ \E e \in Captured, v \in Value : Capture(e, v)
    \/ Probe \/ ProbeFails \/ RetryNow \/ Settled \/ SendFails \/ SendTimesOut \/ AgentRestarts
    \/ \E e \in Captured : Due(e) \/ \E r \in Slot : Send(e, r)

ServiceStep(r) ==
    \/ Arrive(r) \/ Wake(r) \/ Lookup(r) \/ Insert(r) \/ Complete(r) \/ Respond(r)
    \/ Raise(r) \/ Discarded(r) \/ Lost(r) \/ Invalid(r)
    \/ \E e \in Posted, v \in Value : Post(e, v, r)

Next ==
    \/ AgentStep
    \/ \E r \in Slot : ServiceStep(r)
    \/ ServiceRestarts
    \/ \E u \in Address : JobEnds(u)
    \/ \E v \in Magnet : Remove(v)

Spec == Init /\ [][Next]_vars

(***************************************************************************)
(* Fairness.  The agent's timer fires every second and the service's event  *)
(* loop runs; losses, faults and restarts are bounded.                     *)
(***************************************************************************)
Fairness ==
    /\ WF_vars(Probe) /\ WF_vars(Settled) /\ WF_vars(SendFails)
    /\ \A e \in Captured : WF_vars(Due(e)) /\ SF_vars(\E r \in Slot : Send(e, r))
    /\ \A r \in Slot :
          /\ WF_vars(Arrive(r) \/ Lookup(r) \/ Insert(r) \/ Complete(r) \/ Respond(r)
                       \/ Discarded(r))
          /\ SF_vars(Wake(r))

FairSpec == Spec /\ Fairness

-----------------------------------------------------------------------------
(***************************************************************************)
(* What must be true.                                                      *)
(***************************************************************************)

\* What the agent has captured is in its queue until the service has had it in hand, through
\* lost requests, lost answers and restarts of both sides; only a value that is refused, or
\* an entry whose save failed, ends otherwise (markSent, handle_event).
NothingLost ==
    \A e \in Captured : val[e] # NoValue =>
        e \in queue \cup forgotten \/ <<e, val[e]>> \in taken \/ val[e] \in Bad

\* However often an event is sent, it creates at most one row or job, unless one of its
\* handlers was cut off by a fault or a restart (the module comment of jobs.py: a resent
\* event is processed only once).
EffectOnce == \A e \in Event : made[e] <= 1 \/ e \in cut

\* The record of an event is never overwritten, with whatever content its id comes back
\* (handle_event: "never overwrites the first record"), unless a handler was cut off.
RecordKept ==
    [][\A e \in Event : record[e] # NoRecord => record'[e] = record[e] \/ e \in cut]_vars

\* An answer that says accepted or duplicate is true of the value that was sent, also when
\* the id had been used for another one: a row or a job of that value was there.
AnswerTrue ==
    \A r \in Slot : phase[r] = "answered" /\ reply[r] \in {"accepted", "duplicate"} =>
        <<ev[r], body[r]>> \in taken

Ledger == INSTANCE EventLedger
    WITH Captured <- Captured, Event <- Event, Value <- Value, Bad <- Bad, NoValue <- NoValue,
         val <- val, kept <- queue, forgotten <- forgotten, taken <- taken, made <- made,
         record <- record, cut <- cut

\* However often requests and answers are lost, repeated or overtake each other, however full
\* the table of locks is and whenever either side starts again, the queue, the effects and the
\* records of the events change as in a ledger that one clerk keeps: an entry is let go of when it
\* was taken or refused, and nothing is done or recorded twice but for an event with a handler
\* that was cut off (handle_event, markSent, markFailed).
ImplementsLedger == Ledger!Spec

\* Every entry is answered in the end, if losses and faults end.
Delivered == \A e \in Captured : (e \in queue) ~> (e \notin queue)

=============================================================================
