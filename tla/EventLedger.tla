------------------------------ MODULE EventLedger ------------------------------
(***************************************************************************)
(* What the agent's queue and handle_event promise together, without locks, *)
(* requests or a network: an entry is kept until its value was taken or is  *)
(* one to refuse, an event has one effect and one record, and the record    *)
(* says what became of the value.  Only an event with a handler that was    *)
(* cut off may have more.                                                  *)
(***************************************************************************)
EXTENDS Naturals

CONSTANTS Captured, Event, Value, Bad, NoValue

VARIABLES
    val,            \* val[e]: the value the agent captured as e
    kept,           \* the entries the agent keeps
    forgotten,      \* those it lost with a file that had not been written
    taken,          \* the events and values that were in the stores
    made,           \* made[e]: what was created for e
    record,         \* record[e]: the first answer to e
    cut             \* events with a handler that did not come to its end

vars == <<val, kept, forgotten, taken, made, record, cut>>

NoRecord == [value |-> NoValue, status |-> "rejected"]

Init ==
    /\ val = [e \in Captured |-> NoValue]
    /\ kept = {} /\ forgotten = {} /\ taken = {} /\ cut = {}
    /\ made = [e \in Event |-> 0]
    /\ record = [e \in Event |-> NoRecord]

Capture(e, v) ==
    /\ val[e] = NoValue
    /\ val' = [val EXCEPT ![e] = v]
    /\ kept' = kept \cup {e}
    /\ UNCHANGED <<forgotten, taken, made, record, cut>>

\* The agent lets go of an entry: the service had its value, or refuses it.
Settle(e) ==
    /\ e \in kept
    /\ <<e, val[e]>> \in taken \/ val[e] \in Bad
    /\ kept' = kept \ {e}
    /\ UNCHANGED <<val, forgotten, taken, made, record, cut>>

\* It starts again with an old file, which may still have what it has let go of.
Reload ==
    /\ kept' \subseteq {e \in Captured : val[e] # NoValue}
    /\ forgotten' = forgotten \cup (kept \ kept')
    /\ UNCHANGED <<val, taken, made, record, cut>>

\* e may come with the value v: an event of the agent has one only.
Carries(e, v) == e \in Captured => v = val[e]

\* Nothing is done for e that was done before.
Undone(e) == record[e] = NoRecord \/ e \in cut

\* A row or a job is created for e.
Create(e, v) ==
    /\ Carries(e, v) /\ v \notin Bad
    /\ Undone(e)
    /\ made[e] = 0 \/ e \in cut
    /\ made' = [made EXCEPT ![e] = @ + 1]
    /\ taken' = taken \cup {<<e, v>>}
    /\ UNCHANGED <<val, kept, forgotten, record, cut>>

\* e is recorded: its value is there, created for e or found, or is refused.
Answer(e, v, s) ==
    /\ Carries(e, v)
    /\ Undone(e)
    /\ record' = [record EXCEPT ![e] = [value |-> v, status |-> s]]
    /\ \/ s = "rejected" /\ v \in Bad /\ taken' = taken
       \/ s \in {"accepted", "duplicate"} /\ v \notin Bad /\ taken' = taken \cup {<<e, v>>}
    /\ UNCHANGED <<val, kept, forgotten, made, cut>>

CutOff ==
    /\ cut \subseteq cut' /\ cut' \subseteq Event
    /\ UNCHANGED <<val, kept, forgotten, taken, made, record>>

Next ==
    \/ \E e \in Captured, v \in Value : Capture(e, v)
    \/ \E e \in Captured : Settle(e)
    \/ Reload
    \/ \E e \in Event, v \in Value :
          Create(e, v) \/ \E s \in {"accepted", "duplicate", "rejected"} : Answer(e, v, s)
    \/ CutOff

Spec == Init /\ [][Next]_vars
=============================================================================
