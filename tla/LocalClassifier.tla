---------------------------- MODULE LocalClassifier ----------------------------
(***************************************************************************)
(* The cache of the local classifier: a worker thread that looks a name    *)
(* up, computes an answer and keeps it, each under the lock or without it, *)
(* while the event loop reloads the rules and then clears the cache. An    *)
(* answer is known by the rules it comes from.                             *)
(*                                                                         *)
(* A name pushed out of the cache (CACHE_MAX_SIZE) is as one not asked for *)
(* yet: left out.                                                          *)
(***************************************************************************)
EXTENDS Naturals

CONSTANTS
    Name,
    NoName

VARIABLES
    rules,      \* how often the rules have been loaded
    clearing,   \* reload_rules stands between the rules and the cache
    cache,      \* the rules each name was classified by, 0 for a name not in it
    call,       \* the name that the thread classifies, and the rules its answer is by
    raced       \* names whose answer was under way when the rules were reloaded (history)

classifier == <<rules, clearing, cache, call, raced>>

NoCall == [name |-> NoName, by |-> 0]

Init ==
    /\ rules = 1 /\ clearing = FALSE
    /\ cache = [n \in Name |-> 0]
    /\ call = NoCall
    /\ raced = {}

\* The thread looks the name up: an answer that is there is given at once.
Answered(n) == call = NoCall /\ cache[n] # 0 /\ UNCHANGED classifier

\* Otherwise it goes through the chain of rules; a rule that raises is passed over.
Compute(n) ==
    /\ call = NoCall /\ cache[n] = 0
    /\ call' = [name |-> n, by |-> rules]
    /\ UNCHANGED <<rules, clearing, cache, raced>>

\* The answer is kept, and given.
Keep ==
    /\ call # NoCall
    /\ cache' = [cache EXCEPT ![call.name] = call.by]
    /\ call' = NoCall
    /\ UNCHANGED <<rules, clearing, raced>>

\* reload_rules: the rules first,
Reload ==
    /\ ~clearing
    /\ rules' = rules + 1
    /\ raced' = raced \cup ({call.name} \ {NoName})
    /\ clearing' = TRUE
    /\ UNCHANGED <<cache, call>>

\* Mutant: the cache is cleared only if every rule of the chain has been reloaded.
Clear_IfAll ==
    /\ clearing
    /\ clearing' = FALSE
    /\ UNCHANGED <<rules, cache, call, raced>>

\* then the cache, under its lock.
Clear ==
    /\ clearing
    /\ clearing' = FALSE
    /\ cache' = [n \in Name |-> 0]
    /\ UNCHANGED <<rules, call, raced>>

\* Once a reload is done, no answer of earlier rules is left, but for the names whose answer
\* was under way in the thread at that moment: those are kept after the cache was cleared.
CacheTrue == ~clearing => \A n \in Name : cache[n] \in {0, rules} \/ n \in raced
=============================================================================
