----------------------------- MODULE QBitSubmission -----------------------------
(***************************************************************************)
(* Adding magnets to qBittorrent: MagnetSubmitter.add_magnet, and what it  *)
(* calls of QBittorrentClient: get_base_save_path with its cache and       *)
(* QBitPathResolver, and ensure_category with its table of locks. The adds *)
(* of a batch run at the same time.                                        *)
(*                                                                         *)
(* An action is what runs between two awaits. A path is the base directory *)
(* that it lies under; Flat is one that no base can be read from. An add   *)
(* can be cancelled at each of its awaits: the batch it belongs to has run *)
(* out of time.                                                            *)
(***************************************************************************)
EXTENDS Naturals, FiniteSets

CONSTANTS
    Adder,              \* the tasks that add a magnet
    Category,
    CategoryOf,         \* Adder -> Category
    Base,               \* base directories
    Absolute,           \* the absolute save paths that adds come with
    Fallback,           \* the base used when none can be found, "/volume1/downloads"
    Flat,               \* /downloads, /var/apps/...: no base can be read from it
    Missing,            \* qBittorrent has no such category
    Unknown,            \* the client has not looked for the base yet
    NotFound,           \* it has looked, and found none
    MaxLocks,           \* MAX_CATEGORY_LOCKS
    MaxRetries,         \* max_retries of ensure_category
    MakesDirs,          \* fs_base_path is set, and auto_create_dirs
    MaxAdds             \* bound on the adds

ASSUME SubmissionAssumption ==
    /\ CategoryOf \in [Adder -> Category]
    /\ Absolute \subseteq Base \cup {Flat}
    /\ Fallback \in Base
    /\ {Flat, Missing, Unknown, NotFound} \cap Base = {}
    /\ Flat # Missing /\ Unknown # NotFound
    /\ MaxLocks \in Nat \ {0} /\ MaxRetries \in Nat \ {0} /\ MaxAdds \in Nat
    /\ MakesDirs \in BOOLEAN

VARIABLES
    pc,             \* where each add stands
    relative,       \* its save path is to be resolved against the base
    wanted,         \* category_save_path, as far as it is known
    lock,           \* which lock of its category it waits for, or holds
    attempt,        \* the loop variable of ensure_category
    cached,         \* _cached_default_path
    table,          \* the categories that have a lock in _category_locks
    made,           \* how many locks have been made for each category: the last is in the table
    orphans,        \* locks that were evicted while somebody waited for them
    categories,     \* in qBittorrent: category -> base of its path, Flat or Missing
    adds            \* total_added

add == <<relative, wanted, attempt>>
locks == <<table, made, orphans>>
vars == <<pc, add, lock, locks, cached, categories, adds>>

\* The lock of the category is held.
Critical == {"ask", "create", "wait", "edit", "nap"}

Place == {"idle", "pathlock", "askcategories", "asktorrents", "askdefault", "mkdir", "guard",
          "lock", "add", "find"} \cup Critical

Init ==
    /\ pc = [a \in Adder |-> "idle"]
    /\ relative = [a \in Adder |-> FALSE]
    /\ wanted = [a \in Adder |-> Flat]
    /\ lock = [a \in Adder |-> 0]
    /\ attempt = [a \in Adder |-> 0]
    /\ cached = Unknown
    /\ table = {} /\ made = [c \in Category |-> 0] /\ orphans = {}
    /\ categories \in [Category -> {Flat, Missing}]
    /\ adds = 0

Goto(a, p) == pc' = [pc EXCEPT ![a] = p]

\* The add of a is over: it answers True or False, or raises (what comes of that is in ItemLifecycle).
End(a) ==
    /\ Goto(a, "idle")
    /\ relative' = [relative EXCEPT ![a] = FALSE]
    /\ wanted' = [wanted EXCEPT ![a] = Flat]
    /\ attempt' = [attempt EXCEPT ![a] = 0]
    /\ lock' = [lock EXCEPT ![a] = 0]

\* It goes on, with another request.
GoOn(a, p) == Goto(a, p) /\ UNCHANGED <<add, lock>>

-----------------------------------------------------------------------------
(* add_magnet: the path *)

\* The base that callers get for what the cache holds.
Used(path) == IF path = NotFound THEN Fallback ELSE path

\* The path is settled: on to the directory, or to the category.
Resolved(a, path) ==
    /\ wanted' = [wanted EXCEPT ![a] = path]
    /\ Goto(a, IF MakesDirs THEN "mkdir" ELSE "guard")
    /\ UNCHANGED <<attempt, lock>>

\* An add begins.  Without a btih in the link it fails at once; an absolute path is taken
\* as it is; a relative or empty one needs the base, which may be known.
Start(a) ==
    /\ pc[a] = "idle" /\ adds < MaxAdds
    /\ adds' = adds + 1
    /\ \/ End(a)
       \/ /\ \E path \in Absolute : Resolved(a, path)
          /\ UNCHANGED relative
       \/ /\ relative' = [relative EXCEPT ![a] = TRUE]
          /\ IF cached = Unknown
             THEN Goto(a, "pathlock") /\ UNCHANGED <<wanted, attempt, lock>>
             ELSE Resolved(a, Used(cached))
    /\ UNCHANGED <<locks, cached, categories>>

\* _default_path_lock is held.
Probes(a) == pc[a] \in {"askcategories", "asktorrents", "askdefault"}

PathLocked_NoRecheck(a) ==
    /\ pc[a] = "pathlock"
    /\ ~\E b \in Adder : Probes(b)
    /\ GoOn(a, "askcategories")
    /\ UNCHANGED <<locks, cached, categories, adds>>

\* The lock is free; another add may have found the base meanwhile.
PathLocked(a) ==
    /\ pc[a] = "pathlock"
    /\ ~\E b \in Adder : Probes(b)
    /\ IF cached = Unknown
       THEN GoOn(a, "askcategories")
       ELSE Resolved(a, Used(cached)) /\ UNCHANGED relative
    /\ UNCHANGED <<locks, cached, categories, adds>>

Found(a, path) == cached' = path /\ Resolved(a, Used(path)) /\ UNCHANGED relative

\* QBitPathResolver.resolve(): the base of some category, or else of some torrent.  Each of the
\* two requests may fail; then, or if no base can be read from what came, qBittorrent is asked
\* for its default.
AskCategories(a) ==
    /\ pc[a] = "askcategories"
    /\ \/ \E c \in Category : categories[c] \in Base /\ Found(a, categories[c])
       \/ GoOn(a, "asktorrents") /\ UNCHANGED cached
    /\ UNCHANGED <<locks, categories, adds>>

AskTorrents(a) ==
    /\ pc[a] = "asktorrents"
    /\ \/ \E path \in Base : Found(a, path)
       \/ GoOn(a, "askdefault") /\ UNCHANGED cached
    /\ UNCHANGED <<locks, categories, adds>>

\* Its default is taken as it is; if there is no answer, that no base was found is remembered.
AskDefault(a) ==
    /\ pc[a] = "askdefault"
    /\ \E path \in Base \cup {NotFound} : Found(a, path)
    /\ UNCHANGED <<locks, categories, adds>>

\* A relative path that leaves the base is refused.
Escapes(a) ==
    /\ pc[a] \in {"mkdir", "guard"} /\ relative[a]
    /\ End(a)
    /\ UNCHANGED <<locks, cached, categories, adds>>

\* The directory is made in a thread; an OSError leaves add_magnet.
MakeDir(a) ==
    /\ pc[a] = "mkdir"
    /\ GoOn(a, "guard") \/ End(a)
    /\ UNCHANGED <<locks, cached, categories, adds>>

-----------------------------------------------------------------------------
(* ensure_category *)

Held(c, n) == \E b \in Adder : pc[b] \in Critical /\ CategoryOf[b] = c /\ lock[b] = n
Waits(b, c, n) == pc[b] = "lock" /\ CategoryOf[b] = c /\ lock[b] = n

Evictable_Any == table

\* What can be evicted from the table; of these the code takes the one used longest ago.
Evictable == {c \in table : ~Held(c, made[c])}

\* The add takes the lock numbered n of its category, or waits if it is held or waited for.
Queues(a, n) ==
    LET c == CategoryOf[a]
    IN  /\ lock' = [lock EXCEPT ![a] = n]
        /\ Goto(a, IF Held(c, n) \/ \E b \in Adder : Waits(b, c, n) THEN "lock" ELSE "ask")
        /\ UNCHANGED add

\* The lock of a new category goes into the table.
NewLock(a, rest) ==
    LET c == CategoryOf[a]
    IN  /\ table' = rest \cup {c}
        /\ made' = [made EXCEPT ![c] = made[c] + 1]
        /\ Queues(a, made[c] + 1)

\* The lock of the category is looked up, or made; a table that is full gives up a lock that
\* nobody holds, whether or not somebody waits for it.  If all are held the add fails.
Guard(a) ==
    /\ pc[a] = "guard"
    /\ \/ /\ CategoryOf[a] \in table
          /\ Queues(a, made[CategoryOf[a]])
          /\ UNCHANGED locks
       \/ /\ CategoryOf[a] \notin table /\ Cardinality(table) < MaxLocks
          /\ NewLock(a, table)
          /\ UNCHANGED orphans
       \/ /\ CategoryOf[a] \notin table /\ Cardinality(table) >= MaxLocks
          /\ \E old \in Evictable :
                /\ NewLock(a, table \ {old})
                /\ orphans' = IF \E b \in Adder : Waits(b, old, made[old])
                              THEN orphans \cup {<<old, made[old]>>}
                              ELSE orphans
       \/ /\ CategoryOf[a] \notin table /\ Cardinality(table) >= MaxLocks
          /\ Evictable = {}
          /\ End(a)
          /\ UNCHANGED locks
    /\ UNCHANGED <<cached, categories, adds>>

\* The lock is handed on.
Enter(a) ==
    /\ pc[a] = "lock"
    /\ ~Held(CategoryOf[a], lock[a])
    /\ GoOn(a, "ask")
    /\ UNCHANGED <<locks, cached, categories, adds>>

\* The next request for a whose category is there, with some path.
Compared(a) ==
    GoOn(a, IF categories[CategoryOf[a]] = wanted[a] THEN "add" ELSE "edit")

\* get_categories answers.
Ask(a) ==
    /\ pc[a] = "ask"
    /\ IF categories[CategoryOf[a]] = Missing THEN GoOn(a, "create") ELSE Compared(a)
    /\ UNCHANGED <<locks, cached, categories, adds>>

\* A request raises: once more after a second, with the lock held.
Raises(a) == IF attempt[a] + 1 < MaxRetries THEN GoOn(a, "nap") ELSE End(a)

\* createCategory and editCategory: done or refused, and the status of the answer is not looked at.
MayWrite(a) ==
    categories' \in {categories, [categories EXCEPT ![CategoryOf[a]] = wanted[a]]}

Create(a) ==
    /\ pc[a] = "create"
    /\ IF categories[CategoryOf[a]] = Missing THEN MayWrite(a) ELSE UNCHANGED categories
    /\ GoOn(a, "wait") \/ Raises(a)
    /\ UNCHANGED <<locks, cached, adds>>

\* _wait_for_category: the category shows in the list.
Shows(a) ==
    /\ pc[a] = "wait"
    /\ categories[CategoryOf[a]] # Missing
    /\ Compared(a)
    /\ UNCHANGED <<locks, cached, categories, adds>>

GiveUp_GoesOn(a) ==
    /\ pc[a] = "wait"
    /\ GoOn(a, "add")
    /\ UNCHANGED <<locks, cached, categories, adds>>

\* It does not, fifteen times.
GiveUp(a) ==
    /\ pc[a] = "wait"
    /\ End(a)
    /\ UNCHANGED <<locks, cached, categories, adds>>

Edit(a) ==
    /\ pc[a] = "edit"
    /\ MayWrite(a)
    /\ GoOn(a, "add") \/ Raises(a)
    /\ UNCHANGED <<locks, cached, adds>>

\* get_categories raises, on its own or in _wait_for_category.
Fails(a) ==
    /\ pc[a] \in {"ask", "wait"}
    /\ Raises(a)
    /\ UNCHANGED <<locks, cached, categories, adds>>

Again(a) ==
    /\ pc[a] = "nap"
    /\ Goto(a, "ask")
    /\ attempt' = [attempt EXCEPT ![a] = attempt[a] + 1]
    /\ UNCHANGED <<relative, wanted, lock, locks, cached, categories, adds>>

-----------------------------------------------------------------------------
(* add_magnet: the torrent *)

\* qBittorrent says that it took the torrent, or the request raises, or it says that it failed.
Add(a) ==
    /\ pc[a] = "add"
    /\ End(a) \/ GoOn(a, "find")
    /\ UNCHANGED <<locks, cached, categories, adds>>

\* It failed, or the torrent was there already, which is as good.
Find(a) ==
    /\ pc[a] = "find"
    /\ End(a)
    /\ UNCHANGED <<locks, cached, categories, adds>>

Cancel(a) ==
    /\ pc[a] # "idle"
    /\ End(a)
    /\ UNCHANGED <<locks, cached, categories, adds>>

\* Somebody makes or moves a category in qBittorrent.
Outside ==
    /\ \E c \in Category, path \in Base : categories' = [categories EXCEPT ![c] = path]
    /\ UNCHANGED <<pc, add, lock, locks, cached, adds>>

Locked(a) == PathLocked(a) \/ Enter(a)
Step(a) == \/ AskCategories(a) \/ AskTorrents(a) \/ AskDefault(a) \/ Escapes(a) \/ MakeDir(a)
           \/ Guard(a) \/ Ask(a) \/ Create(a) \/ Shows(a) \/ GiveUp(a) \/ Edit(a) \/ Fails(a) \/ Again(a)
           \/ Add(a) \/ Find(a)

Next ==
    \/ \E a \in Adder : Start(a) \/ Locked(a) \/ Step(a) \/ Cancel(a)
    \/ Outside

Spec == Init /\ [][Next]_vars

-----------------------------------------------------------------------------

TypeOK ==
    /\ pc \in [Adder -> Place]
    /\ relative \in [Adder -> BOOLEAN]
    /\ wanted \in [Adder -> Base \cup {Flat}]
    /\ lock \in [Adder -> Nat]
    /\ attempt \in [Adder -> 0..(MaxRetries - 1)]
    /\ cached \in Base \cup {Unknown, NotFound}
    /\ table \subseteq Category
    /\ made \in [Category -> Nat]
    /\ orphans \subseteq Category \X Nat
    /\ categories \in [Category -> Base \cup {Flat, Missing}]
    /\ adds \in 0..MaxAdds

\* The relative path of a has been resolved.
Settled(a) ==
    relative[a] /\ pc[a] \in Place \ {"idle", "pathlock", "askcategories", "asktorrents", "askdefault"}

\* All relative paths are resolved against one base, whatever qBittorrent answers to adds that
\* look for it at the same time, and whatever changes there meanwhile.
BaseSettled == \A a, b \in Adder : Settled(a) /\ Settled(b) => wanted[a] = wanted[b]

\* Two adds work on one category only if one of them holds a lock that was evicted while it
\* waited for it (the lock of a category that others came to after the table was full).
OneEditor ==
    \A a, b \in Adder :
        /\ a # b /\ CategoryOf[a] = CategoryOf[b]
        /\ pc[a] \in Critical /\ pc[b] \in Critical
        => <<CategoryOf[a], lock[a]>> \in orphans \/ <<CategoryOf[b], lock[b]>> \in orphans

\* A step that hands a torrent to qBittorrent finds its category there.
AddsToCategory ==
    \A a \in Adder : pc[a] # "add" /\ pc'[a] = "add" => categories'[CategoryOf[a]] # Missing

\* No torrent is added before its category is seen in qBittorrent, which would put it in the
\* default directory.
CategoryFirst == [][AddsToCategory]_vars
=============================================================================
