-------------------------- MODULE QBitSubmission_proofs --------------------------
(***************************************************************************)
(* Theorems about QBitSubmission, for any adds, categories and limits.     *)
(***************************************************************************)
EXTENDS QBitSubmission, TLAPS

USE SubmissionAssumption

\* The base is looked for by one add, once; who has it has what the cache holds.
PathInv ==
    /\ \A a \in Adder : Settled(a) => cached # Unknown /\ wanted[a] = Used(cached)
    /\ \A a \in Adder : Probes(a) => cached = Unknown
    /\ \A a, b \in Adder : Probes(a) /\ Probes(b) => a = b
    /\ \A a \in Adder : pc[a] = "idle" => ~relative[a]

\* The lock that an add waits for or holds.
Mine(a) == <<CategoryOf[a], lock[a]>>

\* It is the one in the table, unless it was evicted while the add waited; and a lock has one
\* holder.
LockInv ==
    /\ \A a \in Adder : pc[a] \in Critical \cup {"lock"} =>
          \/ Mine(a) \in orphans
          \/ CategoryOf[a] \in table /\ lock[a] = made[CategoryOf[a]]
    /\ \A a, b \in Adder :
          a # b /\ CategoryOf[a] = CategoryOf[b] /\ pc[a] \in Critical /\ pc[b] \in Critical
             => lock[a] # lock[b]

\* A category whose path is compared is there, and it stays.
SeenInv == \A a \in Adder : pc[a] = "edit" => categories[CategoryOf[a]] # Missing

\* A pause is made only if there is another attempt.
NapInv == \A a \in Adder : pc[a] = "nap" => attempt[a] + 1 < MaxRetries

-----------------------------------------------------------------------------

\* What the two ways on do to the variables of the adds.
LEMMA OnType ==
    ASSUME TypeOK, NEW a \in Adder, NEW p \in Place, GoOn(a, p)
    PROVE /\ pc' \in [Adder -> Place] /\ pc' = [pc EXCEPT ![a] = p]
          /\ UNCHANGED <<relative, wanted, attempt, lock>>
          /\ relative' \in [Adder -> BOOLEAN] /\ wanted' \in [Adder -> Base \cup {Flat}]
          /\ attempt' \in [Adder -> 0..(MaxRetries - 1)] /\ lock' \in [Adder -> Nat]
BY DEF GoOn, Goto, add, TypeOK

\* The end of an add.
LEMMA EndType ==
    ASSUME TypeOK, NEW a \in Adder, End(a)
    PROVE /\ pc' \in [Adder -> Place] /\ pc' = [pc EXCEPT ![a] = "idle"]
          /\ relative' \in [Adder -> BOOLEAN] /\ wanted' \in [Adder -> Base \cup {Flat}]
          /\ attempt' \in [Adder -> 0..(MaxRetries - 1)] /\ lock' \in [Adder -> Nat]
          /\ \A b \in Adder \ {a} : /\ lock'[b] = lock[b] /\ wanted'[b] = wanted[b]
                                    /\ relative'[b] = relative[b]
<1>1. 0 \in 0..(MaxRetries - 1) /\ 0 \in Nat OBVIOUS
<1>2. "idle" \in Place BY DEF Place
<1> QED BY <1>1, <1>2 DEF End, Goto, TypeOK

\* A path that is settled.
LEMMA ResolvedType ==
    ASSUME TypeOK, NEW a \in Adder, NEW path \in Base \cup {Flat}, Resolved(a, path)
    PROVE /\ pc' \in [Adder -> Place] /\ wanted' \in [Adder -> Base \cup {Flat}]
          /\ wanted' = [wanted EXCEPT ![a] = path] /\ UNCHANGED <<attempt, lock>>
          /\ \E p \in {"mkdir", "guard"} : pc' = [pc EXCEPT ![a] = p]
<1>1. "mkdir" \in Place /\ "guard" \in Place BY DEF Place
<1> QED BY <1>1 DEF Resolved, Goto, TypeOK

\* A request that raises ends the add, or has it pause.
LEMMA RaisesType ==
    ASSUME TypeOK, NEW a \in Adder, Raises(a)
    PROVE GoOn(a, "nap") \/ End(a)
BY DEF Raises

\* What is written to a category leaves it there.
LEMMA WriteType ==
    ASSUME TypeOK, NEW a \in Adder, MayWrite(a)
    PROVE /\ categories' \in [Category -> Base \cup {Flat, Missing}]
          /\ \A c \in Category : categories[c] # Missing => categories'[c] # Missing
<1>1. wanted[a] \in Base \cup {Flat} /\ CategoryOf[a] \in Category BY DEF TypeOK
<1>2. wanted[a] # Missing BY <1>1
<1> QED BY <1>1, <1>2 DEF MayWrite, TypeOK

\* The base that is used is a base.
LEMMA UsedType == ASSUME NEW path \in Base \cup {NotFound} PROVE Used(path) \in Base
BY DEF Used

-----------------------------------------------------------------------------

\* Every step preserves the types.
LEMMA NextType == TypeOK /\ NapInv /\ [Next]_vars => TypeOK'
<1> SUFFICES ASSUME TypeOK, NapInv, [Next]_vars PROVE TypeOK'
  OBVIOUS
<1>0. Critical \cup {"idle", "guard", "lock", "find", "add", "pathlock", "askcategories",
        "asktorrents", "askdefault"} \subseteq Place
  BY DEF Place, Critical
<1>a. ASSUME NEW a \in Adder, NEW p \in Place, GoOn(a, p),
             UNCHANGED <<table, made, orphans, cached, adds>>,
             categories' \in [Category -> Base \cup {Flat, Missing}]
      PROVE TypeOK'
  BY <1>a, OnType DEF TypeOK
<1>b. ASSUME NEW a \in Adder, End(a), UNCHANGED <<table, made, orphans, cached>>,
             adds' \in 0..MaxAdds, categories' \in [Category -> Base \cup {Flat, Missing}]
      PROVE TypeOK'
  BY <1>b, EndType DEF TypeOK
<1>c. ASSUME NEW a \in Adder, NEW path \in Base \cup {Flat}, Resolved(a, path),
             relative' \in [Adder -> BOOLEAN], cached' \in Base \cup {Unknown, NotFound},
             UNCHANGED <<table, made, orphans, categories>>, adds' \in 0..MaxAdds
      PROVE TypeOK'
  BY <1>c, ResolvedType DEF TypeOK
<1>d. categories \in [Category -> Base \cup {Flat, Missing}] /\ adds \in 0..MaxAdds BY DEF TypeOK
<1>1. ASSUME NEW a \in Adder, Start(a) PROVE TypeOK'
  <2>1. /\ adds' \in 0..MaxAdds /\ UNCHANGED <<table, made, orphans, cached, categories>>
    BY <1>1 DEF Start, locks, TypeOK
  <2>2. CASE End(a) BY <1>b, <1>d, <2>1, <2>2
  <2>3. ASSUME NEW path \in Absolute, Resolved(a, path), UNCHANGED relative PROVE TypeOK'
    BY <1>c, <2>1, <2>3 DEF TypeOK
  <2>4. CASE relative' = [relative EXCEPT ![a] = TRUE] /\ cached # Unknown
             /\ Resolved(a, Used(cached))
    <3>1. Used(cached) \in Base BY <2>4, UsedType DEF TypeOK
    <3> QED BY <1>c, <2>1, <2>4, <3>1 DEF TypeOK
  <2>5. CASE relative' = [relative EXCEPT ![a] = TRUE] /\ Goto(a, "pathlock")
             /\ UNCHANGED <<wanted, attempt, lock>>
    BY <1>0, <2>1, <2>5 DEF Goto, TypeOK
  <2> QED BY <1>1, <2>2, <2>3, <2>4, <2>5 DEF Start
<1>2. ASSUME NEW a \in Adder, PathLocked(a) PROVE TypeOK'
  <2>1. UNCHANGED <<table, made, orphans, cached, categories, adds>> BY <1>2 DEF PathLocked, locks
  <2>2. CASE GoOn(a, "askcategories") BY <1>0, <1>a, <1>d, <2>1, <2>2
  <2>3. CASE cached # Unknown /\ Resolved(a, Used(cached)) /\ UNCHANGED relative
    <3>1. Used(cached) \in Base BY <2>3, UsedType DEF TypeOK
    <3> QED BY <1>c, <1>d, <2>1, <2>3, <3>1 DEF TypeOK
  <2> QED BY <1>2, <2>2, <2>3 DEF PathLocked
<1>3. ASSUME NEW a \in Adder, AskCategories(a) \/ AskTorrents(a) \/ AskDefault(a) PROVE TypeOK'
  <2>1. UNCHANGED <<table, made, orphans, categories, adds>>
    BY <1>3 DEF AskCategories, AskTorrents, AskDefault, locks
  <2>2. ASSUME NEW path \in Base \cup {NotFound}, Found(a, path) PROVE TypeOK'
    <3>1. Used(path) \in Base BY UsedType
    <3> QED BY <1>c, <1>d, <2>1, <2>2, <3>1 DEF Found, TypeOK
  <2>3. CASE (GoOn(a, "asktorrents") \/ GoOn(a, "askdefault")) /\ UNCHANGED cached
    BY <1>0, <1>a, <1>d, <2>1, <2>3
  <2> QED BY <1>3, <2>2, <2>3 DEF AskCategories, AskTorrents, AskDefault
<1>4. ASSUME NEW a \in Adder, Escapes(a) \/ GiveUp(a) \/ Find(a) \/ Cancel(a) PROVE TypeOK'
  BY <1>4, <1>b, <1>d DEF Escapes, GiveUp, Find, Cancel, locks
<1>5. ASSUME NEW a \in Adder, MakeDir(a) \/ Add(a) PROVE TypeOK'
  <2>1. UNCHANGED <<table, made, orphans, cached, categories, adds>> BY <1>5 DEF MakeDir, Add, locks
  <2> QED BY <1>0, <1>5, <1>a, <1>b, <1>d, <2>1 DEF MakeDir, Add
<1>6. ASSUME NEW a \in Adder, Guard(a) PROVE TypeOK'
  <2>1. UNCHANGED <<cached, categories, adds>> BY <1>6 DEF Guard
  <2>2. CategoryOf[a] \in Category OBVIOUS
  <2>3. ASSUME NEW n \in Nat, Queues(a, n), table' \subseteq Category,
               made' \in [Category -> Nat], orphans' \subseteq Category \X Nat
        PROVE TypeOK'
    <3>1. pc' \in [Adder -> Place] BY <1>0, <2>3 DEF Queues, Goto, TypeOK, Critical
    <3>2. lock' \in [Adder -> Nat] /\ UNCHANGED <<relative, wanted, attempt>>
      BY <2>3 DEF Queues, add, TypeOK
    <3> QED BY <2>1, <2>3, <3>1, <3>2 DEF TypeOK
  <2>4. ASSUME NEW rest \in SUBSET Category, NewLock(a, rest), orphans' \subseteq Category \X Nat
        PROVE TypeOK'
    <3>1. /\ Queues(a, made[CategoryOf[a]] + 1) /\ table' = rest \cup {CategoryOf[a]}
          /\ made' = [made EXCEPT ![CategoryOf[a]] = made[CategoryOf[a]] + 1]
      BY <2>4 DEF NewLock
    <3>2. made[CategoryOf[a]] + 1 \in Nat BY DEF TypeOK
    <3>3. table' \subseteq Category /\ made' \in [Category -> Nat] BY <3>1, <3>2 DEF TypeOK
    <3> QED BY <2>3, <2>4, <3>1, <3>2, <3>3
  <2>5. CASE Queues(a, made[CategoryOf[a]]) /\ UNCHANGED locks
    <3>1. made[CategoryOf[a]] \in Nat BY DEF TypeOK
    <3> QED BY <2>3, <2>5, <3>1 DEF locks, TypeOK
  <2>6. CASE NewLock(a, table) /\ UNCHANGED orphans BY <2>4, <2>6 DEF TypeOK
  <2>7. ASSUME NEW old \in Evictable, NewLock(a, table \ {old}),
               orphans' \in {orphans, orphans \cup {<<old, made[old]>>}}
        PROVE TypeOK'
    <3>1. <<old, made[old]>> \in Category \X Nat BY <2>7 DEF Evictable, TypeOK
    <3> QED BY <2>4, <2>7, <3>1 DEF TypeOK
  <2>8. CASE End(a) /\ UNCHANGED locks BY <1>b, <1>d, <2>1, <2>8 DEF locks
  <2> QED BY <1>6, <2>5, <2>6, <2>7, <2>8 DEF Guard
<1>7. ASSUME NEW a \in Adder, Enter(a) \/ Ask(a) \/ Shows(a) PROVE TypeOK'
  <2>1. UNCHANGED <<table, made, orphans, cached, categories, adds>>
    BY <1>7 DEF Enter, Ask, Shows, locks
  <2>2. \E p \in {"ask", "create", "add", "edit"} : GoOn(a, p)
    BY <1>7 DEF Enter, Ask, Shows, Compared
  <2> QED BY <1>0, <1>a, <1>d, <2>1, <2>2 DEF Critical
<1>8. ASSUME NEW a \in Adder, Create(a) \/ Edit(a) \/ Fails(a) PROVE TypeOK'
  <2>1. UNCHANGED <<table, made, orphans, cached, adds>> BY <1>8 DEF Create, Edit, Fails, locks
  <2>2. categories' \in [Category -> Base \cup {Flat, Missing}]
    BY <1>8, <1>d, WriteType DEF Create, Edit, Fails
  <2>3. (\E p \in {"wait", "add", "nap"} : GoOn(a, p)) \/ End(a)
    BY <1>8, RaisesType DEF Create, Edit, Fails
  <2> QED BY <1>0, <1>a, <1>b, <1>d, <2>1, <2>2, <2>3 DEF Critical
<1>9. ASSUME NEW a \in Adder, Again(a) PROVE TypeOK'
  <2>1. attempt[a] + 1 \in 0..(MaxRetries - 1) BY <1>9 DEF Again, NapInv, TypeOK
  <2>2. "ask" \in Place BY <1>0 DEF Critical
  <2> QED BY <1>9, <2>1, <2>2 DEF Again, Goto, locks, TypeOK
<1>10. CASE Outside
  BY <1>10 DEF Outside, add, locks, TypeOK
<1>11. CASE UNCHANGED vars
  BY <1>11 DEF vars, add, locks, TypeOK
<1> QED BY <1>1, <1>2, <1>3, <1>4, <1>5, <1>6, <1>7, <1>8, <1>9, <1>10, <1>11
        DEF Next, Locked, Step

-----------------------------------------------------------------------------

\* How a step moves an add: the others stay where they are, with their locks and paths.
Moves(a, p) ==
    /\ pc' = [pc EXCEPT ![a] = p]
    /\ \A b \in Adder \ {a} : lock'[b] = lock[b] /\ wanted'[b] = wanted[b] /\ relative'[b] = relative[b]

\* The end of an add moves it, and no other.
LEMMA EndMoves == ASSUME TypeOK, NEW a \in Adder, End(a) PROVE Moves(a, "idle")
BY EndType DEF Moves

\* Going on does too.
LEMMA OnMoves ==
    ASSUME TypeOK, NEW a \in Adder, NEW p \in Place, GoOn(a, p)
    PROVE Moves(a, p) /\ UNCHANGED <<relative, wanted, attempt, lock>>
BY DEF GoOn, Goto, add, Moves

\* And so does a path that is settled.
LEMMA ResolvedMoves ==
    ASSUME TypeOK, NEW a \in Adder, NEW path \in Base \cup {Flat}, Resolved(a, path),
           relative' = relative \/ relative' = [relative EXCEPT ![a] = TRUE]
    PROVE /\ Moves(a, "mkdir") \/ Moves(a, "guard")
          /\ wanted'[a] = path /\ UNCHANGED <<attempt, lock>>
BY DEF Resolved, Goto, Moves, TypeOK

\* The steps of an add outside of ensure_category, and where they lead.
LEMMA Outer ==
    ASSUME TypeOK, NEW a \in Adder,
           \/ Start(a) \/ PathLocked(a) \/ AskCategories(a) \/ AskTorrents(a) \/ AskDefault(a)
           \/ Escapes(a) \/ MakeDir(a) \/ Add(a) \/ Find(a) \/ Cancel(a) \/ GiveUp(a)
    PROVE /\ \E p \in Place \ (Critical \cup {"lock", "add"}) : Moves(a, p)
          /\ UNCHANGED <<table, made, orphans, categories>>
<1>0. {"idle", "pathlock", "askcategories", "asktorrents", "askdefault", "mkdir", "guard", "find"}
      \subseteq Place \ (Critical \cup {"lock", "add"})
  <2> SUFFICES ASSUME NEW p \in {"idle", "pathlock", "askcategories", "asktorrents", "askdefault",
                                 "mkdir", "guard", "find"}
               PROVE p \in Place /\ p \notin Critical /\ p \notin {"lock", "add"}
    OBVIOUS
  <2>1. p \in Place BY DEF Place
  <2>2. p \notin Critical /\ p \notin {"lock", "add"} BY DEF Critical
  <2> QED BY <2>1, <2>2
<1>1. ASSUME End(a) PROVE \E q \in Place \ (Critical \cup {"lock", "add"}) : Moves(a, q)
  BY <1>0, <1>1, EndMoves
<1>2. ASSUME NEW p \in {"pathlock", "askcategories", "asktorrents", "askdefault", "guard", "find"}, GoOn(a, p)
      PROVE \E q \in Place \ (Critical \cup {"lock", "add"}) : Moves(a, q)
  BY <1>0, <1>2, OnMoves
<1>3. ASSUME NEW path \in Base \cup {Flat}, Resolved(a, path),
             relative' = relative \/ relative' = [relative EXCEPT ![a] = TRUE]
      PROVE \E q \in Place \ (Critical \cup {"lock", "add"}) : Moves(a, q)
  BY <1>0, <1>3, ResolvedMoves
<1>4. UNCHANGED <<table, made, orphans, categories>>
  BY DEF Start, PathLocked, AskCategories, AskTorrents, AskDefault, Escapes, MakeDir, Add, Find,
         Cancel, GiveUp, locks
<1>5. \E q \in Place \ (Critical \cup {"lock", "add"}) : Moves(a, q)
  <2>1. CASE Start(a)
    <3>1. CASE relative' = [relative EXCEPT ![a] = TRUE] /\ Goto(a, "pathlock") /\ UNCHANGED <<wanted, attempt, lock>>
      <4>1. Moves(a, "pathlock") BY <3>1 DEF Moves, Goto, TypeOK
      <4> QED BY <1>0, <4>1
    <3>2. CASE relative' = [relative EXCEPT ![a] = TRUE] /\ cached # Unknown /\ Resolved(a, Used(cached))
      <4>1. Used(cached) \in Base BY <3>2, UsedType DEF TypeOK
      <4> QED BY <1>3, <3>2, <4>1
    <3>3. ASSUME NEW path \in Absolute, Resolved(a, path), UNCHANGED relative
          PROVE \E q \in Place \ (Critical \cup {"lock", "add"}) : Moves(a, q)
      BY <1>3, <3>3
    <3> QED BY <1>1, <2>1, <3>1, <3>2, <3>3 DEF Start
  <2>2. CASE PathLocked(a)
    <3>1. CASE cached # Unknown /\ Resolved(a, Used(cached)) /\ UNCHANGED relative
      <4>1. Used(cached) \in Base BY <3>1, UsedType DEF TypeOK
      <4> QED BY <1>3, <3>1, <4>1
    <3> QED BY <1>2, <2>2, <3>1 DEF PathLocked
  <2>3. CASE AskCategories(a) \/ AskTorrents(a) \/ AskDefault(a)
    <3>1. ASSUME NEW path \in Base \cup {NotFound}, Found(a, path)
          PROVE \E q \in Place \ (Critical \cup {"lock", "add"}) : Moves(a, q)
      <4>1. Used(path) \in Base BY UsedType
      <4> QED BY <1>3, <3>1, <4>1 DEF Found
    <3> QED BY <1>2, <2>3, <3>1 DEF AskCategories, AskTorrents, AskDefault
  <2>4. CASE Escapes(a) \/ Find(a) \/ Cancel(a) \/ GiveUp(a)
    BY <1>1, <2>4 DEF Escapes, Find, Cancel, GiveUp
  <2>5. CASE MakeDir(a) \/ Add(a) BY <1>1, <1>2, <2>5 DEF MakeDir, Add
  <2> QED BY <2>1, <2>2, <2>3, <2>4, <2>5
<1> QED BY <1>4, <1>5

\* The steps with the lock of the category held, and where they lead.
LEMMA Inner ==
    ASSUME TypeOK, NEW a \in Adder,
           Ask(a) \/ Shows(a) \/ Create(a) \/ Edit(a) \/ Fails(a) \/ Again(a)
    PROVE /\ \E p \in Critical \cup {"idle", "add"} : Moves(a, p)
          /\ pc[a] \in Critical
          /\ lock'[a] = lock[a] \/ pc'[a] = "idle"
          /\ UNCHANGED <<table, made, orphans, cached>>
<1>0. Critical \cup {"add"} \subseteq Place BY DEF Place
<1>1. UNCHANGED <<table, made, orphans, cached>>
  BY DEF Ask, Shows, Create, Edit, Fails, Again, locks
<1>2. pc[a] \in Critical BY DEF Ask, Shows, Create, Edit, Fails, Again, Critical
<1>3. ASSUME NEW p \in Critical \cup {"add"}, GoOn(a, p)
      PROVE Moves(a, p) /\ lock'[a] = lock[a]
  BY <1>0, <1>3, OnMoves
<1>4. CASE End(a) BY <1>1, <1>2, <1>4, EndMoves DEF Moves, TypeOK
<1>5. CASE \E p \in {"create", "add", "edit", "wait", "nap"} : GoOn(a, p)
  BY <1>1, <1>2, <1>3, <1>5 DEF Critical
<1>6. CASE Again(a)
  BY <1>1, <1>2, <1>6 DEF Again, Goto, Moves, Critical
<1>7. CASE Ask(a) \/ Shows(a) BY <1>5, <1>7 DEF Ask, Shows, Compared
<1>8. CASE Create(a) \/ Edit(a) \/ Fails(a)
  BY <1>4, <1>5, <1>8, RaisesType DEF Create, Edit, Fails
<1> QED BY <1>6, <1>7, <1>8

-----------------------------------------------------------------------------

\* A pause is followed by another attempt.
LEMMA NextNap == TypeOK /\ NapInv /\ [Next]_vars => NapInv'
<1> SUFFICES ASSUME TypeOK, NapInv, [Next]_vars PROVE NapInv'
  OBVIOUS
<1>1. ASSUME NEW a \in Adder, NEW p, p # "nap", pc' = [pc EXCEPT ![a] = p],
             \A b \in Adder \ {a} : attempt'[b] = attempt[b]
      PROVE NapInv'
  BY <1>1 DEF NapInv, TypeOK
<1>2. ASSUME NEW a \in Adder, Raises(a) PROVE NapInv'
  <2>1. CASE attempt[a] + 1 < MaxRetries
    BY <1>2, <2>1 DEF Raises, GoOn, Goto, add, NapInv, TypeOK
  <2>2. CASE ~(attempt[a] + 1 < MaxRetries)
    BY <1>1, <1>2, <2>2 DEF Raises, End, Goto, TypeOK
  <2> QED BY <2>1, <2>2
<1>3. ASSUME NEW a \in Adder, End(a) PROVE NapInv'
  BY <1>1, <1>3 DEF End, Goto, TypeOK
<1>4. ASSUME NEW a \in Adder, NEW p, p # "nap", GoOn(a, p) PROVE NapInv'
  BY <1>1, <1>4 DEF GoOn, Goto, add
<1>5. ASSUME NEW a \in Adder, NEW path, Resolved(a, path) PROVE NapInv'
  BY <1>1, <1>5 DEF Resolved, Goto
<1>6. ASSUME NEW a \in Adder, NEW n, Queues(a, n) PROVE NapInv'
  BY <1>1, <1>6 DEF Queues, Goto, add
<1>7. ASSUME NEW a \in Adder, Start(a) PROVE NapInv'
  BY <1>1, <1>3, <1>5, <1>7 DEF Start, Goto
<1>8. ASSUME NEW a \in Adder,
             PathLocked(a) \/ AskCategories(a) \/ AskTorrents(a) \/ AskDefault(a) \/ Escapes(a)
             \/ MakeDir(a) \/ Add(a) \/ Find(a) \/ Cancel(a) \/ GiveUp(a)
      PROVE NapInv'
  BY <1>3, <1>4, <1>5, <1>8 DEF PathLocked, AskCategories, AskTorrents, AskDefault, Escapes,
     MakeDir, Add, Find, Cancel, GiveUp, Found
<1>9. ASSUME NEW a \in Adder, Guard(a) PROVE NapInv'
  BY <1>3, <1>6, <1>9 DEF Guard, NewLock
<1>10. ASSUME NEW a \in Adder, Enter(a) \/ Ask(a) \/ Shows(a) PROVE NapInv'
  BY <1>4, <1>10 DEF Enter, Ask, Shows, Compared
<1>11. ASSUME NEW a \in Adder, Create(a) \/ Edit(a) \/ Fails(a) PROVE NapInv'
  BY <1>2, <1>4, <1>11 DEF Create, Edit, Fails
<1>12. ASSUME NEW a \in Adder, Again(a) PROVE NapInv'
  BY <1>1, <1>12 DEF Again, Goto, TypeOK
<1>13. CASE Outside \/ UNCHANGED vars
  BY <1>13 DEF Outside, vars, add, NapInv
<1> QED BY <1>7, <1>8, <1>9, <1>10, <1>11, <1>12, <1>13 DEF Next, Locked, Step

\* The variables have their types.
THEOREM TypeCorrect == Spec => []TypeOK
<1>1. Init => TypeOK /\ NapInv
  <2>1. 0 \in 0..(MaxRetries - 1) /\ 0 \in Nat /\ 0 \in 0..MaxAdds OBVIOUS
  <2>2. "idle" \in Place BY DEF Place
  <2> QED BY <2>1, <2>2 DEF Init, TypeOK, NapInv
<1>2. TypeOK /\ NapInv /\ [Next]_vars => TypeOK' /\ NapInv' BY NextType, NextNap
<1> QED BY <1>1, <1>2, PTL DEF Spec

-----------------------------------------------------------------------------
(* One holder *)

\* An add that comes out of the locks, or does not go near them.
LEMMA Leaves ==
    ASSUME TypeOK, LockInv, NEW a \in Adder, NEW p, p \notin Critical \cup {"lock"}, Moves(a, p),
           UNCHANGED <<table, made, orphans>>
    PROVE LockInv'
<1>1. \A b \in Adder : pc'[b] \in Critical \cup {"lock"} => b # a /\ pc'[b] = pc[b] /\ lock'[b] = lock[b]
  BY DEF Moves, TypeOK
<1> QED BY <1>1 DEF LockInv, Mine

\* One that holds its lock, and goes on holding it.
LEMMA Stays ==
    ASSUME TypeOK, LockInv, NEW a \in Adder, NEW p \in Critical, Moves(a, p), pc[a] \in Critical,
           lock'[a] = lock[a], UNCHANGED <<table, made, orphans>>
    PROVE LockInv'
<1>1. \A b \in Adder : lock'[b] = lock[b] BY DEF Moves
<1>2. \A b \in Adder : pc'[b] = pc[b] \/ (b = a /\ pc'[b] \in Critical /\ pc[b] \in Critical)
  BY DEF Moves, TypeOK
<1> QED BY <1>1, <1>2 DEF LockInv, Mine

\* One that gets a lock that is in the table, new or free or to be waited for.
LEMMA Comes ==
    ASSUME TypeOK, LockInv, NEW a \in Adder, NEW n \in Nat, Queues(a, n),
           pc[a] = "guard", CategoryOf[a] \in table', n = made'[CategoryOf[a]],
           \A b \in Adder \ {a} : pc[b] \in Critical \cup {"lock"} =>
              \/ Mine(b) \in orphans'
              \/ CategoryOf[b] \in table' /\ lock[b] = made'[CategoryOf[b]]
    PROVE LockInv'
<1>1. lock' = [lock EXCEPT ![a] = n] BY DEF Queues
<1>2. \E p \in {"lock", "ask"} : /\ pc' = [pc EXCEPT ![a] = p]
                                 /\ p = "ask" => ~Held(CategoryOf[a], n)
  BY DEF Queues, Goto
<1>3. \A b \in Adder \ {a} : pc'[b] = pc[b] /\ lock'[b] = lock[b] BY <1>1, <1>2 DEF TypeOK
<1>4. lock'[a] = n /\ pc'[a] \in {"lock", "ask"} BY <1>1, <1>2 DEF TypeOK
<1>5. \A b \in Adder : pc'[b] \in Critical \cup {"lock"} =>
         \/ Mine(b)' \in orphans'
         \/ CategoryOf[b] \in table' /\ lock'[b] = made'[CategoryOf[b]]
  BY <1>3, <1>4 DEF Mine
<1>6. pc'[a] \in Critical => \A b \in Adder \ {a} :
         CategoryOf[b] = CategoryOf[a] /\ pc[b] \in Critical => lock[b] # n
  BY <1>2, <1>4 DEF Held, Critical, TypeOK
<1>7. \A b, d \in Adder :
         b # d /\ CategoryOf[b] = CategoryOf[d] /\ pc'[b] \in Critical /\ pc'[d] \in Critical
            => lock'[b] # lock'[d]
  BY <1>3, <1>4, <1>6 DEF LockInv
<1> QED BY <1>5, <1>7 DEF LockInv

\* Every step keeps the invariant of the locks.
LEMMA NextLock == TypeOK /\ LockInv /\ [Next]_vars => LockInv'
<1> SUFFICES ASSUME TypeOK, LockInv, [Next]_vars PROVE LockInv'
  OBVIOUS
<1>1. ASSUME NEW a \in Adder,
             \/ Start(a) \/ PathLocked(a) \/ AskCategories(a) \/ AskTorrents(a) \/ AskDefault(a)
             \/ Escapes(a) \/ MakeDir(a) \/ Add(a) \/ Find(a) \/ Cancel(a) \/ GiveUp(a)
      PROVE LockInv'
  <2>1. PICK p \in Place \ (Critical \cup {"lock", "add"}) : Moves(a, p) BY <1>1, Outer
  <2>2. UNCHANGED <<table, made, orphans>> BY <1>1, Outer
  <2> QED BY <2>1, <2>2, Leaves
<1>2. ASSUME NEW a \in Adder, Ask(a) \/ Shows(a) \/ Create(a) \/ Edit(a) \/ Fails(a) \/ Again(a)
      PROVE LockInv'
  <2>1. PICK p \in Critical \cup {"idle", "add"} : Moves(a, p) BY <1>2, Inner
  <2>2. /\ pc[a] \in Critical
        /\ lock'[a] = lock[a] \/ pc'[a] = "idle"
        /\ UNCHANGED <<table, made, orphans>>
    BY <1>2, Inner
  <2>3. pc'[a] = p BY <2>1 DEF Moves, TypeOK
  <2>4. CASE p \in Critical
    <3>1. p # "idle" BY <2>4 DEF Critical
    <3> QED BY <2>1, <2>2, <2>3, <2>4, <3>1, Stays
  <2>5. CASE p \in {"idle", "add"}
    <3>1. p \notin Critical \cup {"lock"} BY <2>5 DEF Critical
    <3> QED BY <2>1, <2>2, <3>1, Leaves
  <2> QED BY <2>4, <2>5
<1>3. ASSUME NEW a \in Adder, Enter(a) PROVE LockInv'
  <2>1. /\ pc[a] = "lock" /\ pc' = [pc EXCEPT ![a] = "ask"] /\ ~Held(CategoryOf[a], lock[a])
        /\ UNCHANGED <<lock, table, made, orphans>>
    BY <1>3 DEF Enter, GoOn, Goto, locks
  <2>2. \A b \in Adder : pc'[b] = pc[b] \/ b = a BY <2>1 DEF TypeOK
  <2>3. \A b \in Adder \ {a} : CategoryOf[b] = CategoryOf[a] /\ pc[b] \in Critical => lock[b] # lock[a]
    BY <2>1 DEF Held
  <2> QED BY <2>1, <2>2, <2>3 DEF LockInv, Mine
<1>4. ASSUME NEW a \in Adder, Guard(a) PROVE LockInv'
  <2> DEFINE c == CategoryOf[a]
  <2>1. pc[a] = "guard" /\ c \in Category /\ made[c] \in Nat BY <1>4 DEF Guard, TypeOK
  <2>2. CASE c \in table /\ Queues(a, made[c]) /\ UNCHANGED locks
    BY <2>1, <2>2, Comes DEF locks, LockInv
  <2>3. ASSUME NEW rest \in SUBSET table, c \notin table, NewLock(a, rest), orphans \subseteq orphans',
               \A b \in Adder \ {a} : pc[b] \in Critical \cup {"lock"} =>
                  \/ Mine(b) \in orphans'
                  \/ CategoryOf[b] \in rest /\ lock[b] = made[CategoryOf[b]]
        PROVE LockInv'
    <3>1. /\ Queues(a, made[c] + 1) /\ table' = rest \cup {c}
          /\ made' = [made EXCEPT ![c] = made[c] + 1]
      BY <2>3 DEF NewLock
    <3>2. \A d \in rest : made'[d] = made[d] BY <2>3, <3>1 DEF TypeOK
    <3>3. made'[c] = made[c] + 1 /\ made[c] + 1 \in Nat BY <2>1, <3>1 DEF TypeOK
    <3> QED BY <2>1, <2>3, <3>1, <3>2, <3>3, Comes
  <2>4. CASE c \notin table /\ NewLock(a, table) /\ UNCHANGED orphans
    BY <2>3, <2>4 DEF LockInv
  <2>5. ASSUME NEW old \in Evictable, c \notin table, NewLock(a, table \ {old}),
               orphans' = IF \E b \in Adder : Waits(b, old, made[old])
                          THEN orphans \cup {<<old, made[old]>>} ELSE orphans
        PROVE LockInv'
    <3>1. old \in table /\ ~Held(old, made[old]) BY DEF Evictable
    <3>2. ASSUME NEW b \in Adder \ {a}, pc[b] \in Critical \cup {"lock"}, Mine(b) \notin orphans'
          PROVE CategoryOf[b] \in table \ {old} /\ lock[b] = made[CategoryOf[b]]
      <4>1. Mine(b) \notin orphans BY <2>5, <3>2
      <4>2. CategoryOf[b] \in table /\ lock[b] = made[CategoryOf[b]]
        BY <3>2, <4>1 DEF LockInv
      <4>3. CASE CategoryOf[b] = old
        <5>1. pc[b] = "lock" BY <3>1, <3>2, <4>2, <4>3 DEF Held
        <5>2. Waits(b, old, made[old]) BY <4>2, <4>3, <5>1 DEF Waits
        <5>3. Mine(b) \in orphans' BY <2>5, <4>2, <4>3, <5>2 DEF Mine
        <5> QED BY <3>2, <5>3
      <4> QED BY <4>2, <4>3
    <3>3. orphans \subseteq orphans' BY <2>5
    <3> QED BY <2>3, <2>5, <3>2, <3>3
  <2>6. CASE End(a) /\ UNCHANGED locks
    <3>1. Moves(a, "idle") BY <2>6, EndMoves
    <3>2. "idle" \notin Critical \cup {"lock"} BY DEF Critical
    <3> QED BY <2>6, <3>1, <3>2, Leaves DEF locks
  <2> QED BY <1>4, <2>2, <2>4, <2>5, <2>6 DEF Guard
<1>5. CASE Outside \/ UNCHANGED vars
  BY <1>5 DEF Outside, vars, locks, LockInv, Mine
<1> QED BY <1>1, <1>2, <1>3, <1>4, <1>5 DEF Next, Locked, Step

\* One add works on a category at a time, but for those whose lock was evicted while they waited.
THEOREM OneAtWork == Spec => []OneEditor
<1>1. Init => TypeOK /\ NapInv /\ LockInv
  <2>1. 0 \in 0..(MaxRetries - 1) /\ 0 \in Nat /\ 0 \in 0..MaxAdds OBVIOUS
  <2>2. "idle" \in Place /\ "idle" \notin Critical \cup {"lock"} BY DEF Place, Critical
  <2> QED BY <2>1, <2>2 DEF Init, TypeOK, NapInv, LockInv
<1>2. TypeOK /\ NapInv /\ LockInv /\ [Next]_vars => TypeOK' /\ NapInv' /\ LockInv'
  BY NextType, NextNap, NextLock
<1>3. LockInv => OneEditor
  <2> SUFFICES ASSUME LockInv, NEW a \in Adder, NEW b \in Adder, a # b,
                      CategoryOf[a] = CategoryOf[b], pc[a] \in Critical, pc[b] \in Critical,
                      Mine(a) \notin orphans, Mine(b) \notin orphans
               PROVE FALSE
    BY DEF OneEditor, Mine
  <2>1. lock[a] = made[CategoryOf[a]] /\ lock[b] = made[CategoryOf[b]] BY DEF LockInv
  <2> QED BY <2>1 DEF LockInv
<1> QED BY <1>1, <1>2, <1>3, PTL DEF Spec

-----------------------------------------------------------------------------
(* The category first *)

\* A category that is there stays.
LEMMA CategoriesStay ==
    TypeOK /\ [Next]_vars => \A c \in Category : categories[c] # Missing => categories'[c] # Missing
<1> SUFFICES ASSUME TypeOK, [Next]_vars, NEW c \in Category, categories[c] # Missing
             PROVE categories'[c] # Missing
  OBVIOUS
<1>1. ASSUME NEW a \in Adder, Create(a) \/ Edit(a) PROVE categories'[c] # Missing
  BY <1>1, WriteType DEF Create, Edit
<1>2. CASE Outside BY <1>2 DEF Outside, TypeOK
<1>3. CASE UNCHANGED categories BY <1>3
<1>4. CASE UNCHANGED vars BY <1>4 DEF vars
<1>5. ASSUME NEW a \in Adder, Start(a) \/ Locked(a) \/ Step(a) \/ Cancel(a)
      PROVE categories'[c] # Missing
  <2>1. CASE Start(a) \/ PathLocked(a) \/ AskCategories(a) \/ AskTorrents(a) \/ AskDefault(a)
             \/ Escapes(a) \/ MakeDir(a) \/ Add(a) \/ Find(a) \/ Cancel(a) \/ GiveUp(a)
    BY <1>3, <2>1, Outer
  <2>2. CASE Guard(a) \/ Enter(a) \/ Ask(a) \/ Shows(a) \/ Fails(a) \/ Again(a)
    BY <1>3, <2>2 DEF Guard, Enter, Ask, Shows, Fails, Again
  <2> QED BY <1>1, <1>5, <2>1, <2>2 DEF Locked, Step
<1> QED BY <1>2, <1>4, <1>5 DEF Next

\* Every step keeps the categories that are being compared, and adds to none that is not there.
LEMMA NextSeen == TypeOK /\ SeenInv /\ [Next]_vars => SeenInv' /\ AddsToCategory
<1> SUFFICES ASSUME TypeOK, SeenInv, [Next]_vars PROVE SeenInv' /\ AddsToCategory
  OBVIOUS
<1>0. \A c \in Category : categories[c] # Missing => categories'[c] # Missing BY CategoriesStay
<1>1. ASSUME NEW a \in Adder, NEW p, pc' = [pc EXCEPT ![a] = p],
             p \in {"edit", "add"} => categories[CategoryOf[a]] # Missing
      PROVE SeenInv' /\ AddsToCategory
  <2>1. SeenInv' BY <1>0, <1>1 DEF SeenInv, TypeOK
  <2>2. AddsToCategory BY <1>0, <1>1 DEF AddsToCategory, TypeOK
  <2> QED BY <2>1, <2>2
<1>2. ASSUME NEW a \in Adder,
             \/ Start(a) \/ PathLocked(a) \/ AskCategories(a) \/ AskTorrents(a) \/ AskDefault(a)
             \/ Escapes(a) \/ MakeDir(a) \/ Add(a) \/ Find(a) \/ Cancel(a) \/ GiveUp(a)
      PROVE SeenInv' /\ AddsToCategory
  <2>1. PICK p \in Place \ (Critical \cup {"lock", "add"}) : Moves(a, p) BY <1>2, Outer
  <2>2. p \notin {"edit", "add"} BY DEF Critical
  <2> QED BY <1>1, <2>1, <2>2 DEF Moves
<1>3. ASSUME NEW a \in Adder, Guard(a) PROVE SeenInv' /\ AddsToCategory
  <2>1. \E p \in {"lock", "ask", "idle"} : pc' = [pc EXCEPT ![a] = p]
    BY <1>3 DEF Guard, NewLock, Queues, Goto, End
  <2> QED BY <1>1, <2>1
<1>4. ASSUME NEW a \in Adder, Raises(a) PROVE SeenInv' /\ AddsToCategory
  <2>1. \E p \in {"nap", "idle"} : pc' = [pc EXCEPT ![a] = p]
    BY <1>4 DEF Raises, GoOn, End, Goto
  <2> QED BY <1>1, <2>1
<1>5. ASSUME NEW a \in Adder, Enter(a) \/ Create(a) \/ Fails(a) \/ Again(a)
      PROVE SeenInv' /\ AddsToCategory
  <2>1. ASSUME NEW p \in {"ask", "wait"}, Goto(a, p) PROVE SeenInv' /\ AddsToCategory
    BY <1>1, <2>1 DEF Goto
  <2> QED BY <1>4, <1>5, <2>1 DEF Enter, Create, Fails, Again, GoOn
<1>6. ASSUME NEW a \in Adder, Ask(a) \/ Shows(a) \/ Edit(a) PROVE SeenInv' /\ AddsToCategory
  <2>1. CASE categories[CategoryOf[a]] # Missing
    <3>1. ASSUME NEW p, Goto(a, p) PROVE SeenInv' /\ AddsToCategory
      BY <1>1, <2>1, <3>1 DEF Goto
    <3> QED BY <1>4, <1>6, <3>1 DEF Ask, Shows, Edit, Compared, GoOn
  <2>2. CASE categories[CategoryOf[a]] = Missing
    <3>1. Ask(a) /\ GoOn(a, "create") BY <1>6, <2>2 DEF Ask, Shows, Edit, SeenInv
    <3> QED BY <1>1, <3>1 DEF GoOn, Goto
  <2> QED BY <2>1, <2>2
<1>7. CASE Outside \/ UNCHANGED vars
  BY <1>0, <1>7 DEF Outside, vars, SeenInv, AddsToCategory
<1> QED BY <1>2, <1>3, <1>5, <1>6, <1>7 DEF Next, Locked, Step

\* No torrent is added before its category has been seen in qBittorrent.
THEOREM CategoryIsFirst == Spec => CategoryFirst
<1>1. Init => TypeOK /\ NapInv /\ SeenInv
  <2>1. 0 \in 0..(MaxRetries - 1) /\ 0 \in Nat /\ 0 \in 0..MaxAdds OBVIOUS
  <2>2. "idle" \in Place BY DEF Place
  <2> QED BY <2>1, <2>2 DEF Init, TypeOK, NapInv, SeenInv
<1>2. TypeOK /\ NapInv /\ SeenInv /\ [Next]_vars => TypeOK' /\ NapInv' /\ SeenInv'
  BY NextType, NextNap, NextSeen
<1>3. TypeOK /\ SeenInv /\ [Next]_vars => [AddsToCategory]_vars BY NextSeen
<1> QED BY <1>1, <1>2, <1>3, PTL DEF Spec, CategoryFirst

-----------------------------------------------------------------------------
(* One base *)

\* A step that leaves the cache, and takes a where its path does not change.
LEMMA Later ==
    ASSUME TypeOK, PathInv, NEW a \in Adder, NEW p \in Place, Moves(a, p), cached' = cached,
           (Settled(a))' => Settled(a) /\ wanted'[a] = wanted[a],
           p = "idle" => ~relative'[a],
           p \in {"askcategories", "asktorrents", "askdefault"}
              => /\ cached = Unknown
                 /\ \A b \in Adder \ {a} : ~Probes(b)
    PROVE PathInv'
<1>1. pc'[a] = p /\ \A b \in Adder \ {a} :
         pc'[b] = pc[b] /\ wanted'[b] = wanted[b] /\ relative'[b] = relative[b]
  BY DEF Moves, TypeOK
<1>2. \A b \in Adder \ {a} : (Settled(b))' = Settled(b) /\ (Probes(b))' = Probes(b)
  BY <1>1 DEF Settled, Probes
<1>4. (Probes(a))' <=> p \in {"askcategories", "asktorrents", "askdefault"} BY <1>1 DEF Probes
<1>5. \A b \in Adder : (Settled(b))' => cached' # Unknown /\ wanted'[b] = Used(cached)
  BY <1>1, <1>2 DEF PathInv
<1>6. (Used(cached))' = Used(cached) OBVIOUS
<1>7. \A b \in Adder : (Probes(b))' => cached' = Unknown BY <1>2, <1>4 DEF PathInv
<1>8. \A b, d \in Adder : (Probes(b))' /\ (Probes(d))' => b = d BY <1>2, <1>4 DEF PathInv
<1>9. \A b \in Adder : pc'[b] = "idle" => ~relative'[b] BY <1>1 DEF PathInv
<1> QED BY <1>5, <1>6, <1>7, <1>8, <1>9 DEF PathInv

\* A step in which the path of a is settled, by the cache as it is then.
LEMMA Settles ==
    ASSUME TypeOK, PathInv, NEW a \in Adder, NEW path \in Base \cup {NotFound},
           Resolved(a, Used(path)), cached' = path,
           relative' = relative \/ relative' = [relative EXCEPT ![a] = TRUE],
           cached = path \/ Probes(a)
    PROVE PathInv'
<1>1. Used(path) \in Base BY UsedType
<1>2. /\ \E p \in {"mkdir", "guard"} : pc' = [pc EXCEPT ![a] = p]
      /\ wanted' = [wanted EXCEPT ![a] = Used(path)]
  BY DEF Resolved, Goto
<1>3. ~(Probes(a))' /\ pc'[a] # "idle" BY <1>2 DEF Probes, TypeOK
<1>4. \A b \in Adder \ {a} : (Settled(b))' = Settled(b) /\ (Probes(b))' = Probes(b)
                             /\ wanted'[b] = wanted[b] /\ pc'[b] = pc[b] /\ relative'[b] = relative[b]
  BY <1>2 DEF Settled, Probes, TypeOK
<1>5. wanted'[a] = Used(path) /\ path # Unknown BY <1>2 DEF TypeOK
<1>6. \A b \in Adder : ~(Probes(b))'
  BY <1>3, <1>4, <1>5 DEF PathInv
<1>7. \A b \in Adder \ {a} : Settled(b) => cached = path BY <1>5 DEF PathInv
<1>8. \A b \in Adder : (Settled(b))' => cached' # Unknown /\ wanted'[b] = Used(path)
  BY <1>4, <1>5, <1>7 DEF PathInv
<1>9. (Used(cached))' = Used(path) BY DEF Used
<1>10. \A b \in Adder : pc'[b] = "idle" => ~relative'[b] BY <1>3, <1>4 DEF PathInv
<1> QED BY <1>6, <1>8, <1>9, <1>10 DEF PathInv

\* Every step keeps the invariant of the base.
LEMMA NextPath == TypeOK /\ PathInv /\ [Next]_vars => PathInv'
<1> SUFFICES ASSUME TypeOK, PathInv, [Next]_vars PROVE PathInv'
  OBVIOUS
<1> DEFINE Low == {"idle", "pathlock", "askcategories", "asktorrents", "askdefault"}
<1>0. Critical \cap Low = {} /\ Critical \subseteq Place BY DEF Critical, Place
<1>a. ASSUME NEW a \in Adder, End(a), cached' = cached PROVE PathInv'
  <2>1. Moves(a, "idle") /\ "idle" \in Place BY <1>a, EndMoves DEF Place
  <2>2. ~relative'[a] BY <1>a DEF End, TypeOK
  <2>3. ~(Settled(a))' BY <2>2 DEF Settled
  <2> QED BY <1>a, <2>1, <2>2, <2>3, Later
<1>b. ASSUME NEW a \in Adder, NEW p \in Place \ Low, pc[a] \notin Low, Moves(a, p),
             relative'[a] = relative[a], wanted'[a] = wanted[a], cached' = cached
      PROVE PathInv'
  <2>1. (Settled(a))' => Settled(a)
    BY <1>b DEF Settled, TypeOK
  <2> QED BY <1>b, <2>1, Later
<1>c. ASSUME NEW a \in Adder, NEW p \in Place \ Low, pc[a] \notin Low, GoOn(a, p), cached' = cached
      PROVE PathInv'
  <2>1. Moves(a, p) /\ UNCHANGED <<relative, wanted>> BY <1>c, OnMoves
  <2> QED BY <1>b, <1>c, <2>1
<1>d. ASSUME NEW a \in Adder, NEW p \in {"askcategories", "asktorrents", "askdefault"}, GoOn(a, p),
             cached' = cached, cached = Unknown, \A b \in Adder \ {a} : ~Probes(b)
      PROVE PathInv'
  <2>1. p \in Place BY DEF Place
  <2>2. Moves(a, p) BY <1>d, <2>1, OnMoves
  <2>3. ~(Settled(a))' BY <2>1, <2>2 DEF Moves, Settled, TypeOK
  <2> QED BY <1>d, <2>1, <2>2, <2>3, Later
<1>1. ASSUME NEW a \in Adder, Start(a) PROVE PathInv'
  <2>1. pc[a] = "idle" /\ cached' = cached /\ ~relative[a] BY <1>1 DEF Start, PathInv
  <2>2. ASSUME NEW path \in Absolute, Resolved(a, path), UNCHANGED relative PROVE PathInv'
    <3>1. PICK p \in {"mkdir", "guard"} : Moves(a, p) BY <2>2, ResolvedMoves
    <3>2. p \in Place BY DEF Place
    <3>3. ~(Settled(a))' BY <2>1, <2>2 DEF Settled
    <3> QED BY <2>1, <3>1, <3>2, <3>3, Later
  <2>3. CASE relative' = [relative EXCEPT ![a] = TRUE] /\ cached # Unknown /\ Resolved(a, Used(cached))
    <3>1. cached \in Base \cup {NotFound} BY <2>3 DEF TypeOK
    <3> QED BY <2>1, <2>3, <3>1, Settles
  <2>4. CASE relative' = [relative EXCEPT ![a] = TRUE] /\ Goto(a, "pathlock")
             /\ UNCHANGED <<wanted, attempt, lock>>
    <3>1. Moves(a, "pathlock") /\ "pathlock" \in Place BY <2>4 DEF Moves, Goto, TypeOK, Place
    <3>2. ~(Settled(a))' BY <3>1 DEF Settled, Moves, TypeOK
    <3> QED BY <2>1, <3>1, <3>2, Later
  <2> QED BY <1>1, <1>a, <2>1, <2>2, <2>3, <2>4 DEF Start
<1>2. ASSUME NEW a \in Adder, PathLocked(a) PROVE PathInv'
  <2>1. cached' = cached /\ \A b \in Adder : ~Probes(b) BY <1>2 DEF PathLocked
  <2>2. CASE cached = Unknown /\ GoOn(a, "askcategories") BY <1>d, <2>1, <2>2
  <2>3. CASE cached # Unknown /\ Resolved(a, Used(cached)) /\ UNCHANGED relative
    <3>1. cached \in Base \cup {NotFound} BY <2>3 DEF TypeOK
    <3> QED BY <2>1, <2>3, <3>1, Settles
  <2> QED BY <1>2, <2>2, <2>3 DEF PathLocked
<1>3. ASSUME NEW a \in Adder, AskCategories(a) \/ AskTorrents(a) \/ AskDefault(a) PROVE PathInv'
  <2>1. Probes(a) BY <1>3 DEF AskCategories, AskTorrents, AskDefault, Probes
  <2>2. ASSUME NEW path \in Base \cup {NotFound}, Found(a, path) PROVE PathInv'
    BY <2>1, <2>2, Settles DEF Found
  <2>3. cached = Unknown /\ \A b \in Adder \ {a} : ~Probes(b) BY <2>1 DEF PathInv
  <2>4. CASE (GoOn(a, "asktorrents") \/ GoOn(a, "askdefault")) /\ UNCHANGED cached
    BY <1>d, <2>3, <2>4
  <2> QED BY <1>3, <2>2, <2>4 DEF AskCategories, AskTorrents, AskDefault
<1>4. ASSUME NEW a \in Adder, Escapes(a) \/ GiveUp(a) \/ Find(a) \/ Cancel(a) PROVE PathInv'
  BY <1>4, <1>a DEF Escapes, GiveUp, Find, Cancel
<1>5. ASSUME NEW a \in Adder, MakeDir(a) \/ Add(a) PROVE PathInv'
  <2>1. {"guard", "find"} \subseteq Place \ Low /\ {"mkdir", "add"} \cap Low = {} BY DEF Place
  <2> QED BY <1>5, <1>a, <1>c, <2>1 DEF MakeDir, Add
<1>6. ASSUME NEW a \in Adder, Guard(a) PROVE PathInv'
  <2>1. pc[a] = "guard" /\ cached' = cached BY <1>6 DEF Guard
  <2>2. {"lock", "ask"} \subseteq Place \ Low BY DEF Place, Critical
  <2>3. ASSUME NEW n, Queues(a, n) PROVE PathInv'
    <3>1. \E p \in {"lock", "ask"} : Goto(a, p) BY <2>3 DEF Queues
    <3>2. UNCHANGED <<relative, wanted>> /\ \A b \in Adder \ {a} : lock'[b] = lock[b]
      BY <2>3 DEF Queues, add, TypeOK
    <3>3. \E p \in {"lock", "ask"} : Moves(a, p) BY <3>1, <3>2 DEF Goto, Moves
    <3> QED BY <1>b, <2>1, <2>2, <3>2, <3>3
  <2> QED BY <1>6, <1>a, <2>1, <2>3 DEF Guard, NewLock
<1>7. ASSUME NEW a \in Adder, Raises(a), cached' = cached, pc[a] \in Critical PROVE PathInv'
  <2>1. "nap" \in Place \ Low BY <1>0 DEF Critical
  <2> QED BY <1>0, <1>7, <1>a, <1>c, <2>1 DEF Raises
<1>8. ASSUME NEW a \in Adder, Enter(a) \/ Ask(a) \/ Shows(a) \/ Create(a) \/ Edit(a) \/ Fails(a)
      PROVE PathInv'
  <2>1. cached' = cached BY <1>8 DEF Enter, Ask, Shows, Create, Edit, Fails
  <2>2. pc[a] \notin Low /\ (pc[a] \in Critical \/ Enter(a))
    BY <1>8 DEF Enter, Ask, Shows, Create, Edit, Fails, Critical
  <2>3. {"ask", "create", "edit", "wait", "add"} \subseteq Place \ Low BY DEF Critical, Place
  <2>5. \/ \E p \in {"ask", "create", "edit", "wait", "add"} : GoOn(a, p)
        \/ Raises(a) /\ pc[a] \in Critical
    BY <1>8 DEF Enter, Ask, Shows, Create, Edit, Fails, Compared, Critical
  <2> QED BY <1>7, <1>c, <2>1, <2>2, <2>3, <2>5
<1>9. ASSUME NEW a \in Adder, Again(a) PROVE PathInv'
  <2>1. pc[a] = "nap" /\ UNCHANGED <<relative, wanted, lock, cached>> /\ Goto(a, "ask")
    BY <1>9 DEF Again
  <2>2. "ask" \in Place \ Low /\ Moves(a, "ask") BY <2>1 DEF Goto, Moves, Place, Critical
  <2> QED BY <1>b, <2>1, <2>2
<1>10. CASE Outside \/ UNCHANGED vars
  BY <1>10 DEF Outside, vars, add, PathInv, Settled, Probes, Used
<1> QED BY <1>1, <1>2, <1>3, <1>4, <1>5, <1>6, <1>8, <1>9, <1>10 DEF Next, Locked, Step

\* All relative paths are resolved against one base.
THEOREM BaseIsOne == Spec => []BaseSettled
<1>1. Init => TypeOK /\ NapInv /\ PathInv
  <2>1. 0 \in 0..(MaxRetries - 1) /\ 0 \in Nat /\ 0 \in 0..MaxAdds OBVIOUS
  <2>2. "idle" \in Place BY DEF Place
  <2> QED BY <2>1, <2>2 DEF Init, TypeOK, NapInv, PathInv, Settled, Probes
<1>2. TypeOK /\ NapInv /\ PathInv /\ [Next]_vars => TypeOK' /\ NapInv' /\ PathInv'
  BY NextType, NextNap, NextPath
<1>3. PathInv => BaseSettled BY DEF PathInv, BaseSettled
<1> QED BY <1>1, <1>2, <1>3, PTL DEF Spec
====================================================================================
