------------------------- MODULE ItemLifecycle_proofs -------------------------
(***************************************************************************)
(* Theorems about ItemLifecycle, for any number of hashes, batches, flows   *)
(* and categories and any bound on the events.                              *)
(***************************************************************************)
EXTENDS ItemLifecycle, TLAPS

\* The groups of variables are only names for tuples.
USE DEF library, torrents, leftovers, downloads, classifier, sync

-----------------------------------------------------------------------------
(***************************************************************************)
(* Types.                                                                  *)
(***************************************************************************)

\* The steps of a download batch keep the types.
LEMMA BatchTypes ==
    ASSUME TypeOK, NEW b \in Batch, BatchStep(b)
    PROVE  TypeOK'
<1> USE SlotsAssumption DEF TypeOK, ChildPhase, Row, Status
<1>1. ASSUME NEW h \in Hash, ReadRow(b, h) PROVE TypeOK'
  BY <1>1 DEF ReadRow, Step
<1>2. ASSUME NEW h \in Hash, Admit(b, h) PROVE TypeOK'
  BY <1>2 DEF Admit, Step
<1>3. ASSUME NEW h \in Hash, Lock(b, h) PROVE TypeOK'
  BY <1>3 DEF Lock, Step
<1>4. ASSUME NEW h \in Hash, CheckRow(b, h) PROVE TypeOK'
  BY <1>4 DEF CheckRow, Step
<1>5. ASSUME NEW h \in Hash, MarkAdding(b, h) PROVE TypeOK'
  BY <1>5 DEF MarkAdding, Step, Write
<1>6. ASSUME NEW h \in Hash, NEW s \in Mapped, QbAccepts(b, h, s) PROVE TypeOK'
  BY <1>6 DEF QbAccepts, Step
<1>7. ASSUME NEW h \in Hash, AddSucceeds(b, h) PROVE TypeOK'
  BY <1>7 DEF AddSucceeds, Step
<1>8. ASSUME NEW h \in Hash, AddFails(b, h) PROVE TypeOK'
  BY <1>8 DEF AddFails, Step
<1>9. ASSUME NEW h \in Hash, CheckAdding(b, h) PROVE TypeOK'
  BY <1>9 DEF CheckAdding, Step
<1>10. ASSUME NEW h \in Hash, MarkQueued(b, h) PROVE TypeOK'
  BY <1>10 DEF MarkQueued, Step, Write
<1>11. ASSUME NEW h \in Hash, CheckFailed(b, h) PROVE TypeOK'
  BY <1>11 DEF CheckFailed, Step
<1>12. ASSUME NEW h \in Hash, MarkFailed(b, h) PROVE TypeOK'
  BY <1>12 DEF MarkFailed, Step, Write
<1>13. ASSUME NEW h \in Hash, TaskRaises(b, h) PROVE TypeOK'
  BY <1>13 DEF TaskRaises, Step, Event
<1>14. ASSUME NEW h \in Hash, FailureLost(b, h) PROVE TypeOK'
  BY <1>14 DEF FailureLost, Event
<1>15. ASSUME NEW h \in Hash, Sweep(b, h) PROVE TypeOK'
  BY <1>15 DEF Sweep, Step
<1>16. ASSUME NEW S \in SUBSET Hash, Download(b, S) PROVE TypeOK'
  BY <1>16 DEF Download, Event
<1>17. CASE TimeOut(b)
  <2>1. Interrupted(b) \subseteq LateWrite
    BY DEF Interrupted, LateWrite, Mapped
  <2>2. Unanswered(b) \subseteq Hash
    BY DEF Unanswered
  <2> QED BY <1>17, <2>1, <2>2 DEF TimeOut
<1>18. CASE BatchEnds(b)
  BY <1>18 DEF BatchEnds
<1> QED
  BY <1>1, <1>2, <1>3, <1>4, <1>5, <1>6, <1>7, <1>8, <1>9, <1>10, <1>11, <1>12, <1>13,
     <1>14, <1>15, <1>16, <1>17, <1>18 DEF BatchStep, ChildStep

\* The steps of a classification flow keep the types.
LEMMA FlowTypes ==
    ASSUME TypeOK, NEW f \in Flow, FlowStep(f)
    PROVE  TypeOK'
<1> USE SlotsAssumption DEF TypeOK, FlowPhase, Row, Status
<1>1. ASSUME NEW h \in Hash, Found(f, h) PROVE TypeOK'
  BY <1>1 DEF Found, Event
<1>2. ASSUME NEW a \in BOOLEAN, Gather(f, a) PROVE TypeOK'
  BY <1>2 DEF Gather
<1>3. ASSUME NEW S \in SUBSET Hash, Reclassify(f, S) PROVE TypeOK'
  BY <1>3 DEF Reclassify, Event
<1>4. ASSUME NEW h \in Hash, Started(f, h) PROVE TypeOK'
  BY <1>4 DEF Started, WriteIf
<1>5. CASE ClassifierAnswers(f)
  BY <1>5 DEF ClassifierAnswers
<1>6. CASE ClassifierRaises(f)
  BY <1>6 DEF ClassifierRaises, Event
<1>7. ASSUME NEW h \in Hash, ClassifyOneFails(f, h) PROVE TypeOK'
  BY <1>7 DEF ClassifyOneFails, Event
<1>8. ASSUME NEW h \in Hash, NEW c \in Category, Classified(f, h, c) PROVE TypeOK'
  BY <1>8 DEF Classified, Verdict, WriteIf
<1>9. CASE FlowEnds(f)
  BY <1>9 DEF FlowEnds
<1>10. ASSUME NEW h \in Hash, RollBack(f, h) PROVE TypeOK'
  BY <1>10 DEF RollBack, GiveBack, WriteIf
<1>11. ASSUME NEW b \in Batch, AutoDownload(f, b) PROVE TypeOK'
  BY <1>11 DEF AutoDownload, ChildPhase
<1>12. ASSUME NEW h \in Hash, StartedFails(f, h) PROVE TypeOK'
  BY <1>12 DEF StartedFails, Event
<1>13. ASSUME NEW h \in Hash, ClassifiedRaises(f, h) PROVE TypeOK'
  <2>1. status' \in [Hash -> Row] /\ category' \in [Hash -> Category \cup {NoCategory}]
    <3>1. CASE UNCHANGED library
      BY <3>1
    <3>2. ASSUME NEW c \in Category, Verdict(h, c)
          PROVE  status' \in [Hash -> Row] /\ category' \in [Hash -> Category \cup {NoCategory}]
      BY <3>2 DEF Verdict, WriteIf
    <3> QED BY <1>13, <3>1, <3>2 DEF ClassifiedRaises
  <2> QED BY <1>13, <2>1 DEF ClassifiedRaises, Event
<1>14. ASSUME NEW h \in Hash, BotchedBack(f, h) PROVE TypeOK'
  BY <1>14 DEF BotchedBack, GiveBack, WriteIf
<1>15. ASSUME NEW h \in Hash, BotchedLost(f, h) PROVE TypeOK'
  BY <1>15 DEF BotchedLost, GiveBack, WriteIf, Abandon, Event
<1>16. ASSUME NEW h \in Hash, ClassifyOneBreaks(f, h) PROVE TypeOK'
  BY <1>16 DEF ClassifyOneBreaks, Abandon, Event
<1>17. ASSUME NEW h \in Hash, RollBackFails(f, h) PROVE TypeOK'
  BY <1>17 DEF RollBackFails, Event
<1>18. CASE RollBackAborts(f)
  BY <1>18 DEF RollBackAborts, Abandon, Event
<1> QED
  BY <1>1, <1>2, <1>3, <1>4, <1>5, <1>6, <1>7, <1>8, <1>9, <1>10, <1>11, <1>12, <1>13,
     <1>14, <1>15, <1>16, <1>17, <1>18 DEF FlowStep

\* The steps of the sync loop keep the types.
LEMMA SyncTypes ==
    ASSUME TypeOK, SyncStep
    PROVE  TypeOK'
<1> USE SlotsAssumption DEF TypeOK, Row, Status, Mapped, RoundPhase
<1>1. ASSUME NEW full \in BOOLEAN, Poll(full) PROVE TypeOK'
  BY <1>1 DEF Poll, Live
<1>2. CASE List
  BY <1>2 DEF List, Reconciled
<1>3. CASE RoundEnds
  BY <1>3 DEF RoundEnds, NoRound
<1>4. CASE RoundAborts
  BY <1>4 DEF RoundAborts, NoRound, Event, LateWrite
<1>5. ASSUME NEW h \in Hash, Reconcile(h) PROVE TypeOK'
  BY <1>5 DEF Reconcile, Write
<1>6. ASSUME NEW h \in Hash, ReconcileFails(h) PROVE TypeOK'
  BY <1>6 DEF ReconcileFails, Event
<1> QED
  BY <1>1, <1>2, <1>3, <1>4, <1>5, <1>6 DEF SyncStep

\* What users, qBittorrent, orphaned calls and restarts do keeps the types.
LEMMA OutsideTypes ==
    ASSUME TypeOK, OutsideStep
    PROVE  TypeOK'
<1> USE SlotsAssumption DEF TypeOK, Row, Status, Mapped
<1>1. ASSUME NEW h \in Hash, StartEdit(h) PROVE TypeOK'
  BY <1>1 DEF StartEdit, Event
<1>2. ASSUME NEW h \in Hash, QbDeletes(h) PROVE TypeOK'
  BY <1>2 DEF QbDeletes, Event
<1>3. ASSUME NEW h \in Hash, WireLoses(h) PROVE TypeOK'
  BY <1>3 DEF WireLoses
<1>4. ASSUME NEW h \in Hash, NEW c \in Category, FinishEdit(h, c) PROVE TypeOK'
  BY <1>4 DEF FinishEdit
<1>5. ASSUME NEW h \in Hash, NEW s \in Mapped, QbMoves(h, s) PROVE TypeOK'
  BY <1>5 DEF QbMoves, Event
<1>6. ASSUME NEW h \in Hash, NEW s \in Mapped, WireDelivers(h, s) PROVE TypeOK'
  BY <1>6 DEF WireDelivers
<1>7. ASSUME NEW w \in LateWrite, LateLands(w) PROVE TypeOK'
  BY <1>7 DEF LateLands, Write, LateWrite
<1>8. ASSUME NEW S \in SUBSET Hash, Remove(S) PROVE TypeOK'
  BY <1>8 DEF Remove, Event
<1>9. CASE Restart
  <2>1. UNION {Unanswered(b) : b \in Batch} \subseteq Hash
    BY DEF Unanswered
  <2> QED BY <1>9, <2>1 DEF Restart, Recovered, NoRound, Event, ChildPhase, FlowPhase, RoundPhase
<1> QED
  BY <1>1, <1>2, <1>3, <1>4, <1>5, <1>6, <1>7, <1>8, <1>9 DEF OutsideStep

\* Every variable keeps its type: whatever interleaves, a row's status is one of the
\* program's and every task is in one of its phases.
THEOREM TypeCorrect == Spec => []TypeOK
<1>1. Init => TypeOK
  BY SlotsAssumption
  DEF Init, TypeOK, Row, Status, Mapped, ChildPhase, FlowPhase, RoundPhase, LateWrite
<1>2. TypeOK /\ [Next]_vars => TypeOK'
  <2> SUFFICES ASSUME TypeOK, [Next]_vars PROVE TypeOK'
    OBVIOUS
  <2>1. CASE UNCHANGED vars
    BY <2>1 DEF vars, TypeOK
  <2> QED BY <2>1, BatchTypes, FlowTypes, SyncTypes, OutsideTypes DEF Next
<1> QED BY <1>1, <1>2, PTL DEF Spec

-----------------------------------------------------------------------------
(***************************************************************************)
(* A row in adding has a task that will still change it, or is adrift.      *)
(* With the types, the invariant is inductive as it stands.                 *)
(***************************************************************************)

\* A step of a task that leaves the row alone, or takes it out of adding, keeps the owner
\* unless it moves the owner itself.
LEMMA OwnerStays ==
    ASSUME TypeOK, AddingIsOwned,
           NEW b \in Batch, NEW h \in Hash, NEW p, Step(b, h, p),
           \A g \in Hash : status'[g] = "adding" /\ g # h => status[g] = "adding",
           adrift \subseteq adrift' \cup {h},
           status'[h] = "adding" =>
               \/ p \in Answerable
               \/ status[h] = "adding" /\ child[b][h] \notin Answerable /\ adrift' = adrift
    PROVE  AddingIsOwned'
<1> SUFFICES ASSUME NEW g \in Hash, status'[g] = "adding", g \notin adrift'
             PROVE  \E c \in Batch : child'[c][g] \in Answerable
  BY DEF AddingIsOwned, Owned, Answerable
<1>1. CASE g # h
  <2>1. PICK c \in Batch : child[c][g] \in Answerable
    BY <1>1 DEF AddingIsOwned, Owned
  <2> QED BY <1>1, <2>1 DEF Step, TypeOK
<1>2. CASE g = h /\ p \in Answerable
  BY <1>2 DEF Step, TypeOK
<1>3. CASE g = h /\ p \notin Answerable
  <2>1. PICK c \in Batch : child[c][h] \in Answerable
    BY <1>3 DEF AddingIsOwned, Owned
  <2> QED BY <1>3, <2>1 DEF Step, TypeOK
<1> QED BY <1>1, <1>2, <1>3

\* A step that puts no row in adding and takes no task out of an answerable phase.
LEMMA OwnersStay ==
    ASSUME AddingIsOwned,
           \A h \in Hash : status'[h] = "adding" => status[h] = "adding",
           \A b \in Batch, h \in Hash :
               child[b][h] \in Answerable => child'[b][h] \in Answerable,
           adrift' = adrift
    PROVE  AddingIsOwned'
<1> SUFFICES ASSUME NEW h \in Hash, status'[h] = "adding", h \notin adrift'
             PROVE  \E b \in Batch : child'[b][h] \in Answerable
  BY DEF AddingIsOwned, Owned, Answerable
<1>1. PICK b \in Batch : child[b][h] \in Answerable
  BY DEF AddingIsOwned, Owned
<1> QED BY <1>1

\* Whatever a step of a download batch does.
LEMMA BatchOwns ==
    ASSUME TypeOK, AddingIsOwned, NEW b \in Batch, BatchStep(b)
    PROVE  AddingIsOwned'
<1>1. ASSUME NEW h \in Hash, ChildStep(b, h) PROVE AddingIsOwned'
  <2> USE DEF Answerable
  <2>1. CASE ReadRow(b, h)
    BY <1>1, <2>1, OwnerStays DEF ReadRow
  <2>2. CASE Admit(b, h)
    BY <2>2, OwnerStays DEF Admit
  <2>3. CASE Lock(b, h)
    BY <2>3, OwnerStays DEF Lock
  <2>4. CASE CheckRow(b, h)
    BY <2>4, OwnerStays DEF CheckRow
  <2>5. CASE MarkAdding(b, h)
    BY <2>5, OwnerStays DEF MarkAdding, Write, TypeOK
  <2>6. ASSUME NEW s \in Mapped, QbAccepts(b, h, s) PROVE AddingIsOwned'
    BY <2>6, OwnerStays DEF QbAccepts
  <2>7. CASE AddSucceeds(b, h)
    BY <2>7, OwnerStays DEF AddSucceeds
  <2>8. CASE AddFails(b, h)
    BY <2>8, OwnerStays DEF AddFails
  <2>9. CASE CheckAdding(b, h)
    BY <2>9, OwnerStays DEF CheckAdding
  <2>10. CASE MarkQueued(b, h)
    BY <2>10, OwnerStays DEF MarkQueued, Write, TypeOK
  <2>11. CASE CheckFailed(b, h)
    BY <2>11, OwnerStays DEF CheckFailed
  <2>12. CASE MarkFailed(b, h)
    BY <2>12, OwnerStays DEF MarkFailed, Write, TypeOK
  <2>13. CASE Sweep(b, h)
    BY <2>13, OwnerStays DEF Sweep
  <2>14. CASE TaskRaises(b, h)
    BY <2>14, OwnerStays DEF TaskRaises
  <2>15. CASE FailureLost(b, h)
    <3> SUFFICES ASSUME NEW g \in Hash, status'[g] = "adding", ~ Owned(g)'
                 PROVE  g \in adrift'
      BY DEF AddingIsOwned
    <3>1. status[g] = "adding"
      BY <2>15 DEF FailureLost
    <3> QED BY <2>15, <3>1 DEF FailureLost, AddingIsOwned
  <2> QED
    BY <1>1, <2>1, <2>2, <2>3, <2>4, <2>5, <2>6, <2>7, <2>8, <2>9, <2>10, <2>11, <2>12,
       <2>13, <2>14, <2>15 DEF ChildStep
<1>2. ASSUME NEW S \in SUBSET Hash, Download(b, S) PROVE AddingIsOwned'
  <2>1. \A c \in Batch, h \in Hash : child[c][h] \in Answerable => child'[c][h] \in Answerable
    BY <1>2 DEF Answerable, Download, Unused, TypeOK
  <2>2. status' = status /\ adrift' = adrift
    BY <1>2 DEF Download
  <2> QED BY <2>1, <2>2, OwnersStay
<1>3. CASE TimeOut(b)
  <2>1. \A c \in Batch, h \in Hash : child[c][h] \in Answerable => child'[c][h] \in Answerable
    BY <1>3 DEF Answerable, TimeOut, TypeOK
  <2>2. status' = status /\ adrift' = adrift
    BY <1>3 DEF TimeOut
  <2> QED BY <2>1, <2>2, OwnersStay
<1>4. CASE BatchEnds(b)
  <2>1. \A c \in Batch, h \in Hash : child[c][h] \in Answerable => child'[c][h] \in Answerable
    BY <1>4 DEF Answerable, BatchEnds, TypeOK
  <2>2. status' = status /\ adrift' = adrift
    BY <1>4 DEF BatchEnds
  <2> QED BY <2>1, <2>2, OwnersStay
<1> QED BY <1>1, <1>2, <1>3, <1>4 DEF BatchStep

\* A classification flow neither takes an owner away nor puts a row in adding.
LEMMA FlowOwns ==
    ASSUME TypeOK, AddingIsOwned, NEW f \in Flow, FlowStep(f)
    PROVE  AddingIsOwned'
<1>1. ASSUME NEW b \in Batch, AutoDownload(f, b) PROVE AddingIsOwned'
  <2>1. \A c \in Batch, h \in Hash : child[c][h] \in Answerable => child'[c][h] \in Answerable
    BY <1>1 DEF Answerable, AutoDownload, Unused, TypeOK
  <2>2. status' = status /\ adrift' = adrift
    BY <1>1 DEF AutoDownload
  <2> QED BY <2>1, <2>2, OwnersStay
<1>2. CASE ~ \E b \in Batch : AutoDownload(f, b)
  <2>1. child' = child /\ adrift' = adrift
    BY <1>2 DEF FlowStep, Found, Gather, Reclassify, Started, StartedFails, ClassifierAnswers,
                ClassifierRaises, ClassifyOneFails, ClassifyOneBreaks, Classified,
                ClassifiedRaises, BotchedBack, BotchedLost, FlowEnds, RollBack, RollBackFails,
                RollBackAborts
  <2>2. \A h \in Hash : status'[h] = "adding" => status[h] = "adding"
    BY <1>2 DEF FlowStep, Found, Gather, Reclassify, Started, StartedFails, ClassifierAnswers,
                ClassifierRaises, ClassifyOneFails, ClassifyOneBreaks, Classified,
                ClassifiedRaises, BotchedBack, BotchedLost, FlowEnds, RollBack, RollBackFails,
                RollBackAborts, GiveBack, Verdict, WriteIf, TypeOK
  <2> QED BY <2>1, <2>2, OwnersStay
<1> QED BY <1>1, <1>2

\* Of everybody else, only a write of a dead task puts a row in adding.
LEMMA OthersOwn ==
    ASSUME TypeOK, AddingIsOwned, SyncStep \/ OutsideStep
    PROVE  AddingIsOwned'
<1>1. CASE Restart
  <2>1. PICK S \in SUBSET Hash : /\ status' = Recovered(S)
                                 /\ adrift' = {h \in Hash \ S : status[h] = "adding"}
    BY <1>1 DEF Restart
  <2> QED BY <2>1 DEF Recovered, AddingIsOwned
<1>2. ASSUME NEW w \in LateWrite, LateLands(w) PROVE AddingIsOwned'
  <2> SUFFICES ASSUME NEW h \in Hash, status'[h] = "adding", h \notin adrift'
               PROVE  Owned(h)'
    BY DEF AddingIsOwned
  <2>1. child' = child /\ adrift \subseteq adrift'
    BY <1>2 DEF LateLands
  <2>2. CASE h = w.hash /\ w.to = "adding"
    BY <1>2, <2>1, <2>2 DEF LateLands, Write, Owned, TypeOK
  <2>3. CASE h # w.hash \/ w.to # "adding"
    <3>1. status[h] = "adding"
      BY <1>2, <2>3 DEF LateLands, Write, TypeOK
    <3> QED BY <2>1, <3>1 DEF AddingIsOwned, Owned
  <2> QED BY <2>2, <2>3
<1>3. CASE ~Restart /\ ~ \E w \in LateWrite : LateLands(w)
  <2>1. child' = child /\ adrift' = adrift
    BY <1>3 DEF SyncStep, Poll, List, RoundEnds, RoundAborts, Reconcile, ReconcileFails,
                OutsideStep, StartEdit, QbDeletes, WireLoses, FinishEdit, QbMoves,
                WireDelivers, Remove
  <2>2. \A h \in Hash : status'[h] = "adding" => status[h] = "adding"
    <3>1. ASSUME NEW h \in Hash, Reconcile(h), NEW g \in Hash, status'[g] = "adding"
          PROVE  status[g] = "adding"
      BY <3>1 DEF Reconcile, Write, TypeOK, Mapped
    <3>2. ASSUME NEW S \in SUBSET Hash, Remove(S), NEW g \in Hash, status'[g] = "adding"
          PROVE  status[g] = "adding"
      BY <3>2 DEF Remove
    <3> QED
      BY <1>3, <3>1, <3>2 DEF SyncStep, Poll, List, RoundEnds, RoundAborts, ReconcileFails,
                  OutsideStep, StartEdit, QbDeletes, WireLoses, FinishEdit, QbMoves,
                  WireDelivers
  <2> QED BY <2>1, <2>2, OwnersStay
<1> QED BY <1>1, <1>2, <1>3

\* A row in adding has a task that has still to answer for it (_download_single_item, the
\* handler of the timeout), or one of the named faults has set it adrift: with late writes,
\* failing store calls and restarts, for any number of rows and batches.
THEOREM AddingOwned == Spec => []AddingIsOwned
<1>1. Init => AddingIsOwned
  BY DEF Init, AddingIsOwned
<1>2. TypeOK /\ AddingIsOwned /\ [Next]_vars => AddingIsOwned'
  <2> SUFFICES ASSUME TypeOK, AddingIsOwned, [Next]_vars PROVE AddingIsOwned'
    OBVIOUS
  <2>1. CASE UNCHANGED vars
    BY <2>1, OwnersStay DEF vars
  <2> QED BY <2>1, BatchOwns, FlowOwns, OthersOwn DEF Next
<1> QED BY <1>1, <1>2, TypeCorrect, PTL DEF Spec

-----------------------------------------------------------------------------
(***************************************************************************)
(* A row in classifying is in the hands of a flow.  What has to be known    *)
(* besides: a flow that still collects rows has claimed none, so that       *)
(* Gather, which starts the flow's list afresh, drops no claim.             *)
(***************************************************************************)
Collecting(f) == \E h \in Hash : flow[f][h] = "found"

FlowStages == \A f \in Flow : Collecting(f) => \A h \in Hash : flow[f][h] \in {"none", "found"}

\* A step that puts no row in classifying and takes none out of a flow's hands.
LEMMA HandsStay ==
    ASSUME ClassifyingIsOwned, stranded \subseteq stranded',
           \A h \in Hash : status'[h] = "classifying" => status[h] = "classifying",
           \A f \in Flow, h \in Hash :
               flow[f][h] \in InHands /\ status'[h] = "classifying"
                   => flow'[f][h] \in InHands \/ h \in stranded'
    PROVE  ClassifyingIsOwned'
<1> SUFFICES ASSUME NEW h \in Hash, status'[h] = "classifying", h \notin stranded'
             PROVE  \E f \in Flow : flow'[f][h] \in InHands
  BY DEF ClassifyingIsOwned, InHands
<1>1. PICK f \in Flow : flow[f][h] \in InHands
  BY DEF ClassifyingIsOwned, InHands
<1> QED BY <1>1

\* A flow that breaks off strands what it held, and only that.
LEMMA AbandonHolds ==
    ASSUME TypeOK, ClassifyingIsOwned, FlowStages, NEW f \in Flow, Abandon(f),
           \A h \in Hash : status'[h] = "classifying" => status[h] = "classifying"
    PROVE  ClassifyingIsOwned' /\ FlowStages'
<1>1. ASSUME NEW g \in Flow, NEW h \in Hash, flow[g][h] \in InHands,
             status'[h] = "classifying"
      PROVE  flow'[g][h] \in InHands \/ h \in stranded'
  <2>1. CASE g = f
    BY <1>1, <2>1 DEF Abandon
  <2>2. CASE g # f
    BY <1>1, <2>2 DEF Abandon, TypeOK
  <2> QED BY <2>1, <2>2
<1>2. stranded \subseteq stranded'
  BY DEF Abandon
<1>3. FlowStages'
  BY DEF Abandon, FlowStages, Collecting, TypeOK
<1> QED BY <1>1, <1>2, <1>3, HandsStay

\* Whatever a classification flow does.
LEMMA FlowHolds ==
    ASSUME TypeOK, ClassifyingIsOwned, FlowStages, NEW f \in Flow, FlowStep(f)
    PROVE  ClassifyingIsOwned' /\ FlowStages'
<1> USE DEF InHands
<1>1. ASSUME NEW h \in Hash, Found(f, h) PROVE ClassifyingIsOwned' /\ FlowStages'
  <2>1. \A g \in Flow, k \in Hash : flow[g][k] \in InHands => flow'[g][k] \in InHands
    BY <1>1 DEF Found, TypeOK
  <2>2. \A k \in Hash : status'[k] = "classifying" => status[k] = "classifying"
    BY <1>1 DEF Found, TypeOK
  <2>3. stranded' = stranded
    BY <1>1 DEF Found
  <2>4. FlowStages'
    BY <1>1 DEF Found, FlowStages, Collecting, TypeOK
  <2> QED BY <2>1, <2>2, <2>3, <2>4, HandsStay
<1>2. ASSUME NEW a \in BOOLEAN, Gather(f, a) PROVE ClassifyingIsOwned' /\ FlowStages'
  <2>1. \A g \in Flow, k \in Hash : flow[g][k] \in InHands => flow'[g][k] \in InHands
    BY <1>2 DEF Gather, FlowStages, Collecting, TypeOK
  <2>2. status' = status /\ stranded' = stranded
    BY <1>2 DEF Gather
  <2>3. FlowStages'
    BY <1>2 DEF Gather, FlowStages, Collecting, TypeOK
  <2> QED BY <2>1, <2>2, <2>3, HandsStay
<1>3. ASSUME NEW S \in SUBSET Hash, Reclassify(f, S) PROVE ClassifyingIsOwned' /\ FlowStages'
  <2>1. \A g \in Flow, k \in Hash : flow[g][k] \in InHands => flow'[g][k] \in InHands
    BY <1>3 DEF Reclassify, Idle, TypeOK
  <2>2. status' = status /\ stranded' = stranded
    BY <1>3 DEF Reclassify
  <2>3. FlowStages'
    BY <1>3 DEF Reclassify, FlowStages, Collecting, TypeOK
  <2> QED BY <2>1, <2>2, <2>3, HandsStay
<1>4. ASSUME NEW h \in Hash, Started(f, h) PROVE ClassifyingIsOwned' /\ FlowStages'
  <2>1. \A g \in Flow, k \in Hash : flow[g][k] \in InHands => flow'[g][k] \in InHands
    BY <1>4 DEF Started, TypeOK
  <2>2. flow'[f][h] \in InHands
    BY <1>4 DEF Started, TypeOK
  <2>3. \A k \in Hash : status'[k] = "classifying" => status[k] = "classifying" \/ k = h
    BY <1>4 DEF Started, WriteIf, TypeOK
  <2>4. stranded \subseteq stranded' \cup {h}
    BY <1>4 DEF Started
  <2>5. FlowStages'
    BY <1>4 DEF Started, FlowStages, Collecting, TypeOK
  <2>6. ASSUME NEW k \in Hash, status'[k] = "classifying", k \notin stranded'
        PROVE  \E g \in Flow : flow'[g][k] \in InHands
    <3>1. CASE k = h
      BY <3>1, <2>2
    <3>2. CASE k # h
      <4>1. PICK g \in Flow : flow[g][k] \in InHands
        BY <3>2, <2>3, <2>4, <2>6 DEF ClassifyingIsOwned
      <4> QED BY <4>1, <2>1
    <3> QED BY <3>1, <3>2
  <2> QED BY <2>5, <2>6 DEF ClassifyingIsOwned
<1>5. CASE ClassifierAnswers(f)
  <2>1. \A g \in Flow, k \in Hash : flow[g][k] \in InHands => flow'[g][k] \in InHands
    BY <1>5 DEF ClassifierAnswers, TypeOK
  <2>2. status' = status /\ stranded' = stranded
    BY <1>5 DEF ClassifierAnswers
  <2>3. FlowStages'
    BY <1>5 DEF ClassifierAnswers, AllClaimed, FlowStages, Collecting, TypeOK
  <2> QED BY <2>1, <2>2, <2>3, HandsStay
<1>6. CASE ClassifierRaises(f)
  <2>1. \A g \in Flow, k \in Hash : flow[g][k] \in InHands => flow'[g][k] \in InHands
    BY <1>6 DEF ClassifierRaises, AllClaimed, TypeOK
  <2>2. status' = status /\ stranded' = stranded
    BY <1>6 DEF ClassifierRaises
  <2>3. FlowStages'
    BY <1>6 DEF ClassifierRaises, FlowStages, Collecting, TypeOK
  <2> QED BY <2>1, <2>2, <2>3, HandsStay
<1>7. ASSUME NEW h \in Hash, ClassifyOneFails(f, h) PROVE ClassifyingIsOwned' /\ FlowStages'
  <2>1. \A g \in Flow, k \in Hash : flow[g][k] \in InHands => flow'[g][k] \in InHands
    BY <1>7 DEF ClassifyOneFails, TypeOK
  <2>2. status' = status /\ stranded' = stranded
    BY <1>7 DEF ClassifyOneFails
  <2>3. FlowStages'
    BY <1>7 DEF ClassifyOneFails, FlowStages, Collecting, TypeOK
  <2> QED BY <2>1, <2>2, <2>3, HandsStay
<1>8. ASSUME NEW h \in Hash, NEW c \in Category, Classified(f, h, c)
      PROVE  ClassifyingIsOwned' /\ FlowStages'
  <2>1. \A g \in Flow, k \in Hash :
            flow[g][k] \in InHands /\ status'[k] = "classifying" => flow'[g][k] \in InHands
    BY <1>8 DEF Classified, Verdict, WriteIf, TypeOK
  <2>2. \A k \in Hash : status'[k] = "classifying" => status[k] = "classifying"
    BY <1>8 DEF Classified, Verdict, WriteIf, TypeOK
  <2>3. stranded' = stranded
    BY <1>8 DEF Classified
  <2>4. FlowStages'
    BY <1>8 DEF Classified, FlowStages, Collecting, TypeOK
  <2> QED BY <2>1, <2>2, <2>3, <2>4, HandsStay
<1>9. CASE FlowEnds(f)
  <2>1. \A g \in Flow, k \in Hash : flow[g][k] \in InHands => flow'[g][k] \in InHands
    BY <1>9 DEF FlowEnds, AllWritten, TypeOK
  <2>2. status' = status /\ stranded' = stranded
    BY <1>9 DEF FlowEnds
  <2>3. FlowStages'
    BY <1>9 DEF FlowEnds, FlowStages, Collecting, TypeOK
  <2> QED BY <2>1, <2>2, <2>3, HandsStay
<1>10. ASSUME NEW h \in Hash, RollBack(f, h) PROVE ClassifyingIsOwned' /\ FlowStages'
  <2>1. \A g \in Flow, k \in Hash :
            flow[g][k] \in InHands /\ status'[k] = "classifying" => flow'[g][k] \in InHands
    BY <1>10 DEF RollBack, GiveBack, WriteIf, TypeOK
  <2>2. \A k \in Hash : status'[k] = "classifying" => status[k] = "classifying"
    BY <1>10 DEF RollBack, GiveBack, WriteIf, TypeOK
  <2>3. stranded' = stranded
    BY <1>10 DEF RollBack
  <2>4. FlowStages'
    BY <1>10 DEF RollBack, FlowStages, Collecting, TypeOK
  <2> QED BY <2>1, <2>2, <2>3, <2>4, HandsStay
<1>11. ASSUME NEW b \in Batch, AutoDownload(f, b) PROVE ClassifyingIsOwned' /\ FlowStages'
  <2>1. \A g \in Flow, k \in Hash : flow[g][k] \in InHands => flow'[g][k] \in InHands
    BY <1>11 DEF AutoDownload, AllWritten, TypeOK
  <2>2. status' = status /\ stranded' = stranded
    BY <1>11 DEF AutoDownload
  <2>3. FlowStages'
    BY <1>11 DEF AutoDownload, FlowStages, Collecting, TypeOK
  <2> QED BY <2>1, <2>2, <2>3, HandsStay
<1>12. ASSUME NEW h \in Hash, StartedFails(f, h) PROVE ClassifyingIsOwned' /\ FlowStages'
  <2>1. \A g \in Flow, k \in Hash : flow[g][k] \in InHands => flow'[g][k] \in InHands
    BY <1>12 DEF StartedFails, TypeOK
  <2>2. status' = status /\ stranded' = stranded
    BY <1>12 DEF StartedFails
  <2>3. FlowStages'
    BY <1>12 DEF StartedFails, FlowStages, Collecting, TypeOK
  <2> QED BY <2>1, <2>2, <2>3, HandsStay
<1>13. ASSUME NEW h \in Hash, ClassifiedRaises(f, h)
       PROVE  ClassifyingIsOwned' /\ FlowStages'
  <2>1. \A g \in Flow, k \in Hash : flow[g][k] \in InHands => flow'[g][k] \in InHands
    BY <1>13 DEF ClassifiedRaises, TypeOK
  <2>2. \A k \in Hash : status'[k] = "classifying" => status[k] = "classifying"
    BY <1>13 DEF ClassifiedRaises, Verdict, WriteIf, TypeOK
  <2>3. stranded' = stranded
    BY <1>13 DEF ClassifiedRaises
  <2>4. FlowStages'
    BY <1>13 DEF ClassifiedRaises, FlowStages, Collecting, TypeOK
  <2> QED BY <2>1, <2>2, <2>3, <2>4, HandsStay
<1>14. ASSUME NEW h \in Hash, BotchedBack(f, h) PROVE ClassifyingIsOwned' /\ FlowStages'
  <2>1. \A g \in Flow, k \in Hash :
            flow[g][k] \in InHands /\ status'[k] = "classifying" => flow'[g][k] \in InHands
    BY <1>14 DEF BotchedBack, GiveBack, WriteIf, TypeOK
  <2>2. \A k \in Hash : status'[k] = "classifying" => status[k] = "classifying"
    BY <1>14 DEF BotchedBack, GiveBack, WriteIf, TypeOK
  <2>3. stranded' = stranded
    BY <1>14 DEF BotchedBack
  <2>4. FlowStages'
    BY <1>14 DEF BotchedBack, FlowStages, Collecting, TypeOK
  <2> QED BY <2>1, <2>2, <2>3, <2>4, HandsStay
<1>15. ASSUME NEW h \in Hash, BotchedLost(f, h) PROVE ClassifyingIsOwned' /\ FlowStages'
  <2>1. \A k \in Hash : status'[k] = "classifying" => status[k] = "classifying"
    BY <1>15 DEF BotchedLost, GiveBack, WriteIf, TypeOK
  <2> QED BY <1>15, <2>1, AbandonHolds DEF BotchedLost
<1>16. ASSUME NEW h \in Hash, ClassifyOneBreaks(f, h)
       PROVE  ClassifyingIsOwned' /\ FlowStages'
  BY <1>16, AbandonHolds DEF ClassifyOneBreaks
<1>17. ASSUME NEW h \in Hash, RollBackFails(f, h) PROVE ClassifyingIsOwned' /\ FlowStages'
  <2>1. \A g \in Flow, k \in Hash :
            flow[g][k] \in InHands /\ status'[k] = "classifying"
                => flow'[g][k] \in InHands \/ k \in stranded'
    BY <1>17 DEF RollBackFails, TypeOK
  <2>2. status' = status /\ stranded \subseteq stranded'
    BY <1>17 DEF RollBackFails
  <2>3. FlowStages'
    BY <1>17 DEF RollBackFails, FlowStages, Collecting, TypeOK
  <2> QED BY <2>1, <2>2, <2>3, HandsStay
<1>18. CASE RollBackAborts(f)
  BY <1>18, AbandonHolds DEF RollBackAborts
<1> QED
  BY <1>1, <1>2, <1>3, <1>4, <1>5, <1>6, <1>7, <1>8, <1>9, <1>10, <1>11, <1>12, <1>13,
     <1>14, <1>15, <1>16, <1>17, <1>18 DEF FlowStep

\* Nobody else puts a row in classifying or interferes with a flow, but a restart.
LEMMA OthersHold ==
    ASSUME TypeOK, ClassifyingIsOwned, FlowStages,
           (\E b \in Batch : BatchStep(b)) \/ SyncStep \/ OutsideStep
    PROVE  ClassifyingIsOwned' /\ FlowStages'
<1>1. CASE Restart
  <2>1. \A h \in Hash : status'[h] = "classifying" => h \in stranded'
    BY <1>1 DEF Restart, Recovered
  <2> QED BY <1>1, <2>1 DEF Restart, ClassifyingIsOwned, FlowStages, Collecting
<1>2. CASE ~Restart
  <2>1. flow' = flow /\ stranded' = stranded
    BY <1>2 DEF BatchStep, ChildStep, ReadRow, Admit, Lock, CheckRow, MarkAdding, QbAccepts,
         AddSucceeds, AddFails, CheckAdding, MarkQueued, CheckFailed, MarkFailed, TaskRaises,
         FailureLost, Sweep, Download, TimeOut, BatchEnds, SyncStep, Poll, List, RoundEnds,
         RoundAborts, Reconcile, ReconcileFails,
                OutsideStep, StartEdit, QbDeletes, WireLoses, FinishEdit,
         QbMoves, WireDelivers, LateLands, Remove
  <2>2. ASSUME NEW h \in Hash, status'[h] = "classifying" PROVE status[h] = "classifying"
    <3> USE <2>2 DEF TypeOK
    <3>1. ASSUME NEW b \in Batch, BatchStep(b) PROVE status[h] = "classifying"
      BY <3>1 DEF BatchStep, ChildStep, ReadRow, Admit, Lock, CheckRow, MarkAdding, Write,
         QbAccepts, AddSucceeds, AddFails, CheckAdding, MarkQueued, CheckFailed, MarkFailed,
         TaskRaises, FailureLost, Sweep, Download, TimeOut, BatchEnds
    <3>2. ASSUME NEW g \in Hash, Reconcile(g) PROVE status[h] = "classifying"
      BY <3>2 DEF Reconcile, Write, Mapped
    <3>3. ASSUME NEW w \in LateWrite, LateLands(w) PROVE status[h] = "classifying"
      BY <3>3 DEF LateLands, Write, LateWrite, Mapped
    <3>4. ASSUME NEW S \in SUBSET Hash, Remove(S) PROVE status[h] = "classifying"
      BY <3>4 DEF Remove
    <3>5. CASE SyncStep
      BY <3>2, <3>5 DEF SyncStep, Poll, List, RoundEnds, RoundAborts, ReconcileFails
    <3>6. CASE OutsideStep
      BY <1>2, <3>3, <3>4, <3>6 DEF OutsideStep, StartEdit, QbDeletes, WireLoses, FinishEdit,
         QbMoves, WireDelivers
    <3> QED BY <3>1, <3>5, <3>6
  <2> QED BY <2>1, <2>2, HandsStay DEF FlowStages, Collecting
<1> QED BY <1>1, <1>2

\* A row in classifying will be taken out of it by a flow, or one of the named faults has
\* stranded it: a restart, or a store that refuses to give it back (_stream_classify,
\* _rollback_unclassified, _classify_one).  For any number of rows and flows.
THEOREM ClassifyingOwned == Spec => []ClassifyingIsOwned
<1>1. Init => ClassifyingIsOwned /\ FlowStages
  BY DEF Init, ClassifyingIsOwned, FlowStages, Collecting
<1>2. TypeOK /\ ClassifyingIsOwned /\ FlowStages /\ [Next]_vars
        => ClassifyingIsOwned' /\ FlowStages'
  <2> SUFFICES ASSUME TypeOK, ClassifyingIsOwned, FlowStages, [Next]_vars
               PROVE  ClassifyingIsOwned' /\ FlowStages'
    OBVIOUS
  <2>1. CASE UNCHANGED vars
    BY <2>1, HandsStay DEF vars, FlowStages, Collecting
  <2> QED BY <2>1, FlowHolds, OthersHold DEF Next
<1> QED BY <1>1, <1>2, TypeCorrect, PTL DEF Spec

-----------------------------------------------------------------------------
(***************************************************************************)
(* What is shown has been held.  The evidence that qBittorrent has held a   *)
(* torrent travels: from qBittorrent to the snapshot of a round, to what    *)
(* the round plans to write; from the answer of an add to the task, and     *)
(* from a dead task or round to the write it left behind.  Wherever it is,  *)
(* it is true.                                                             *)
(***************************************************************************)
Evidence ==
    /\ \A h \in Hash : qb[h] # "gone" => h \in held
    /\ \A h \in Hash : snap[h] \in Mapped => h \in held
    /\ \A h \in Hash : plan[h] \in Contract!Claimed => h \in held
    /\ \A b \in Batch, h \in Hash : child[b][h] \in {"accepted", "ok", "queueing"} => h \in held
    /\ \A w \in late : w.to \in Contract!Claimed => w.hash \in held

\* Evidence from a batch: only QbAccepts creates any, and it puts the hash in held.
LEMMA BatchEvidence ==
    ASSUME TypeOK, Evidence, NEW b \in Batch, BatchStep(b)
    PROVE  Evidence'
<1> USE DEF Contract!Claimed
<1>1. ASSUME NEW h \in Hash, NEW s \in Mapped, QbAccepts(b, h, s) PROVE Evidence'
  BY <1>1 DEF QbAccepts, Evidence, Step, TypeOK
<1>2. ASSUME NEW h \in Hash, NEW p, Step(b, h, p),
             p \in {"accepted", "ok", "queueing"} => h \in held,
             UNCHANGED <<held, qb, snap, plan, late>>
      PROVE  Evidence'
  BY <1>2 DEF Evidence, Step, TypeOK
<1>3. ASSUME NEW h \in Hash, ReadRow(b, h) PROVE Evidence'
  BY <1>2, <1>3 DEF ReadRow
<1>4. ASSUME NEW h \in Hash, Admit(b, h) \/ Lock(b, h) \/ CheckRow(b, h) \/ MarkAdding(b, h)
      PROVE  Evidence'
  BY <1>2, <1>4 DEF Admit, Lock, CheckRow, MarkAdding
<1>5. ASSUME NEW h \in Hash, AddSucceeds(b, h) \/ AddFails(b, h) PROVE Evidence'
  BY <1>2, <1>5 DEF AddSucceeds, AddFails, Evidence
<1>6. ASSUME NEW h \in Hash, CheckAdding(b, h) \/ MarkQueued(b, h) PROVE Evidence'
  BY <1>2, <1>6 DEF CheckAdding, MarkQueued, Evidence
<1>7. ASSUME NEW h \in Hash, CheckFailed(b, h) \/ MarkFailed(b, h) \/ TaskRaises(b, h) \/ Sweep(b, h)
      PROVE  Evidence'
  BY <1>2, <1>7 DEF CheckFailed, MarkFailed, TaskRaises, Sweep
<1>8. ASSUME NEW h \in Hash, FailureLost(b, h) PROVE Evidence'
  BY <1>8 DEF FailureLost, Evidence, TypeOK
<1>9. ASSUME NEW S \in SUBSET Hash, Download(b, S) PROVE Evidence'
  BY <1>9 DEF Download, Evidence, TypeOK
<1>10. CASE TimeOut(b)
  <2>1. \A w \in Interrupted(b) : w.to \in Contract!Claimed => w.hash \in held
    BY DEF Interrupted, Evidence
  <2>2. \A w \in late' : w.to \in Contract!Claimed => w.hash \in held
    BY <1>10, <2>1 DEF TimeOut, Evidence
  <2> QED BY <1>10, <2>2 DEF TimeOut, Evidence, TypeOK
<1>11. CASE BatchEnds(b)
  BY <1>11 DEF BatchEnds, Evidence, TypeOK
<1> QED
  BY <1>1, <1>3, <1>4, <1>5, <1>6, <1>7, <1>8, <1>9, <1>10, <1>11 DEF BatchStep, ChildStep

\* A flow has no evidence; the batch it starts has none yet.
LEMMA FlowEvidence ==
    ASSUME TypeOK, Evidence, NEW f \in Flow, FlowStep(f)
    PROVE  Evidence'
<1>1. ASSUME NEW b \in Batch, AutoDownload(f, b) PROVE Evidence'
  BY <1>1 DEF AutoDownload, Evidence, TypeOK
<1>2. CASE ~ \E b \in Batch : AutoDownload(f, b)
  BY <1>2 DEF Evidence, FlowStep, Found, Gather, Reclassify, Started, StartedFails,
       ClassifierAnswers, ClassifierRaises, ClassifyOneFails, ClassifyOneBreaks, Classified,
       ClassifiedRaises, BotchedBack, BotchedLost, FlowEnds, RollBack, RollBackFails,
       RollBackAborts
<1> QED BY <1>1, <1>2

\* The sync loop carries it from qBittorrent to the plan of the round.
LEMMA SyncEvidence ==
    ASSUME TypeOK, Evidence, SyncStep
    PROVE  Evidence'
<1> USE DEF Contract!Claimed, Mapped
<1>1. ASSUME NEW full \in BOOLEAN, Poll(full) PROVE Evidence'
  BY <1>1 DEF Poll, Live, Evidence
<1>2. CASE List
  BY <1>2 DEF List, Reconciled, Evidence, TypeOK
<1>3. CASE RoundEnds
  BY <1>3 DEF RoundEnds, NoRound, Evidence
<1>4. CASE RoundAborts
  BY <1>4 DEF RoundAborts, NoRound, Evidence
<1>5. ASSUME NEW h \in Hash, Reconcile(h) PROVE Evidence'
  BY <1>5 DEF Reconcile, Evidence, TypeOK
<1>6. ASSUME NEW h \in Hash, ReconcileFails(h) PROVE Evidence'
  BY <1>6 DEF ReconcileFails, Evidence, TypeOK
<1> QED BY <1>1, <1>2, <1>3, <1>4, <1>5, <1>6 DEF SyncStep

\* Users, qBittorrent, orphaned calls and restarts.
LEMMA OutsideEvidence ==
    ASSUME TypeOK, Evidence, OutsideStep
    PROVE  Evidence'
<1> USE DEF Contract!Claimed
<1>1. CASE Restart
  BY <1>1 DEF Restart, NoRound, Evidence, Mapped
<1>2. ASSUME NEW h \in Hash, NEW s \in Mapped, QbMoves(h, s) \/ WireDelivers(h, s)
      PROVE  Evidence'
  BY <1>2 DEF QbMoves, WireDelivers, Evidence, TypeOK
<1>3. ASSUME NEW h \in Hash, QbDeletes(h) PROVE Evidence'
  BY <1>3 DEF QbDeletes, Evidence, TypeOK
<1>4. ASSUME NEW h \in Hash, StartEdit(h) \/ WireLoses(h) \/ \E c \in Category : FinishEdit(h, c)
      PROVE  Evidence'
  BY <1>4 DEF StartEdit, WireLoses, FinishEdit, Evidence
<1>5. ASSUME NEW w \in LateWrite, LateLands(w) PROVE Evidence'
  BY <1>5 DEF LateLands, Evidence
<1>6. ASSUME NEW S \in SUBSET Hash, Remove(S) PROVE Evidence'
  BY <1>6 DEF Remove, Evidence
<1> QED BY <1>1, <1>2, <1>3, <1>4, <1>5, <1>6 DEF OutsideStep

\* The invariant of the refinement.
LEMMA EvidenceHolds == Spec => []Evidence
<1>1. Init => Evidence
  BY DEF Init, Evidence, Mapped, Contract!Claimed
<1>2. TypeOK /\ Evidence /\ [Next]_vars => Evidence'
  <2> SUFFICES ASSUME TypeOK, Evidence, [Next]_vars PROVE Evidence'
    OBVIOUS
  <2>1. CASE UNCHANGED vars
    BY <2>1 DEF vars, Evidence
  <2> QED BY <2>1, BatchEvidence, FlowEvidence, SyncEvidence, OutsideEvidence DEF Next
<1> QED BY <1>1, <1>2, TypeCorrect, PTL DEF Spec

-----------------------------------------------------------------------------
(***************************************************************************)
(* The service implements the contract of the library.                      *)
(***************************************************************************)

\* A write of a status that is not a claim without evidence is a step of the contract.
LEMMA WriteKeepsContract ==
    ASSUME TypeOK, NEW h \in Hash, NEW s \in Mapped \cup {"adding"}, Write(h, s),
           s \in Contract!Claimed => h \in held,
           held' = held
    PROVE  [Contract!LibNext]_Contract!libVars
<1> USE DEF Contract!libVars, Contract!LibNext
<1>1. CASE status[h] = "absent"
  BY <1>1 DEF Write, TypeOK
<1>2. CASE status[h] # "absent" /\ s = "adding"
  BY <1>2 DEF Write, Contract!Offer
<1>3. CASE status[h] # "absent" /\ s = "error"
  <2>1. status' = [g \in Hash |-> IF g \in {h} THEN "error" ELSE status[g]]
    BY <1>3 DEF Write, TypeOK
  <2>2. Contract!Fail({h})
    BY <1>3, <2>1 DEF Contract!Fail
  <2> QED BY <2>2
<1>4. CASE status[h] # "absent" /\ s \in Contract!Claimed
  BY <1>4 DEF Write, Contract!Claim
<1> QED BY <1>1, <1>2, <1>3, <1>4 DEF Mapped, Contract!Claimed

\* Every step of a download batch is a step of the contract.
LEMMA BatchRefines ==
    ASSUME TypeOK, Evidence, NEW b \in Batch, BatchStep(b)
    PROVE  [Contract!LibNext]_Contract!libVars
<1> USE DEF Contract!libVars
<1>1. ASSUME NEW h \in Hash, MarkAdding(b, h) PROVE [Contract!LibNext]_Contract!libVars
  BY <1>1, WriteKeepsContract DEF MarkAdding, Contract!Claimed
<1>2. ASSUME NEW h \in Hash, MarkQueued(b, h) PROVE [Contract!LibNext]_Contract!libVars
  BY <1>2, WriteKeepsContract DEF MarkQueued, Evidence, Mapped
<1>3. ASSUME NEW h \in Hash, MarkFailed(b, h) PROVE [Contract!LibNext]_Contract!libVars
  BY <1>3, WriteKeepsContract DEF MarkFailed, Mapped, Contract!Claimed
<1>4. ASSUME NEW h \in Hash, NEW s \in Mapped, QbAccepts(b, h, s)
      PROVE  [Contract!LibNext]_Contract!libVars
  BY <1>4 DEF QbAccepts, Contract!LibNext, Contract!Hold
<1>5. ASSUME NEW h \in Hash,
             \/ ReadRow(b, h) \/ Admit(b, h) \/ Lock(b, h) \/ CheckRow(b, h)
             \/ AddSucceeds(b, h) \/ AddFails(b, h) \/ CheckAdding(b, h) \/ CheckFailed(b, h)
             \/ TaskRaises(b, h) \/ FailureLost(b, h) \/ Sweep(b, h)
      PROVE  UNCHANGED <<status, held>>
  BY <1>5 DEF ReadRow, Admit, Lock, CheckRow, AddSucceeds, AddFails, CheckAdding,
       CheckFailed, TaskRaises, FailureLost, Sweep
<1>6. ASSUME (\E S \in SUBSET Hash : Download(b, S)) \/ TimeOut(b) \/ BatchEnds(b)
      PROVE  UNCHANGED <<status, held>>
  BY <1>6 DEF Download, TimeOut, BatchEnds
<1> QED BY <1>1, <1>2, <1>3, <1>4, <1>5, <1>6 DEF BatchStep, ChildStep

\* Every step of a classification flow is a step of the contract.
LEMMA FlowRefines ==
    ASSUME TypeOK, NEW f \in Flow, FlowStep(f)
    PROVE  [Contract!LibNext]_Contract!libVars
<1> USE DEF Contract!libVars, Contract!LibNext
<1>1. ASSUME NEW h \in Hash, Found(f, h) PROVE [Contract!LibNext]_Contract!libVars
  BY <1>1 DEF Found, Contract!Enter
<1>2. ASSUME NEW h \in Hash, Started(f, h) PROVE [Contract!LibNext]_Contract!libVars
  <2>1. CASE status[h] \in Retryable
    BY <1>2, <2>1 DEF Started, WriteIf, Retryable, Contract!TakeForClassification
  <2>2. CASE status[h] \notin Retryable
    BY <1>2, <2>2 DEF Started, WriteIf, TypeOK
  <2> QED BY <2>1, <2>2
<1>3. ASSUME NEW h \in Hash, WriteIf(h, {"classifying"}, "pending"), held' = held
      PROVE  [Contract!LibNext]_Contract!libVars
  <2>1. CASE status[h] = "classifying"
    BY <1>3, <2>1 DEF WriteIf, Contract!GiveBack
  <2>2. CASE status[h] # "classifying"
    BY <1>3, <2>2 DEF WriteIf, TypeOK
  <2> QED BY <2>1, <2>2
<1>4. ASSUME NEW h \in Hash, RollBack(f, h) \/ \E c \in Category : Classified(f, h, c)
      PROVE  [Contract!LibNext]_Contract!libVars
  BY <1>3, <1>4 DEF RollBack, GiveBack, Classified, Verdict
<1>6. ASSUME NEW h \in Hash, ClassifiedRaises(f, h) \/ BotchedBack(f, h) \/ BotchedLost(f, h)
      PROVE  [Contract!LibNext]_Contract!libVars
  BY <1>3, <1>6 DEF ClassifiedRaises, Verdict, BotchedBack, BotchedLost, GiveBack
<1>5. ASSUME \/ \E a \in BOOLEAN : Gather(f, a)
             \/ \E S \in SUBSET Hash : Reclassify(f, S)
             \/ \E h \in Hash : \/ StartedFails(f, h) \/ ClassifyOneFails(f, h)
                               \/ ClassifyOneBreaks(f, h) \/ RollBackFails(f, h)
             \/ \E b \in Batch : AutoDownload(f, b)
             \/ ClassifierAnswers(f) \/ ClassifierRaises(f) \/ RollBackAborts(f) \/ FlowEnds(f)
      PROVE  UNCHANGED <<status, held>>
  BY <1>5 DEF Gather, Reclassify, StartedFails, ClassifyOneFails, ClassifyOneBreaks,
       RollBackFails, AutoDownload, ClassifierAnswers, ClassifierRaises, RollBackAborts, FlowEnds
<1> QED BY <1>1, <1>2, <1>4, <1>5, <1>6 DEF FlowStep

\* Every step of the sync loop is a step of the contract.
LEMMA SyncRefines ==
    ASSUME TypeOK, Evidence, SyncStep
    PROVE  [Contract!LibNext]_Contract!libVars
<1>1. ASSUME NEW h \in Hash, Reconcile(h) PROVE [Contract!LibNext]_Contract!libVars
  BY <1>1, WriteKeepsContract DEF Reconcile, Evidence, TypeOK
<1>2. ASSUME \/ (\E full \in BOOLEAN : Poll(full)) \/ List \/ RoundEnds \/ RoundAborts
             \/ \E h \in Hash : ReconcileFails(h)
      PROVE  UNCHANGED <<status, held>>
  BY <1>2 DEF Poll, List, RoundEnds, RoundAborts, ReconcileFails
<1> QED BY <1>1, <1>2 DEF SyncStep, Contract!libVars

\* So is everything users, qBittorrent, orphaned calls and restarts do.
LEMMA OutsideRefines ==
    ASSUME TypeOK, Evidence, OutsideStep
    PROVE  [Contract!LibNext]_Contract!libVars
<1> USE DEF Contract!libVars
<1>1. ASSUME NEW h \in Hash, NEW s \in Mapped, QbMoves(h, s) \/ WireDelivers(h, s)
      PROVE  [Contract!LibNext]_Contract!libVars
  BY <1>1 DEF QbMoves, WireDelivers, Contract!LibNext, Contract!Hold
<1>2. ASSUME NEW w \in LateWrite, LateLands(w) PROVE [Contract!LibNext]_Contract!libVars
  <2>1. w.hash \in Hash /\ w.to \in Mapped \cup {"adding"}
    BY DEF LateWrite
  <2> QED BY <1>2, <2>1, WriteKeepsContract DEF LateLands, Evidence
<1>3. ASSUME NEW S \in SUBSET Hash, Remove(S) PROVE [Contract!LibNext]_Contract!libVars
  BY <1>3 DEF Remove, Contract!LibNext, Contract!Forget
<1>4. CASE Restart
  <2>1. PICK R \in SUBSET Hash : status' = Recovered(R)
    BY <1>4 DEF Restart
  <2> DEFINE S == {h \in R : status[h] = "adding"}
  <2>3. status' = [h \in Hash |-> IF h \in S THEN "error" ELSE status[h]]
    BY <2>1 DEF Recovered
  <2>2. Contract!Fail(S)
    BY <1>4, <2>3 DEF Restart, Contract!Fail
  <2> QED BY <2>2 DEF Contract!LibNext
<1>5. ASSUME NEW h \in Hash,
             \/ StartEdit(h) \/ QbDeletes(h) \/ WireLoses(h)
             \/ \E c \in Category : FinishEdit(h, c)
      PROVE  UNCHANGED <<status, held>>
  BY <1>5 DEF StartEdit, QbDeletes, WireLoses, FinishEdit
<1> QED BY <1>1, <1>2, <1>3, <1>4, <1>5 DEF OutsideStep

\* The service keeps the library's contract: every step it takes is one the contract
\* allows, so statuses move only along those changes and claims have evidence.
THEOREM Implements == Spec => ImplementsContract
<1>1. Init => Contract!LibInit
  BY DEF Init, Contract!LibInit
<1>2. TypeOK /\ Evidence /\ [Next]_vars => [Contract!LibNext]_Contract!libVars
  <2> SUFFICES ASSUME TypeOK, Evidence, [Next]_vars
               PROVE  [Contract!LibNext]_Contract!libVars
    OBVIOUS
  <2>1. CASE UNCHANGED vars
    BY <2>1 DEF vars, Contract!libVars
  <2> QED BY <2>1, BatchRefines, FlowRefines, SyncRefines, OutsideRefines DEF Next
<1> QED
  BY <1>1, <1>2, TypeCorrect, EvidenceHolds, PTL
  DEF Spec, ImplementsContract, Contract!LibSpec

\* The contract alone implies that what is shown has been held ...
LEMMA ContractShows ==
    ASSUME TypeOK, ShownOnlyIfHeld, [Contract!LibNext]_Contract!libVars
    PROVE  ShownOnlyIfHeld'
<1> USE DEF ShownOnlyIfHeld, TypeOK
<1>1. ASSUME NEW h \in Hash, Contract!Claim(h) PROVE ShownOnlyIfHeld'
  <2>1. \A g \in Hash : g # h => status'[g] = status[g]
    BY <1>1 DEF Contract!Claim
  <2> QED BY <1>1, <2>1 DEF Contract!Claim
<1>2. ASSUME NEW h \in Hash, Contract!Enter(h) \/ Contract!TakeForClassification(h)
                               \/ Contract!GiveBack(h) \/ Contract!Offer(h)
      PROVE  ShownOnlyIfHeld'
  <2>1. \A g \in Hash : \/ status'[g] = status[g]
                        \/ status'[g] \in {"pending", "classifying", "adding"}
    BY <1>2 DEF Contract!Enter, Contract!TakeForClassification, Contract!GiveBack,
                Contract!Offer
  <2>2. held' = held
    BY <1>2 DEF Contract!Enter, Contract!TakeForClassification, Contract!GiveBack,
                Contract!Offer
  <2> QED BY <2>1, <2>2
<1>3. ASSUME NEW h \in Hash, Contract!Hold(h) PROVE ShownOnlyIfHeld'
  BY <1>3 DEF Contract!Hold
<1>4. ASSUME NEW S \in SUBSET Hash, Contract!Forget(S) \/ Contract!Fail(S)
      PROVE  ShownOnlyIfHeld'
  BY <1>4 DEF Contract!Forget, Contract!Fail
<1>5. CASE UNCHANGED Contract!libVars
  BY <1>5 DEF Contract!libVars
<1> QED BY <1>1, <1>2, <1>3, <1>4, <1>5 DEF Contract!LibNext

\* ... so the service shows a torrent as queued, downloading, paused or done only for a
\* hash qBittorrent has held, even if calls fail, outlive their task or are replayed.
THEOREM ShownHeld == Spec => []ShownOnlyIfHeld
<1>1. Contract!LibInit => ShownOnlyIfHeld
  BY DEF Contract!LibInit, ShownOnlyIfHeld
<1>2. TypeOK /\ ShownOnlyIfHeld /\ [Contract!LibNext]_Contract!libVars => ShownOnlyIfHeld'
  BY ContractShows
<1> QED BY <1>1, <1>2, TypeCorrect, Implements, PTL DEF ImplementsContract, Contract!LibSpec

=============================================================================
