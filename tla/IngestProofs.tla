------------------------------ MODULE IngestProofs -----------------------------
(***************************************************************************)
(* Theorems about Pipeline, and so about IngestFinalizer, which it runs    *)
(* unchanged: what is announced, counted as late and asked of tier 2.      *)
(*                                                                         *)
(* The argument is a book of announcements.  A graph may be announced once *)
(* for being finalized and once more for every late run that was counted.  *)
(* Each of these reasons is in one place at a time: the fresh tally of a   *)
(* handler, the queue, the re-analysis loop, the finalizer's hand, or      *)
(* spent.  No step copies a reason; failures only lose them.               *)
(***************************************************************************)
EXTENDS Pipeline, FiniteSetTheorems, TLAPS

(* What the transactions and the scan rely on. *)
StoredFinite ==
  /\ IsFiniteSet(spans) /\ IsFiniteSet(runs)
  /\ mapped \subseteq spans
  /\ noticed \subseteq overdue /\ overdue \subseteq runs

(* A handler that saw its graph finalized is right for good. *)
SawTrue == \A b \in Batches : sawFinal[b] => status[HomeOf[b]] = "finalized"

(* Reports of late runs not yet handed to notify_late_spans. *)
FreshTrue ==
  /\ \A b \in Batches : fresh[b] > 0 => hat[b] = "notify"
  /\ IsFiniteSet({b \in Batches : fresh[b] > 0})

ScanTrue ==
  /\ fat = "sleep" => ~again
  /\ fat \in {"store", "count", "update", "announce"} => cur \in Graphs
  /\ ~ReanalyzeLateSpans => pending = {}

One(p) == IF p THEN 1 ELSE 0

Reported(g) == {b \in Batches : HomeOf[b] = g /\ fresh[b] > 0}
Counted(g) == IF ReanalyzeLateSpans THEN Cardinality(noticed \cap RunsIn(g)) ELSE 0

(* Announcements of g on their way, each for a reason of its own: reported by   *)
(* an upsert, queued, in the re-analysis loop, in the finalizer's hand.         *)
InReport(g) == IF ReanalyzeLateSpans THEN Cardinality(Reported(g)) ELSE 0
InQueue(g) == One(g \in pending)
InLoop(g) == One(again /\ g \in todo)
Working == fat = "announce" \/ (again /\ fat \in {"store", "count", "update"})
InHand(g) == One(cur = g /\ Working)
OnTheirWay(g) == InReport(g) + InQueue(g) + InLoop(g) + InHand(g)

Final(g) == One(status[g] = "finalized")

AnnouncementsPaid ==
  \A g \in Graphs : announced[g] + OnTheirWay(g) <= Final(g) + Counted(g)

IngestInv ==
  /\ IngestTypeOK /\ StoredFinite /\ SawTrue /\ FreshTrue /\ ScanTrue
  /\ LateTallySound /\ AnnouncementsPaid

(* Every step keeps the types. *)
LEMMA TypeStep ==
  ASSUME IngestInv, IngestNext
  PROVE  IngestTypeOK'
<1>1. ASSUME NEW b \in Batches, Receive(b)
      PROVE  IngestTypeOK'
  BY <1>1, IngestAssumption
  DEF IngestInv, IngestTypeOK, Receive, At, dbVars, finVars, histVars
<1>2. ASSUME NEW b \in Batches, InsertSpans(b)
      PROVE  IngestTypeOK'
  BY <1>2, IngestAssumption
  DEF IngestInv, IngestTypeOK, InsertSpans, At, finVars, histVars
<1>3. ASSUME NEW b \in Batches, LateSelect(b)
      PROVE  IngestTypeOK'
  BY <1>3
  DEF IngestInv, IngestTypeOK, LateSelect, At, dbVars, finVars, histVars
<1>4. ASSUME NEW b \in Batches, LockGraph(b)
      PROVE  IngestTypeOK'
  BY <1>4
  DEF IngestInv, IngestTypeOK, LockGraph, At, finVars, histVars
<1>5. ASSUME NEW b \in Batches, CommitBatch(b)
      PROVE  IngestTypeOK'
  <2> DEFINE late == IF sawFinal[b] THEN NewRuns(b) ELSE {}
  <2>1. /\ IsFiniteSet(late)
        /\ IsFiniteSet((runs \cup RunsOf[b]) \cap RunsIn(HomeOf[b]))
    BY IngestAssumption, FS_Subset, FS_Union, FS_EmptySet
    DEF IngestInv, StoredFinite, NewRuns
  <2>2. /\ Cardinality(late) \in Nat
        /\ Cardinality((runs \cup RunsOf[b]) \cap RunsIn(HomeOf[b])) \in Nat
    BY <2>1, FS_CardinalityType
  <2>3. late \in SUBSET Runs
    BY IngestAssumption DEF NewRuns
  <2> HIDE DEF late
  <2>4. /\ lateCount' = [lateCount EXCEPT ![HomeOf[b]] = @ + Cardinality(late)]
        /\ fresh' = [fresh EXCEPT ![b] = Cardinality(late)]
        /\ noticed' = noticed \cup late
        /\ runs' = runs \cup RunsOf[b]
        /\ runCount' = [runCount EXCEPT ![HomeOf[b]] =
                          Cardinality((runs \cup RunsOf[b]) \cap RunsIn(HomeOf[b]))]
    BY <1>5 DEF CommitBatch, late
  <2>5. HomeOf[b] \in Graphs /\ RunsOf[b] \in SUBSET Runs
    BY <1>5, IngestAssumption
  <2>6. lateCount[HomeOf[b]] + Cardinality(late) \in Nat
    BY <2>2, <2>5 DEF IngestInv, IngestTypeOK
  <2>7. lateCount' \in [Graphs -> Nat]
    BY <2>4, <2>6 DEF IngestInv, IngestTypeOK
  <2>8. runCount' \in [Graphs -> Nat]
    BY <2>2, <2>4 DEF IngestInv, IngestTypeOK
  <2>9. fresh' \in [Batches -> Nat]
    BY <2>2, <2>4 DEF IngestInv, IngestTypeOK
  <2>10. /\ status' \in [Graphs -> {"none", "active", "finalized"}]
         /\ hat' \in [Batches -> {"idle", "insert", "select", "lock", "commit", "notify"}]
         /\ rowLock' \in [Graphs -> Batches \cup {None}]
    BY <1>5, <2>5 DEF IngestInv, IngestTypeOK, CommitBatch, At
  <2>11. overdue' \in SUBSET Runs
    BY <1>5, <2>5 DEF IngestInv, IngestTypeOK, CommitBatch
  <2> QED
    BY <1>5, <2>3, <2>4, <2>5, <2>7, <2>8, <2>9, <2>10, <2>11
    DEF IngestInv, IngestTypeOK, CommitBatch, finVars
<1>6. ASSUME NEW b \in Batches, Notify(b)
      PROVE  IngestTypeOK'
  BY <1>6, IngestAssumption
  DEF IngestInv, IngestTypeOK, Notify, At, dbVars, finVars, histVars
<1>7. ASSUME NEW b \in Batches, PostRaises(b)
      PROVE  IngestTypeOK'
  BY <1>7, IngestAssumption
  DEF IngestInv, IngestTypeOK, PostRaises, At, Mishap, finVars, histVars
<1>8. ASSUME NEW due \in SUBSET Graphs, Scan(due)
      PROVE  IngestTypeOK'
  BY <1>8
  DEF IngestInv, IngestTypeOK, Scan, Step, Active, dbVars, postVars, histVars
<1>9. ASSUME NEW g \in Graphs, StartRemap(g)
      PROVE  IngestTypeOK'
  BY <1>9
  DEF IngestInv, IngestTypeOK, StartRemap, Step, dbVars, postVars, histVars
<1>10. ASSUME StoreRemap
      PROVE  IngestTypeOK'
  <2>1. IsFiniteSet((runs \cup mapped) \cap RunsIn(cur))
    BY FS_Subset, FS_Union DEF IngestInv, StoredFinite
  <2>2. Cardinality((runs \cup mapped) \cap RunsIn(cur)) \in Nat
    BY <2>1, FS_CardinalityType
  <2> QED
    BY <1>10, <2>2
    DEF IngestInv, IngestTypeOK, StoreRemap, Step, postVars, histVars
<1>11. ASSUME RemapRaises
      PROVE  IngestTypeOK'
  BY <1>11
  DEF IngestInv, IngestTypeOK, RemapRaises, Step, dbVars, postVars, histVars
<1>12. ASSUME CountRuns
      PROVE  IngestTypeOK'
  <2>1. Cardinality(runs \cap RunsIn(cur)) \in Nat
    BY FS_CardinalityType, FS_Subset DEF IngestInv, StoredFinite
  <2> QED
    BY <1>12, <2>1
    DEF IngestInv, IngestTypeOK, CountRuns, Step, dbVars, postVars, histVars
<1>13. ASSUME FinalizeUpdate
      PROVE  IngestTypeOK'
  BY <1>13
  DEF IngestInv, IngestTypeOK, FinalizeUpdate, Step, From, postVars, histVars
<1>14. ASSUME FinalizeNone
      PROVE  IngestTypeOK'
  BY <1>14
  DEF IngestInv, IngestTypeOK, FinalizeNone, Step, From, dbVars, postVars, histVars
<1>15. ASSUME Announce
      PROVE  IngestTypeOK'
  <2>1. announced' \in [Graphs -> Nat]
    BY <1>15 DEF Announce, Step, IngestInv, IngestTypeOK, ScanTrue
  <2>2. covered' \in SUBSET Runs
    BY <1>15 DEF Announce, IngestInv, IngestTypeOK
  <2> QED
    BY <1>15, <2>1, <2>2
    DEF IngestInv, IngestTypeOK, Announce, Step, dbVars, postVars
<1>16. ASSUME TakePending
      PROVE  IngestTypeOK'
  BY <1>16
  DEF IngestInv, IngestTypeOK, TakePending, dbVars, postVars, histVars
<1>17. ASSUME ScanDone
      PROVE  IngestTypeOK'
  BY <1>17
  DEF IngestInv, IngestTypeOK, ScanDone, Step, dbVars, postVars, histVars
<1>18. ASSUME ScanRaises
      PROVE  IngestTypeOK'
  <2>1. Dropped \subseteq Graphs
    BY <1>18 DEF ScanRaises, Dropped, IngestInv, IngestTypeOK, ScanTrue
  <2>2. mishaps' \in 0..MaxMishaps
    BY <1>18, IngestAssumption DEF ScanRaises, Mishap, IngestInv, IngestTypeOK
  <2> QED
    BY <1>18, <2>1, <2>2
    DEF IngestInv, IngestTypeOK, ScanRaises, ForgetScan, dbVars, postVars
<1>19. ASSUME Crash
      PROVE  IngestTypeOK'
  <2>1. Dropped \subseteq Graphs
    BY DEF Dropped, IngestInv, IngestTypeOK, ScanTrue
  <2>2. mishaps' \in 0..MaxMishaps
    BY <1>19, IngestAssumption DEF Crash, Mishap, IngestInv, IngestTypeOK
  <2>3. lost' \in SUBSET Graphs
    BY <1>19, <2>1, IngestAssumption DEF Crash, IngestInv, IngestTypeOK
  <2> QED
    BY <1>19, <2>2, <2>3 DEF IngestInv, IngestTypeOK, Crash, ForgetScan
<1> QED
  BY <1>1, <1>2, <1>3, <1>4, <1>5, <1>6, <1>7, <1>8, <1>9, <1>10, <1>11, <1>12, <1>13,
      <1>14, <1>15, <1>16, <1>17, <1>18, <1>19
  DEF IngestNext, PostStep, FinalizerStep

(* Every step keeps the stored sets finite and nested. *)
LEMMA StoredStep ==
  ASSUME IngestInv, IngestNext
  PROVE  StoredFinite'
<1>1. ASSUME NEW b \in Batches, Receive(b) \/ LateSelect(b) \/ LockGraph(b) \/ Notify(b) \/
                 PostRaises(b)
      PROVE  StoredFinite'
  BY <1>1
  DEF IngestInv, StoredFinite, IngestTypeOK, Receive, LateSelect, LockGraph, Notify,
      PostRaises, At, dbVars, finVars, histVars, Mishap
<1>2. ASSUME NEW b \in Batches, InsertSpans(b)
      PROVE  StoredFinite'
  BY <1>2, IngestAssumption, FS_Union
  DEF IngestInv, StoredFinite, IngestTypeOK, InsertSpans, At, finVars, histVars
<1>3. ASSUME NEW b \in Batches, CommitBatch(b)
      PROVE  StoredFinite'
  BY <1>3, IngestAssumption, FS_Union, FS_Subset
  DEF IngestInv, StoredFinite, IngestTypeOK, CommitBatch, At, NewRuns, finVars, SawTrue
<1>4. ASSUME NEW due \in SUBSET Graphs, Scan(due)
      PROVE  StoredFinite'
  BY <1>4
  DEF IngestInv, StoredFinite, IngestTypeOK, Scan, Step, Active, dbVars, postVars, histVars
<1>5. ASSUME NEW g \in Graphs, StartRemap(g)
      PROVE  StoredFinite'
  BY <1>5
  DEF IngestInv, StoredFinite, IngestTypeOK, StartRemap, Step, dbVars, postVars, histVars
<1>6. ASSUME StoreRemap
      PROVE  StoredFinite'
  BY <1>6, FS_Union, FS_Subset
  DEF IngestInv, StoredFinite, IngestTypeOK, StoreRemap, Step, postVars, histVars
<1>7. ASSUME RemapRaises \/ CountRuns \/ FinalizeUpdate \/ FinalizeNone \/ Announce
                 \/ TakePending \/ ScanDone \/ ScanRaises \/ Crash
      PROVE  StoredFinite'
  BY <1>7
  DEF IngestInv, StoredFinite, IngestTypeOK, RemapRaises, CountRuns, FinalizeUpdate,
      FinalizeNone, Announce, TakePending, ScanDone, ScanRaises, Crash, Step, dbVars,
      postVars, histVars, From, Mishap, ForgetScan, Dropped
<1> QED
  BY <1>1, <1>2, <1>3, <1>4, <1>5, <1>6, <1>7
  DEF IngestNext, PostStep, FinalizerStep

(* A graph stays finalized, so what the late-detection SELECT saw stays true. *)
LEMMA SawStep ==
  ASSUME IngestInv, IngestNext
  PROVE  SawTrue'
<1>1. ASSUME NEW b \in Batches, Receive(b) \/ InsertSpans(b) \/ LockGraph(b)
      PROVE  SawTrue'
  BY <1>1
  DEF IngestInv, SawTrue, IngestTypeOK, Receive, InsertSpans, LockGraph, At, dbVars,
      finVars, histVars
<1>2. ASSUME NEW b \in Batches, LateSelect(b)
      PROVE  SawTrue'
  BY <1>2, IngestAssumption
  DEF IngestInv, SawTrue, IngestTypeOK, LateSelect, At, dbVars, finVars, histVars
<1>3. ASSUME NEW b \in Batches, CommitBatch(b)
      PROVE  SawTrue'
  BY <1>3, IngestAssumption
  DEF IngestInv, SawTrue, IngestTypeOK, CommitBatch, At, NewRuns, finVars
<1>4. ASSUME NEW b \in Batches, Notify(b)
      PROVE  SawTrue'
  BY <1>4
  DEF IngestInv, SawTrue, IngestTypeOK, Notify, At, dbVars, finVars, histVars
<1>5. ASSUME NEW b \in Batches, PostRaises(b)
      PROVE  SawTrue'
  BY <1>5
  DEF IngestInv, SawTrue, IngestTypeOK, PostRaises, At, Mishap, finVars, histVars
<1>6. ASSUME NEW due \in SUBSET Graphs, Scan(due)
      PROVE  SawTrue'
  BY <1>6
  DEF IngestInv, SawTrue, IngestTypeOK, Scan, Step, Active, dbVars, postVars, histVars
<1>7. ASSUME NEW g \in Graphs, StartRemap(g)
      PROVE  SawTrue'
  BY <1>7
  DEF IngestInv, SawTrue, IngestTypeOK, StartRemap, Step, dbVars, postVars, histVars
<1>8. ASSUME StoreRemap \/ RemapRaises \/ CountRuns \/ FinalizeNone \/ Announce \/
                 TakePending \/ ScanDone \/ ScanRaises
      PROVE  SawTrue'
  BY <1>8
  DEF IngestInv, SawTrue, IngestTypeOK, StoreRemap, RemapRaises, CountRuns, FinalizeNone,
      Announce, TakePending, ScanDone, ScanRaises, Step, postVars, histVars, dbVars, From,
      Mishap, ForgetScan, Dropped
<1>9. ASSUME FinalizeUpdate
      PROVE  SawTrue'
  BY <1>9
  DEF IngestInv, SawTrue, IngestTypeOK, FinalizeUpdate, Step, From, postVars, histVars
<1>10. ASSUME Crash
      PROVE  SawTrue'
  BY <1>10
  DEF IngestInv, SawTrue, IngestTypeOK, Crash, Mishap, ForgetScan, Dropped
<1> QED
  BY <1>1, <1>2, <1>3, <1>4, <1>5, <1>6, <1>7, <1>8, <1>9, <1>10
  DEF IngestNext, PostStep, FinalizerStep

(* Only a handler that has committed has late runs to report. *)
LEMMA FreshStep ==
  ASSUME IngestInv, IngestNext
  PROVE  FreshTrue'
<1>1. ASSUME NEW b \in Batches, Receive(b) \/ InsertSpans(b) \/ LateSelect(b) \/ LockGraph(b) \/
                 PostRaises(b)
      PROVE  FreshTrue'
  BY <1>1
  DEF IngestInv, FreshTrue, IngestTypeOK, Receive, InsertSpans, LateSelect, LockGraph,
      PostRaises, At, dbVars, finVars, histVars, Mishap
<1>2. ASSUME NEW b \in Batches, CommitBatch(b)
      PROVE  FreshTrue'
  <2>1. \A c \in Batches : c # b => fresh'[c] = fresh[c] /\ hat'[c] = hat[c]
    BY <1>2 DEF CommitBatch, At, IngestInv, IngestTypeOK
  <2>2. hat'[b] = "notify"
    BY <1>2 DEF CommitBatch, At, IngestInv, IngestTypeOK
  <2>3. {c \in Batches : fresh'[c] > 0} \subseteq {c \in Batches : fresh[c] > 0} \cup {b}
    BY <2>1
  <2>4. IsFiniteSet({c \in Batches : fresh[c] > 0} \cup {b})
    BY FS_AddElement DEF IngestInv, FreshTrue
  <2>5. IsFiniteSet({c \in Batches : fresh'[c] > 0})
    BY <2>3, <2>4, FS_Subset
  <2> QED
    BY <2>1, <2>2, <2>5 DEF IngestInv, FreshTrue
<1>3. ASSUME NEW b \in Batches, Notify(b)
      PROVE  FreshTrue'
  <2>1. {c \in Batches : fresh'[c] > 0} \subseteq {c \in Batches : fresh[c] > 0}
    BY <1>3 DEF Notify, IngestInv, IngestTypeOK
  <2>2. IsFiniteSet({c \in Batches : fresh'[c] > 0})
    BY <2>1, FS_Subset DEF IngestInv, FreshTrue
  <2> QED
    BY <1>3, <2>2 DEF Notify, At, IngestInv, FreshTrue, IngestTypeOK
<1>4. ASSUME NEW due \in SUBSET Graphs, Scan(due)
      PROVE  FreshTrue'
  BY <1>4
  DEF IngestInv, FreshTrue, IngestTypeOK, Scan, Step, Active, dbVars, postVars, histVars
<1>5. ASSUME NEW g \in Graphs, StartRemap(g)
      PROVE  FreshTrue'
  BY <1>5
  DEF IngestInv, FreshTrue, IngestTypeOK, StartRemap, Step, dbVars, postVars, histVars
<1>6. ASSUME StoreRemap \/ RemapRaises \/ CountRuns \/ FinalizeUpdate \/
                 FinalizeNone \/ Announce \/ TakePending \/ ScanDone \/ ScanRaises
      PROVE  FreshTrue'
  BY <1>6
  DEF IngestInv, FreshTrue, IngestTypeOK, StoreRemap, RemapRaises, CountRuns,
      FinalizeUpdate, FinalizeNone, Announce, TakePending, ScanDone, ScanRaises, Step,
      postVars, histVars, dbVars, From, Mishap, ForgetScan, Dropped
<1>7. ASSUME Crash
      PROVE  FreshTrue'
  <2>1. {c \in Batches : fresh'[c] > 0} = {}
    BY <1>7 DEF Crash
  <2> QED
    BY <1>7, <2>1, FS_EmptySet DEF Crash, FreshTrue
<1> QED
  BY <1>1, <1>2, <1>3, <1>4, <1>5, <1>6, <1>7
  DEF IngestNext, PostStep, FinalizerStep

(* The finalizer has a graph in hand while it works on one. *)
LEMMA ScanStep ==
  ASSUME IngestInv, IngestNext
  PROVE  ScanTrue'
<1>1. ASSUME NEW b \in Batches, Receive(b) \/ InsertSpans(b) \/ LateSelect(b) \/ LockGraph(b) \/
                 CommitBatch(b) \/ Notify(b) \/ PostRaises(b)
      PROVE  ScanTrue'
  BY <1>1
  DEF IngestInv, ScanTrue, IngestTypeOK, Receive, InsertSpans, LateSelect, LockGraph,
      CommitBatch, Notify, PostRaises, At, dbVars, finVars, histVars, NewRuns, Mishap
<1>2. ASSUME NEW due \in SUBSET Graphs, Scan(due)
      PROVE  ScanTrue'
  BY <1>2
  DEF IngestInv, ScanTrue, IngestTypeOK, Scan, Step, Active, dbVars, postVars, histVars
<1>3. ASSUME NEW g \in Graphs, StartRemap(g)
      PROVE  ScanTrue'
  BY <1>3
  DEF IngestInv, ScanTrue, IngestTypeOK, StartRemap, Step, dbVars, postVars, histVars
<1>4. ASSUME StoreRemap \/ RemapRaises \/ CountRuns \/ FinalizeUpdate \/
                 FinalizeNone \/ Announce \/ TakePending \/ ScanDone \/ ScanRaises \/
                 Crash
      PROVE  ScanTrue'
  BY <1>4
  DEF IngestInv, ScanTrue, IngestTypeOK, StoreRemap, RemapRaises, CountRuns, FinalizeUpdate,
      FinalizeNone, Announce, TakePending, ScanDone, ScanRaises, Crash, Step, postVars,
      histVars, dbVars, From, Mishap, ForgetScan, Dropped
<1> QED
  BY <1>1, <1>2, <1>3, <1>4
  DEF IngestNext, PostStep, FinalizerStep

(* What one transaction counts: the late runs are new to the tables, so they   *)
(* were in neither history set, and all of them join both.                     *)
LEMMA CommitCounts ==
  ASSUME IngestInv, NEW b \in Batches, CommitBatch(b),
         NEW late, late = (IF sawFinal[b] THEN NewRuns(b) ELSE {})
  PROVE  /\ IsFiniteSet(late) /\ Cardinality(late) \in Nat
         /\ late \subseteq RunsIn(HomeOf[b])
         /\ late \cap overdue = {} /\ late \cap noticed = {}
         /\ overdue \cup late \subseteq overdue' /\ noticed' = noticed \cup late
         /\ IsFiniteSet(overdue')
         /\ lateCount' = [lateCount EXCEPT ![HomeOf[b]] = @ + Cardinality(late)]
         /\ fresh' = [fresh EXCEPT ![b] = Cardinality(late)]
         /\ fresh[b] = 0
<1>1. HomeOf[b] \in Graphs /\ RunsOf[b] \subseteq RunsIn(HomeOf[b])
  BY IngestAssumption DEF RunsIn
<1>2. late \subseteq RunsOf[b] /\ late \cap runs = {}
  BY DEF NewRuns
<1>3. IsFiniteSet(late) /\ Cardinality(late) \in Nat
  BY <1>2, IngestAssumption, FS_Subset, FS_CardinalityType
<1>4. late \cap overdue = {} /\ late \cap noticed = {}
  BY <1>2 DEF IngestInv, StoredFinite
<1>5. overdue \cup late \subseteq overdue'
  BY DEF IngestInv, SawTrue, CommitBatch, NewRuns
<1>6. IsFiniteSet(overdue')
  <2>1. IsFiniteSet(overdue \cup (RunsOf[b] \ runs)) /\ IsFiniteSet(overdue)
    BY IngestAssumption, FS_Subset, FS_Union DEF IngestInv, StoredFinite
  <2> QED
    BY <2>1 DEF CommitBatch
<1>7. fresh[b] = 0
  BY DEF CommitBatch, At, IngestInv, IngestTypeOK, FreshTrue
<1>8. /\ noticed' = noticed \cup late
      /\ lateCount' = [lateCount EXCEPT ![HomeOf[b]] = @ + Cardinality(late)]
      /\ fresh' = [fresh EXCEPT ![b] = Cardinality(late)]
  BY DEF CommitBatch
<1> QED
  BY <1>1, <1>2, <1>3, <1>4, <1>5, <1>6, <1>7, <1>8

(* Adding to a finite set elements it has not got adds their number.           *)
LEMMA AddedToPart ==
  ASSUME NEW S, NEW late, NEW T, NEW R, IsFiniteSet(T), IsFiniteSet(late),
         late \subseteq R, late \cap S = {}, S \cup late \subseteq T
  PROVE  /\ Cardinality(S \cap R) \in Nat /\ Cardinality(T \cap R) \in Nat
         /\ Cardinality(late) \in Nat
         /\ Cardinality(S \cap R) + Cardinality(late) <= Cardinality(T \cap R)
<1>1. IsFiniteSet(S \cap R) /\ IsFiniteSet(T \cap R)
  BY FS_Subset
<1>2. /\ Cardinality(S \cap R) \in Nat /\ Cardinality(T \cap R) \in Nat
      /\ Cardinality(late) \in Nat
  BY <1>1, FS_CardinalityType
<1>3. (S \cap R) \cap late = {}
  OBVIOUS
<1>4. Cardinality((S \cap R) \cup late)
        = Cardinality(S \cap R) + Cardinality(late) - Cardinality((S \cap R) \cap late)
  BY <1>1, FS_Union
<1>5. Cardinality((S \cap R) \cap late) = 0
  BY <1>3, FS_EmptySet
<1>6. (S \cap R) \cup late \subseteq T \cap R
  OBVIOUS
<1>7. Cardinality((S \cap R) \cup late) <= Cardinality(T \cap R)
  BY <1>1, <1>6, FS_Subset
<1> QED
  BY <1>2, <1>4, <1>5, <1>7

(* A run is counted as late once, in the transaction that stored it. *)
LEMMA TallyStep ==
  ASSUME IngestInv, IngestNext
  PROVE  LateTallySound'
<1>1. ASSUME NEW b \in Batches, Receive(b) \/ InsertSpans(b) \/ LateSelect(b) \/ LockGraph(b) \/
                 Notify(b) \/ PostRaises(b)
      PROVE  LateTallySound'
  BY <1>1
  DEF IngestInv, LateTallySound, IngestTypeOK, Receive, InsertSpans, LateSelect, LockGraph,
      Notify, PostRaises, At, dbVars, finVars, histVars, Mishap
<1>2. ASSUME NEW b \in Batches, CommitBatch(b)
      PROVE  LateTallySound'
  <2> DEFINE late == IF sawFinal[b] THEN NewRuns(b) ELSE {}
  <2>1. /\ late \subseteq RunsIn(HomeOf[b]) /\ IsFiniteSet(late)
        /\ late \cap overdue = {}
        /\ overdue \cup late \subseteq overdue' /\ IsFiniteSet(overdue')
        /\ lateCount' = [lateCount EXCEPT ![HomeOf[b]] = @ + Cardinality(late)]
    BY <1>2, CommitCounts
  <2> HIDE DEF late
  <2>2. ASSUME NEW g \in Graphs
        PROVE  lateCount'[g] <= Cardinality(overdue' \cap RunsIn(g))
    <3>1. lateCount[g] \in Nat /\ lateCount[g] <= Cardinality(overdue \cap RunsIn(g))
      BY <2>2 DEF IngestInv, IngestTypeOK, LateTallySound
    <3>2. CASE g = HomeOf[b]
      <4>1. lateCount'[g] = lateCount[g] + Cardinality(late)
        BY <2>1, <2>2, <3>2 DEF IngestInv, IngestTypeOK
      <4>2. /\ Cardinality(overdue \cap RunsIn(g)) \in Nat
            /\ Cardinality(overdue' \cap RunsIn(g)) \in Nat
            /\ Cardinality(late) \in Nat
            /\ Cardinality(overdue \cap RunsIn(g)) + Cardinality(late)
                  <= Cardinality(overdue' \cap RunsIn(g))
        BY <2>1, <3>2, AddedToPart
      <4> QED
        BY <3>1, <4>1, <4>2
    <3>3. CASE g # HomeOf[b]
      <4>1. lateCount'[g] = lateCount[g]
        BY <2>1, <2>2, <3>3 DEF IngestInv, IngestTypeOK
      <4>2. overdue \cap RunsIn(g) \subseteq overdue' \cap RunsIn(g)
        BY <2>1
      <4>3. IsFiniteSet(overdue' \cap RunsIn(g))
        BY <2>1, FS_Subset
      <4>4. /\ Cardinality(overdue \cap RunsIn(g)) \in Nat
            /\ Cardinality(overdue' \cap RunsIn(g)) \in Nat
            /\ Cardinality(overdue \cap RunsIn(g)) <= Cardinality(overdue' \cap RunsIn(g))
        BY <4>2, <4>3, FS_Subset, FS_CardinalityType
      <4> QED
        BY <3>1, <4>1, <4>4
    <3> QED
      BY <3>2, <3>3
  <2> QED
    BY <2>2 DEF LateTallySound
<1>3. ASSUME NEW due \in SUBSET Graphs, Scan(due)
      PROVE  LateTallySound'
  BY <1>3
  DEF IngestInv, LateTallySound, IngestTypeOK, Scan, Step, Active, dbVars, postVars,
      histVars
<1>4. ASSUME NEW g \in Graphs, StartRemap(g)
      PROVE  LateTallySound'
  BY <1>4
  DEF IngestInv, LateTallySound, IngestTypeOK, StartRemap, Step, dbVars, postVars, histVars
<1>5. ASSUME StoreRemap \/ RemapRaises \/ CountRuns \/ FinalizeUpdate \/
                 FinalizeNone \/ Announce \/ TakePending \/ ScanDone \/ ScanRaises \/
                 Crash
      PROVE  LateTallySound'
  BY <1>5
  DEF IngestInv, LateTallySound, IngestTypeOK, StoreRemap, RemapRaises, CountRuns,
      FinalizeUpdate, FinalizeNone, Announce, TakePending, ScanDone, ScanRaises, Crash,
      Step, postVars, histVars, dbVars, From, Mishap, ForgetScan, Dropped
<1> QED
  BY <1>1, <1>2, <1>3, <1>4, <1>5
  DEF IngestNext, PostStep, FinalizerStep

(* The numbers the account of announcements is made of.                        *)
LEMMA Numbers ==
  ASSUME IngestInv, NEW g \in Graphs
  PROVE  /\ announced[g] \in Nat
         /\ IsFiniteSet(Reported(g)) /\ Cardinality(Reported(g)) \in Nat
         /\ Cardinality(noticed \cap RunsIn(g)) \in Nat
         /\ Counted(g) \in Nat /\ InReport(g) \in Nat
<1>1. announced[g] \in Nat
  BY DEF IngestInv, IngestTypeOK
<1>2. Reported(g) \subseteq {b \in Batches : fresh[b] > 0}
  BY DEF Reported
<1>3. IsFiniteSet(Reported(g))
  BY <1>2, FS_Subset DEF IngestInv, FreshTrue
<1>4. IsFiniteSet(noticed \cap RunsIn(g))
  BY FS_Subset DEF IngestInv, StoredFinite
<1>5. Cardinality(Reported(g)) \in Nat /\ Cardinality(noticed \cap RunsIn(g)) \in Nat
  BY <1>3, <1>4, FS_CardinalityType
<1> QED
  BY <1>1, <1>3, <1>5 DEF Counted, InReport

LEMMA Ones ==
  ASSUME NEW g
  PROVE  /\ InQueue(g) \in 0..1 /\ InLoop(g) \in 0..1
         /\ InHand(g) \in 0..1 /\ Final(g) \in 0..1
         /\ InQueue(g)' \in 0..1 /\ InLoop(g)' \in 0..1
         /\ InHand(g)' \in 0..1 /\ Final(g)' \in 0..1
  BY DEF InQueue, InLoop, InHand, Working, Final, One

(* The account of one graph, where a step moves no late run in or out of it.    *)
LEMMA Rebooked ==
  ASSUME IngestInv, IngestNext, NEW h \in Graphs,
         Counted(h)' = Counted(h), InReport(h)' \in Int,
         announced'[h] + InReport(h)' + InQueue(h)' + InLoop(h)' + InHand(h)' - Final(h)'
           <= announced[h] + InReport(h) + InQueue(h) + InLoop(h) + InHand(h) - Final(h)
  PROVE  announced'[h] + OnTheirWay(h)' <= Final(h)' + Counted(h)'
<1>1. /\ InQueue(h) \in 0..1 /\ InLoop(h) \in 0..1 /\ InHand(h) \in 0..1
      /\ Final(h) \in 0..1
      /\ InQueue(h)' \in 0..1 /\ InLoop(h)' \in 0..1 /\ InHand(h)' \in 0..1
      /\ Final(h)' \in 0..1
  BY Ones
<1>2. /\ announced[h] \in Nat /\ Counted(h) \in Nat /\ InReport(h) \in Nat
      /\ announced[h] + OnTheirWay(h) <= Final(h) + Counted(h)
  BY Numbers DEF IngestInv, AnnouncementsPaid
<1>3. announced'[h] \in Nat
  BY TypeStep DEF IngestTypeOK
<1> QED
  BY <1>1, <1>2, <1>3 DEF OnTheirWay

(* Every announcement keeps the reason it was promised for. *)
LEMMA PaidStep ==
  ASSUME IngestInv, IngestNext
  PROVE  AnnouncementsPaid'
<1>1. ASSUME NEW b \in Batches, Receive(b) \/ InsertSpans(b) \/ LateSelect(b) \/ LockGraph(b) \/
                 PostRaises(b)
      PROVE  AnnouncementsPaid'
  <2>1. ASSUME NEW h \in Graphs
        PROVE  announced'[h] + OnTheirWay(h)' <= Final(h)' + Counted(h)'
    <3>1. InReport(h)' = InReport(h) /\ Counted(h)' = Counted(h)
      BY <1>1 DEF InReport, Reported, Counted, Receive, InsertSpans, LateSelect, LockGraph, PostRaises, At, dbVars,
          finVars, histVars, Mishap
    <3>2. announced'[h] + InQueue(h)' + InLoop(h)' + InHand(h)' - Final(h)'
            <= announced[h] + InQueue(h) + InLoop(h) + InHand(h) - Final(h)
      BY <2>1, <1>1, IngestAssumption
      DEF IngestInv, IngestTypeOK, ScanTrue, InQueue, InLoop, InHand, Working, Final, One,
          Receive, InsertSpans, LateSelect, LockGraph, PostRaises, At, dbVars,
          finVars, histVars, Mishap
    <3>3. announced'[h] \in Nat /\ announced[h] \in Nat /\ InReport(h) \in Nat
      BY <2>1, Numbers, TypeStep DEF IngestTypeOK
    <3>4. /\ InQueue(h) \in 0..1 /\ InLoop(h) \in 0..1 /\ InHand(h) \in 0..1
          /\ Final(h) \in 0..1
          /\ InQueue(h)' \in 0..1 /\ InLoop(h)' \in 0..1 /\ InHand(h)' \in 0..1
          /\ Final(h)' \in 0..1
      BY Ones
    <3>5. announced'[h] + InReport(h)' + InQueue(h)' + InLoop(h)' + InHand(h)' - Final(h)'
            <= announced[h] + InReport(h) + InQueue(h) + InLoop(h) + InHand(h) - Final(h)
      BY <3>1, <3>2, <3>3, <3>4
    <3> QED
      BY <2>1, <3>1, <3>3, <3>5, Rebooked
  <2> QED
    BY <2>1 DEF AnnouncementsPaid
<1>2. ASSUME NEW b \in Batches, CommitBatch(b)
      PROVE  AnnouncementsPaid'
  <2> DEFINE late == IF sawFinal[b] THEN NewRuns(b) ELSE {}
             home == HomeOf[b]
  <2>1. /\ late \subseteq RunsIn(home) /\ IsFiniteSet(late) /\ Cardinality(late) \in Nat
        /\ late \cap noticed = {} /\ noticed' = noticed \cup late
        /\ fresh' = [fresh EXCEPT ![b] = Cardinality(late)] /\ fresh[b] = 0
    BY <1>2, CommitCounts
  <2>2. IsFiniteSet(noticed')
    BY <2>1, FS_Subset, FS_Union DEF IngestInv, StoredFinite
  <2>3. /\ UNCHANGED <<announced, pending, again, todo, cur, fat>>
        /\ \A h \in Graphs : (status'[h] = "finalized") = (status[h] = "finalized")
    BY <1>2 DEF CommitBatch, finVars, IngestInv, IngestTypeOK
  <2> HIDE DEF late
  <2>4. ASSUME NEW h \in Graphs
        PROVE  announced'[h] + OnTheirWay(h)' <= Final(h)' + Counted(h)'
    <3> DEFINE n  == Cardinality(noticed \cap RunsIn(h))
               m  == Cardinality(noticed' \cap RunsIn(h))
               k  == Cardinality(Reported(h))
               l  == Cardinality(Reported(h)')
    <3>1. n \in Nat /\ k \in Nat /\ IsFiniteSet(Reported(h)) /\ announced[h] \in Nat
      BY <2>4, Numbers
    <3>2. m \in Nat /\ n <= m
      <4>1. /\ noticed \cap RunsIn(h) \subseteq noticed' \cap RunsIn(h)
            /\ IsFiniteSet(noticed' \cap RunsIn(h))
        BY <2>1, <2>2, FS_Subset
      <4> QED
        BY <4>1, FS_Subset, FS_CardinalityType
    <3>3. l \in Nat /\ l - k <= m - n
      <4>1. CASE h = home /\ late # {}
        <5>1. Cardinality(late) > 0
          BY <2>1, <4>1, FS_EmptySet
        <5>2. Reported(h)' = Reported(h) \cup {b}
          BY <1>2, <2>1, <4>1, <5>1 DEF Reported, IngestInv, IngestTypeOK
        <5>3. b \notin Reported(h)
          BY <2>1 DEF Reported
        <5>4. l = k + 1
          BY <3>1, <5>2, <5>3, FS_AddElement
        <5>5. n + Cardinality(late) <= m
          BY <2>1, <2>2, <4>1, AddedToPart
        <5> QED
          BY <2>1, <3>1, <3>2, <5>1, <5>4, <5>5
      <4>2. CASE ~(h = home /\ late # {})
        <5>1. late = {} => Cardinality(late) = 0
          BY FS_EmptySet
        <5>2. Reported(h)' = Reported(h)
          BY <1>2, <2>1, <4>2, <5>1 DEF Reported, IngestInv, IngestTypeOK
        <5> QED
          BY <3>1, <3>2, <5>2
      <4> QED
        BY <4>1, <4>2
    <3>4. announced[h] + OnTheirWay(h) <= Final(h) + Counted(h)
      BY <2>4 DEF IngestInv, AnnouncementsPaid
    <3>5. /\ UNCHANGED <<announced[h], InQueue(h), InLoop(h), InHand(h)>>
          /\ Final(h)' = Final(h)
      BY <2>3, <2>4 DEF InQueue, InLoop, InHand, Working, Final
    <3>6. /\ Counted(h) = IF ReanalyzeLateSpans THEN n ELSE 0
          /\ Counted(h)' = IF ReanalyzeLateSpans THEN m ELSE 0
          /\ InReport(h) = IF ReanalyzeLateSpans THEN k ELSE 0
          /\ InReport(h)' = IF ReanalyzeLateSpans THEN l ELSE 0
      BY DEF Counted, InReport
    <3>7. /\ InQueue(h) \in 0..1 /\ InLoop(h) \in 0..1 /\ InHand(h) \in 0..1
          /\ Final(h) \in 0..1
      BY Ones
    <3> HIDE DEF n, m, k, l
    <3> QED
      BY <3>1, <3>2, <3>3, <3>4, <3>5, <3>6, <3>7 DEF OnTheirWay
  <2> QED
    BY <2>4 DEF AnnouncementsPaid
<1>3. ASSUME NEW b \in Batches, Notify(b)
      PROVE  AnnouncementsPaid'
  <2>1. ASSUME NEW h \in Graphs
        PROVE  announced'[h] + OnTheirWay(h)' <= Final(h)' + Counted(h)'
    <3>1. Counted(h)' = Counted(h)
      BY <1>3 DEF Notify, histVars, Counted
    <3>2. /\ announced' = announced
          /\ InLoop(h)' = InLoop(h) /\ InHand(h)' = InHand(h) /\ Final(h)' = Final(h)
      BY <1>3 DEF Notify, dbVars, finVars, InLoop, InHand, Working, Final
    <3>3. InReport(h)' + InQueue(h)' <= InReport(h) + InQueue(h)
      <4>1. CASE h = HomeOf[b] /\ fresh[b] > 0
        <5>1. Reported(h)' = Reported(h) \ {b} /\ b \in Reported(h)
          BY <1>3, <4>1 DEF Reported, Notify, IngestInv, IngestTypeOK
        <5>2. Cardinality(Reported(h)') = Cardinality(Reported(h)) - 1
          BY <2>1, <5>1, Numbers, FS_RemoveElement
        <5>3. ~ReanalyzeLateSpans => pending' = pending
          BY <1>3, IngestAssumption DEF Notify
        <5>4. CASE ReanalyzeLateSpans
          <6>1. Cardinality(Reported(h)) \in Nat /\ InQueue(h) \in 0..1 /\ InQueue(h)' \in 0..1
            BY <2>1, Numbers, Ones
          <6> QED
            BY <5>2, <5>4, <6>1 DEF InReport
        <5>5. CASE ~ReanalyzeLateSpans
          BY <2>1, <5>3, <5>5, Ones DEF InReport, InQueue
        <5> QED
          BY <5>4, <5>5
      <4>2. CASE ~(h = HomeOf[b] /\ fresh[b] > 0)
        <5>1. Reported(h)' = Reported(h)
          BY <1>3, <4>2 DEF Reported, Notify, IngestInv, IngestTypeOK
        <5>2. h \in pending' <=> h \in pending
          BY <1>3, <4>2 DEF Notify
        <5>3. InReport(h)' = InReport(h) /\ InQueue(h)' = InQueue(h)
          BY <5>1, <5>2 DEF InReport, InQueue, One
        <5>4. InReport(h) \in Nat /\ InQueue(h) \in 0..1
          BY <2>1, Numbers, Ones
        <5> QED
          BY <5>3, <5>4
      <4> QED
        BY <4>1, <4>2
    <3>4. InReport(h)' \in Int
      <4>1. Reported(h)' \subseteq Reported(h)
        BY <1>3 DEF Reported, Notify, IngestInv, IngestTypeOK
      <4>2. Cardinality(Reported(h)') \in Nat
        BY <2>1, <4>1, Numbers, FS_Subset, FS_CardinalityType
      <4> QED
        BY <4>2 DEF InReport
    <3>5. /\ announced[h] \in Nat /\ InReport(h) \in Nat
          /\ InQueue(h) \in 0..1 /\ InLoop(h) \in 0..1 /\ InHand(h) \in 0..1
          /\ Final(h) \in 0..1 /\ InQueue(h)' \in 0..1
      BY <2>1, Numbers, Ones
    <3>6. announced'[h] + InReport(h)' + InQueue(h)' + InLoop(h)' + InHand(h)' - Final(h)'
            <= announced[h] + InReport(h) + InQueue(h) + InLoop(h) + InHand(h) - Final(h)
      BY <3>2, <3>3, <3>4, <3>5
    <3> QED
      BY <2>1, <3>1, <3>4, <3>6, Rebooked
  <2> QED
    BY <2>1 DEF AnnouncementsPaid
<1>4. ASSUME NEW due \in SUBSET Graphs, Scan(due)
      PROVE  AnnouncementsPaid'
  <2>1. ASSUME NEW h \in Graphs
        PROVE  announced'[h] + OnTheirWay(h)' <= Final(h)' + Counted(h)'
    <3>1. InReport(h)' = InReport(h) /\ Counted(h)' = Counted(h)
      BY <1>4 DEF InReport, Reported, Counted, Scan, Step, Active, dbVars, postVars, histVars
    <3>2. announced'[h] + InQueue(h)' + InLoop(h)' + InHand(h)' - Final(h)'
            <= announced[h] + InQueue(h) + InLoop(h) + InHand(h) - Final(h)
      BY <2>1, <1>4, IngestAssumption
      DEF IngestInv, IngestTypeOK, ScanTrue, InQueue, InLoop, InHand, Working, Final, One,
          Scan, Step, Active, dbVars, postVars, histVars
    <3>3. announced'[h] \in Nat /\ announced[h] \in Nat /\ InReport(h) \in Nat
      BY <2>1, Numbers, TypeStep DEF IngestTypeOK
    <3>4. /\ InQueue(h) \in 0..1 /\ InLoop(h) \in 0..1 /\ InHand(h) \in 0..1
          /\ Final(h) \in 0..1
          /\ InQueue(h)' \in 0..1 /\ InLoop(h)' \in 0..1 /\ InHand(h)' \in 0..1
          /\ Final(h)' \in 0..1
      BY Ones
    <3>5. announced'[h] + InReport(h)' + InQueue(h)' + InLoop(h)' + InHand(h)' - Final(h)'
            <= announced[h] + InReport(h) + InQueue(h) + InLoop(h) + InHand(h) - Final(h)
      BY <3>1, <3>2, <3>3, <3>4
    <3> QED
      BY <2>1, <3>1, <3>3, <3>5, Rebooked
  <2> QED
    BY <2>1 DEF AnnouncementsPaid
<1>5. ASSUME NEW g \in Graphs, StartRemap(g)
      PROVE  AnnouncementsPaid'
  <2>1. ASSUME NEW h \in Graphs
        PROVE  announced'[h] + OnTheirWay(h)' <= Final(h)' + Counted(h)'
    <3>1. InReport(h)' = InReport(h) /\ Counted(h)' = Counted(h)
      BY <1>5 DEF InReport, Reported, Counted, StartRemap, Step, dbVars, postVars, histVars
    <3>2. announced'[h] + InQueue(h)' + InLoop(h)' + InHand(h)' - Final(h)'
            <= announced[h] + InQueue(h) + InLoop(h) + InHand(h) - Final(h)
      <4>1. /\ announced' = announced /\ Final(h)' = Final(h)
            /\ InQueue(h)' = InQueue(h) /\ InHand(h) = 0
            /\ fat' = "store" /\ again' = again /\ cur' = g
            /\ todo' = todo \ {g} /\ g \in todo
        BY <1>5 DEF StartRemap, Step, dbVars, InQueue, InHand, Working, Final, One
      <4>2. InLoop(h)' + InHand(h)' = InLoop(h)
        <5>1. CASE again /\ h = g
          <6>1. InLoop(h) = 1 /\ InLoop(h)' = 0 /\ InHand(h)' = 1
            BY <4>1, <5>1 DEF InLoop, InHand, Working, One
          <6> QED
            BY <6>1
        <5>2. CASE ~(again /\ h = g)
          <6>0. ~(cur' = h /\ Working')
            BY <4>1, <5>2 DEF Working
          <6>1. InHand(h)' = 0
            BY <6>0 DEF InHand, One
          <6>2. (again' /\ h \in todo') <=> (again /\ h \in todo)
            BY <4>1, <5>2
          <6>3. InLoop(h)' = InLoop(h) /\ InLoop(h) \in 0..1
            BY <6>2 DEF InLoop, One
          <6> QED
            BY <6>1, <6>3
        <5> QED
          BY <5>1, <5>2
      <4>3. /\ announced[h] \in Nat /\ Final(h) \in 0..1 /\ InQueue(h) \in 0..1
            /\ InLoop(h) \in 0..1 /\ InLoop(h)' \in 0..1 /\ InHand(h)' \in 0..1
        BY <2>1, Numbers, Ones
      <4> QED
        BY <4>1, <4>2, <4>3
    <3>3. announced'[h] \in Nat /\ announced[h] \in Nat /\ InReport(h) \in Nat
      BY <2>1, Numbers, TypeStep DEF IngestTypeOK
    <3>4. /\ InQueue(h) \in 0..1 /\ InLoop(h) \in 0..1 /\ InHand(h) \in 0..1
          /\ Final(h) \in 0..1
          /\ InQueue(h)' \in 0..1 /\ InLoop(h)' \in 0..1 /\ InHand(h)' \in 0..1
          /\ Final(h)' \in 0..1
      BY Ones
    <3>5. announced'[h] + InReport(h)' + InQueue(h)' + InLoop(h)' + InHand(h)' - Final(h)'
            <= announced[h] + InReport(h) + InQueue(h) + InLoop(h) + InHand(h) - Final(h)
      BY <3>1, <3>2, <3>3, <3>4
    <3> QED
      BY <2>1, <3>1, <3>3, <3>5, Rebooked
  <2> QED
    BY <2>1 DEF AnnouncementsPaid
<1>6. ASSUME StoreRemap
      PROVE  AnnouncementsPaid'
  <2>1. ASSUME NEW h \in Graphs
        PROVE  announced'[h] + OnTheirWay(h)' <= Final(h)' + Counted(h)'
    <3>1. InReport(h)' = InReport(h) /\ Counted(h)' = Counted(h)
      BY <1>6 DEF InReport, Reported, Counted, StoreRemap, Step, postVars, histVars
    <3>2. announced'[h] + InQueue(h)' + InLoop(h)' + InHand(h)' - Final(h)'
            <= announced[h] + InQueue(h) + InLoop(h) + InHand(h) - Final(h)
      BY <2>1, <1>6, IngestAssumption
      DEF IngestInv, IngestTypeOK, ScanTrue, InQueue, InLoop, InHand, Working, Final, One,
          StoreRemap, Step, postVars, histVars
    <3>3. announced'[h] \in Nat /\ announced[h] \in Nat /\ InReport(h) \in Nat
      BY <2>1, Numbers, TypeStep DEF IngestTypeOK
    <3>4. /\ InQueue(h) \in 0..1 /\ InLoop(h) \in 0..1 /\ InHand(h) \in 0..1
          /\ Final(h) \in 0..1
          /\ InQueue(h)' \in 0..1 /\ InLoop(h)' \in 0..1 /\ InHand(h)' \in 0..1
          /\ Final(h)' \in 0..1
      BY Ones
    <3>5. announced'[h] + InReport(h)' + InQueue(h)' + InLoop(h)' + InHand(h)' - Final(h)'
            <= announced[h] + InReport(h) + InQueue(h) + InLoop(h) + InHand(h) - Final(h)
      BY <3>1, <3>2, <3>3, <3>4
    <3> QED
      BY <2>1, <3>1, <3>3, <3>5, Rebooked
  <2> QED
    BY <2>1 DEF AnnouncementsPaid
<1>7. ASSUME RemapRaises
      PROVE  AnnouncementsPaid'
  <2>1. ASSUME NEW h \in Graphs
        PROVE  announced'[h] + OnTheirWay(h)' <= Final(h)' + Counted(h)'
    <3>1. InReport(h)' = InReport(h) /\ Counted(h)' = Counted(h)
      BY <1>7 DEF InReport, Reported, Counted, RemapRaises, Step, dbVars, postVars, histVars
    <3>2. announced'[h] + InQueue(h)' + InLoop(h)' + InHand(h)' - Final(h)'
            <= announced[h] + InQueue(h) + InLoop(h) + InHand(h) - Final(h)
      BY <2>1, <1>7, IngestAssumption
      DEF IngestInv, IngestTypeOK, ScanTrue, InQueue, InLoop, InHand, Working, Final, One,
          RemapRaises, Step, dbVars, postVars, histVars
    <3>3. announced'[h] \in Nat /\ announced[h] \in Nat /\ InReport(h) \in Nat
      BY <2>1, Numbers, TypeStep DEF IngestTypeOK
    <3>4. /\ InQueue(h) \in 0..1 /\ InLoop(h) \in 0..1 /\ InHand(h) \in 0..1
          /\ Final(h) \in 0..1
          /\ InQueue(h)' \in 0..1 /\ InLoop(h)' \in 0..1 /\ InHand(h)' \in 0..1
          /\ Final(h)' \in 0..1
      BY Ones
    <3>5. announced'[h] + InReport(h)' + InQueue(h)' + InLoop(h)' + InHand(h)' - Final(h)'
            <= announced[h] + InReport(h) + InQueue(h) + InLoop(h) + InHand(h) - Final(h)
      BY <3>1, <3>2, <3>3, <3>4
    <3> QED
      BY <2>1, <3>1, <3>3, <3>5, Rebooked
  <2> QED
    BY <2>1 DEF AnnouncementsPaid
<1>8. ASSUME CountRuns
      PROVE  AnnouncementsPaid'
  <2>1. ASSUME NEW h \in Graphs
        PROVE  announced'[h] + OnTheirWay(h)' <= Final(h)' + Counted(h)'
    <3>1. InReport(h)' = InReport(h) /\ Counted(h)' = Counted(h)
      BY <1>8 DEF InReport, Reported, Counted, CountRuns, Step, dbVars, postVars, histVars
    <3>2. announced'[h] + InQueue(h)' + InLoop(h)' + InHand(h)' - Final(h)'
            <= announced[h] + InQueue(h) + InLoop(h) + InHand(h) - Final(h)
      BY <2>1, <1>8, IngestAssumption
      DEF IngestInv, IngestTypeOK, ScanTrue, InQueue, InLoop, InHand, Working, Final, One,
          CountRuns, Step, dbVars, postVars, histVars
    <3>3. announced'[h] \in Nat /\ announced[h] \in Nat /\ InReport(h) \in Nat
      BY <2>1, Numbers, TypeStep DEF IngestTypeOK
    <3>4. /\ InQueue(h) \in 0..1 /\ InLoop(h) \in 0..1 /\ InHand(h) \in 0..1
          /\ Final(h) \in 0..1
          /\ InQueue(h)' \in 0..1 /\ InLoop(h)' \in 0..1 /\ InHand(h)' \in 0..1
          /\ Final(h)' \in 0..1
      BY Ones
    <3>5. announced'[h] + InReport(h)' + InQueue(h)' + InLoop(h)' + InHand(h)' - Final(h)'
            <= announced[h] + InReport(h) + InQueue(h) + InLoop(h) + InHand(h) - Final(h)
      BY <3>1, <3>2, <3>3, <3>4
    <3> QED
      BY <2>1, <3>1, <3>3, <3>5, Rebooked
  <2> QED
    BY <2>1 DEF AnnouncementsPaid
<1>9. ASSUME FinalizeUpdate
      PROVE  AnnouncementsPaid'
  <2>1. ASSUME NEW h \in Graphs
        PROVE  announced'[h] + OnTheirWay(h)' <= Final(h)' + Counted(h)'
    <3>1. InReport(h)' = InReport(h) /\ Counted(h)' = Counted(h)
      BY <1>9 DEF InReport, Reported, Counted, FinalizeUpdate, Step, From, postVars, histVars
    <3>2. announced'[h] + InQueue(h)' + InLoop(h)' + InHand(h)' - Final(h)'
            <= announced[h] + InQueue(h) + InLoop(h) + InHand(h) - Final(h)
      BY <2>1, <1>9, IngestAssumption
      DEF IngestInv, IngestTypeOK, ScanTrue, InQueue, InLoop, InHand, Working, Final, One,
          FinalizeUpdate, Step, From, postVars, histVars
    <3>3. announced'[h] \in Nat /\ announced[h] \in Nat /\ InReport(h) \in Nat
      BY <2>1, Numbers, TypeStep DEF IngestTypeOK
    <3>4. /\ InQueue(h) \in 0..1 /\ InLoop(h) \in 0..1 /\ InHand(h) \in 0..1
          /\ Final(h) \in 0..1
          /\ InQueue(h)' \in 0..1 /\ InLoop(h)' \in 0..1 /\ InHand(h)' \in 0..1
          /\ Final(h)' \in 0..1
      BY Ones
    <3>5. announced'[h] + InReport(h)' + InQueue(h)' + InLoop(h)' + InHand(h)' - Final(h)'
            <= announced[h] + InReport(h) + InQueue(h) + InLoop(h) + InHand(h) - Final(h)
      BY <3>1, <3>2, <3>3, <3>4
    <3> QED
      BY <2>1, <3>1, <3>3, <3>5, Rebooked
  <2> QED
    BY <2>1 DEF AnnouncementsPaid
<1>10. ASSUME FinalizeNone
      PROVE  AnnouncementsPaid'
  <2>1. ASSUME NEW h \in Graphs
        PROVE  announced'[h] + OnTheirWay(h)' <= Final(h)' + Counted(h)'
    <3>1. InReport(h)' = InReport(h) /\ Counted(h)' = Counted(h)
      BY <1>10 DEF InReport, Reported, Counted, FinalizeNone, Step, From, dbVars, postVars, histVars
    <3>2. announced'[h] + InQueue(h)' + InLoop(h)' + InHand(h)' - Final(h)'
            <= announced[h] + InQueue(h) + InLoop(h) + InHand(h) - Final(h)
      BY <2>1, <1>10, IngestAssumption
      DEF IngestInv, IngestTypeOK, ScanTrue, InQueue, InLoop, InHand, Working, Final, One,
          FinalizeNone, Step, From, dbVars, postVars, histVars
    <3>3. announced'[h] \in Nat /\ announced[h] \in Nat /\ InReport(h) \in Nat
      BY <2>1, Numbers, TypeStep DEF IngestTypeOK
    <3>4. /\ InQueue(h) \in 0..1 /\ InLoop(h) \in 0..1 /\ InHand(h) \in 0..1
          /\ Final(h) \in 0..1
          /\ InQueue(h)' \in 0..1 /\ InLoop(h)' \in 0..1 /\ InHand(h)' \in 0..1
          /\ Final(h)' \in 0..1
      BY Ones
    <3>5. announced'[h] + InReport(h)' + InQueue(h)' + InLoop(h)' + InHand(h)' - Final(h)'
            <= announced[h] + InReport(h) + InQueue(h) + InLoop(h) + InHand(h) - Final(h)
      BY <3>1, <3>2, <3>3, <3>4
    <3> QED
      BY <2>1, <3>1, <3>3, <3>5, Rebooked
  <2> QED
    BY <2>1 DEF AnnouncementsPaid
<1>11. ASSUME Announce
      PROVE  AnnouncementsPaid'
  <2>1. ASSUME NEW h \in Graphs
        PROVE  announced'[h] + OnTheirWay(h)' <= Final(h)' + Counted(h)'
    <3>1. InReport(h)' = InReport(h) /\ Counted(h)' = Counted(h)
      BY <1>11 DEF InReport, Reported, Counted, Announce, Step, dbVars, postVars
    <3>2. announced'[h] + InQueue(h)' + InLoop(h)' + InHand(h)' - Final(h)'
            <= announced[h] + InQueue(h) + InLoop(h) + InHand(h) - Final(h)
      <4>1. /\ announced' = [announced EXCEPT ![cur] = @ + 1] /\ Final(h)' = Final(h)
            /\ InQueue(h)' = InQueue(h) /\ InLoop(h)' = InLoop(h)
            /\ fat = "announce" /\ fat' = "next" /\ cur' = cur
        BY <1>11 DEF Announce, Step, dbVars, InQueue, InLoop, Final
      <4>2. /\ announced'[h] = announced[h] + One(cur = h) /\ announced[h] \in Nat
            /\ InHand(h) = One(cur = h) /\ InHand(h)' = 0
        <5>1. announced \in [Graphs -> Nat]
          BY DEF IngestInv, IngestTypeOK
        <5>2. CASE cur = h
          <6>1. announced'[h] = announced[h] + 1
            BY <2>1, <4>1, <5>1, <5>2
          <6>2. InHand(h) = 1 /\ InHand(h)' = 0
            BY <4>1, <5>2 DEF InHand, Working, One
          <6> QED
            BY <2>1, <5>1, <5>2, <6>1, <6>2 DEF One
        <5>3. CASE cur # h
          BY <2>1, <4>1, <5>1, <5>3 DEF InHand, Working, One
        <5> QED
          BY <5>2, <5>3
      <4>3. InQueue(h) \in 0..1 /\ InLoop(h) \in 0..1 /\ Final(h) \in 0..1 /\ One(cur = h) \in 0..1
        BY Ones DEF One
      <4> QED
        BY <4>1, <4>2, <4>3
    <3>3. announced'[h] \in Nat /\ announced[h] \in Nat /\ InReport(h) \in Nat
      BY <2>1, Numbers, TypeStep DEF IngestTypeOK
    <3>4. /\ InQueue(h) \in 0..1 /\ InLoop(h) \in 0..1 /\ InHand(h) \in 0..1
          /\ Final(h) \in 0..1
          /\ InQueue(h)' \in 0..1 /\ InLoop(h)' \in 0..1 /\ InHand(h)' \in 0..1
          /\ Final(h)' \in 0..1
      BY Ones
    <3>5. announced'[h] + InReport(h)' + InQueue(h)' + InLoop(h)' + InHand(h)' - Final(h)'
            <= announced[h] + InReport(h) + InQueue(h) + InLoop(h) + InHand(h) - Final(h)
      BY <3>1, <3>2, <3>3, <3>4
    <3> QED
      BY <2>1, <3>1, <3>3, <3>5, Rebooked
  <2> QED
    BY <2>1 DEF AnnouncementsPaid
<1>12. ASSUME TakePending
      PROVE  AnnouncementsPaid'
  <2>1. ASSUME NEW h \in Graphs
        PROVE  announced'[h] + OnTheirWay(h)' <= Final(h)' + Counted(h)'
    <3>1. InReport(h)' = InReport(h) /\ Counted(h)' = Counted(h)
      BY <1>12 DEF InReport, Reported, Counted, TakePending, dbVars, postVars, histVars
    <3>2. announced'[h] + InQueue(h)' + InLoop(h)' + InHand(h)' - Final(h)'
            <= announced[h] + InQueue(h) + InLoop(h) + InHand(h) - Final(h)
      BY <2>1, <1>12, IngestAssumption
      DEF IngestInv, IngestTypeOK, ScanTrue, InQueue, InLoop, InHand, Working, Final, One,
          TakePending, dbVars, postVars, histVars
    <3>3. announced'[h] \in Nat /\ announced[h] \in Nat /\ InReport(h) \in Nat
      BY <2>1, Numbers, TypeStep DEF IngestTypeOK
    <3>4. /\ InQueue(h) \in 0..1 /\ InLoop(h) \in 0..1 /\ InHand(h) \in 0..1
          /\ Final(h) \in 0..1
          /\ InQueue(h)' \in 0..1 /\ InLoop(h)' \in 0..1 /\ InHand(h)' \in 0..1
          /\ Final(h)' \in 0..1
      BY Ones
    <3>5. announced'[h] + InReport(h)' + InQueue(h)' + InLoop(h)' + InHand(h)' - Final(h)'
            <= announced[h] + InReport(h) + InQueue(h) + InLoop(h) + InHand(h) - Final(h)
      BY <3>1, <3>2, <3>3, <3>4
    <3> QED
      BY <2>1, <3>1, <3>3, <3>5, Rebooked
  <2> QED
    BY <2>1 DEF AnnouncementsPaid
<1>13. ASSUME ScanDone
      PROVE  AnnouncementsPaid'
  <2>1. ASSUME NEW h \in Graphs
        PROVE  announced'[h] + OnTheirWay(h)' <= Final(h)' + Counted(h)'
    <3>1. InReport(h)' = InReport(h) /\ Counted(h)' = Counted(h)
      BY <1>13 DEF InReport, Reported, Counted, ScanDone, Step, dbVars, postVars, histVars
    <3>2. announced'[h] + InQueue(h)' + InLoop(h)' + InHand(h)' - Final(h)'
            <= announced[h] + InQueue(h) + InLoop(h) + InHand(h) - Final(h)
      BY <2>1, <1>13, IngestAssumption
      DEF IngestInv, IngestTypeOK, ScanTrue, InQueue, InLoop, InHand, Working, Final, One,
          ScanDone, Step, dbVars, postVars, histVars
    <3>3. announced'[h] \in Nat /\ announced[h] \in Nat /\ InReport(h) \in Nat
      BY <2>1, Numbers, TypeStep DEF IngestTypeOK
    <3>4. /\ InQueue(h) \in 0..1 /\ InLoop(h) \in 0..1 /\ InHand(h) \in 0..1
          /\ Final(h) \in 0..1
          /\ InQueue(h)' \in 0..1 /\ InLoop(h)' \in 0..1 /\ InHand(h)' \in 0..1
          /\ Final(h)' \in 0..1
      BY Ones
    <3>5. announced'[h] + InReport(h)' + InQueue(h)' + InLoop(h)' + InHand(h)' - Final(h)'
            <= announced[h] + InReport(h) + InQueue(h) + InLoop(h) + InHand(h) - Final(h)
      BY <3>1, <3>2, <3>3, <3>4
    <3> QED
      BY <2>1, <3>1, <3>3, <3>5, Rebooked
  <2> QED
    BY <2>1 DEF AnnouncementsPaid
<1>14. ASSUME ScanRaises
      PROVE  AnnouncementsPaid'
  <2>1. ASSUME NEW h \in Graphs
        PROVE  announced'[h] + OnTheirWay(h)' <= Final(h)' + Counted(h)'
    <3>1. InReport(h)' = InReport(h) /\ Counted(h)' = Counted(h)
      BY <1>14 DEF InReport, Reported, Counted, ScanRaises, Mishap, ForgetScan, Dropped, dbVars, postVars
    <3>2. announced'[h] + InQueue(h)' + InLoop(h)' + InHand(h)' - Final(h)'
            <= announced[h] + InQueue(h) + InLoop(h) + InHand(h) - Final(h)
      BY <2>1, <1>14, IngestAssumption
      DEF IngestInv, IngestTypeOK, ScanTrue, InQueue, InLoop, InHand, Working, Final, One,
          ScanRaises, Mishap, ForgetScan, Dropped, dbVars, postVars
    <3>3. announced'[h] \in Nat /\ announced[h] \in Nat /\ InReport(h) \in Nat
      BY <2>1, Numbers, TypeStep DEF IngestTypeOK
    <3>4. /\ InQueue(h) \in 0..1 /\ InLoop(h) \in 0..1 /\ InHand(h) \in 0..1
          /\ Final(h) \in 0..1
          /\ InQueue(h)' \in 0..1 /\ InLoop(h)' \in 0..1 /\ InHand(h)' \in 0..1
          /\ Final(h)' \in 0..1
      BY Ones
    <3>5. announced'[h] + InReport(h)' + InQueue(h)' + InLoop(h)' + InHand(h)' - Final(h)'
            <= announced[h] + InReport(h) + InQueue(h) + InLoop(h) + InHand(h) - Final(h)
      BY <3>1, <3>2, <3>3, <3>4
    <3> QED
      BY <2>1, <3>1, <3>3, <3>5, Rebooked
  <2> QED
    BY <2>1 DEF AnnouncementsPaid
<1>15. ASSUME Crash
      PROVE  AnnouncementsPaid'
  <2>1. ASSUME NEW h \in Graphs
        PROVE  announced'[h] + OnTheirWay(h)' <= Final(h)' + Counted(h)'
    <3>1. Reported(h)' = {} /\ Counted(h)' = Counted(h)
      BY <1>15 DEF Reported, Counted, Crash
    <3>2. InReport(h)' = 0
      BY <3>1, FS_EmptySet DEF InReport
    <3>3. /\ announced' = announced /\ Final(h)' = Final(h)
          /\ InQueue(h)' = 0 /\ InLoop(h)' = 0 /\ InHand(h)' = 0
      BY <2>1, <1>15 DEF Crash, ForgetScan, Final, InQueue, InLoop, InHand, Working, One
    <3>4. /\ announced[h] \in Nat /\ InReport(h) \in Nat
          /\ InQueue(h) \in 0..1 /\ InLoop(h) \in 0..1 /\ InHand(h) \in 0..1
          /\ Final(h) \in 0..1
      BY <2>1, Numbers, Ones
    <3>5. announced'[h] + InReport(h)' + InQueue(h)' + InLoop(h)' + InHand(h)' - Final(h)'
            <= announced[h] + InReport(h) + InQueue(h) + InLoop(h) + InHand(h) - Final(h)
      BY <3>2, <3>3, <3>4
    <3> QED
      BY <2>1, <3>1, <3>2, <3>5, Rebooked
  <2> QED
    BY <2>1 DEF AnnouncementsPaid
<1> QED
  BY <1>1, <1>2, <1>3, <1>4, <1>5, <1>6, <1>7, <1>8, <1>9, <1>10, <1>11, <1>12, <1>13,
      <1>14, <1>15
  DEF IngestNext, PostStep, FinalizerStep

LEMMA Start == IngestInit => IngestInv
<1> SUFFICES ASSUME IngestInit
             PROVE  IngestInv
  OBVIOUS
<1>1. IngestTypeOK
  <2>1. mishaps \in 0..MaxMishaps
    BY IngestAssumption DEF IngestInit
  <2> QED
    BY <2>1 DEF IngestInit, IngestTypeOK
<1>2. StoredFinite /\ SawTrue /\ ScanTrue
  BY FS_EmptySet DEF IngestInit, StoredFinite, SawTrue, ScanTrue
<1>3. FreshTrue
  <2>1. {b \in Batches : fresh[b] > 0} = {}
    BY DEF IngestInit
  <2> QED
    BY <2>1, FS_EmptySet DEF IngestInit, FreshTrue
<1>4. ASSUME NEW g \in Graphs
      PROVE  /\ Cardinality(overdue \cap RunsIn(g)) = 0
             /\ Cardinality(noticed \cap RunsIn(g)) = 0
             /\ Cardinality(Reported(g)) = 0
  <2>1. overdue \cap RunsIn(g) = {} /\ noticed \cap RunsIn(g) = {} /\ Reported(g) = {}
    BY DEF IngestInit, Reported
  <2> QED
    BY <2>1, FS_EmptySet
<1>5. LateTallySound
  BY <1>4 DEF IngestInit, LateTallySound
<1>6. AnnouncementsPaid
  BY <1>4 DEF IngestInit, AnnouncementsPaid, OnTheirWay, Counted, InReport, InQueue, InLoop,
         InHand, Working, Final, One
<1> QED
  BY <1>1, <1>2, <1>3, <1>5, <1>6 DEF IngestInv

LEMMA IngestStep == IngestInv /\ IngestNext => IngestInv'
<1> SUFFICES ASSUME IngestInv, IngestNext
             PROVE  IngestInv'
  OBVIOUS
<1> QED
  BY TypeStep, StoredStep, SawStep, FreshStep, ScanStep, TallyStep, PaidStep DEF IngestInv

(* The worker leaves the tables of the ingest service alone.                    *)
LEMMA IngestStill == IngestInv /\ UNCHANGED ingestVars => IngestInv'
  BY DEF IngestInv, IngestTypeOK, StoredFinite, SawTrue, FreshTrue, ScanTrue,
         LateTallySound, AnnouncementsPaid, OnTheirWay, Counted, Reported, One,
         InReport, InQueue, InLoop, InHand, Working, Final, ingestVars, dbVars, postVars, finVars, histVars

--------------------------------------------------------------------------------
(* The worker downstream: what it asks for never exceeds what it was told.      *)

Heeded == \A g \in Graphs : /\ answered[g] <= asked[g] /\ asked[g] <= heard[g]
                            /\ heard[g] <= announced[g]

PipelineInv == TypeOK /\ IngestInv /\ Heeded

LEMMA AnnouncedStep ==
  ASSUME IngestInv, IngestNext, NEW g \in Graphs
  PROVE  announced'[g] \in Nat /\ announced[g] \in Nat /\ announced[g] <= announced'[g]
<1>1. announced \in [Graphs -> Nat] /\ announced' \in [Graphs -> Nat]
  BY TypeStep DEF IngestInv, IngestTypeOK
<1>2. CASE Announce
  BY <1>1, <1>2 DEF Announce
<1>3. CASE ~Announce
  <2>1. announced' = announced
    BY <1>3 DEF IngestNext, PostStep, FinalizerStep, Receive, InsertSpans, LateSelect, LockGraph,
          CommitBatch, Notify, PostRaises, Scan, StartRemap, StoreRemap, RemapRaises,
          CountRuns, FinalizeUpdate, FinalizeNone, TakePending, ScanDone, ScanRaises, Crash
  <2> QED
    BY <1>1, <2>1
<1> QED
  BY <1>2, <1>3

LEMMA PipelineStart == Init => PipelineInv
<1> SUFFICES ASSUME Init
             PROVE  PipelineInv
  OBVIOUS
<1>1. IngestInv
  BY Start DEF Init
<1>2. TypeOK
  BY <1>1 DEF Init, TypeOK, IngestInv
<1>3. Heeded
  BY DEF Init, IngestInit, Heeded
<1> QED
  BY <1>1, <1>2, <1>3 DEF PipelineInv

LEMMA PipelineStep == PipelineInv /\ [Next]_vars => PipelineInv'
<1> SUFFICES ASSUME PipelineInv, [Next]_vars
             PROVE  PipelineInv'
  OBVIOUS
<1> USE DEF PipelineInv
<1>1. CASE IngestNext /\ UNCHANGED tierVars
  <2>1. IngestInv'
    BY <1>1, IngestStep
  <2>2. TypeOK'
    BY <1>1, <2>1 DEF TypeOK, IngestInv, tierVars
  <2>3. ASSUME NEW g \in Graphs
        PROVE  /\ answered'[g] <= asked'[g] /\ asked'[g] <= heard'[g]
               /\ heard'[g] <= announced'[g]
    <3>1. announced'[g] \in Nat /\ announced[g] \in Nat /\ announced[g] <= announced'[g]
      BY <1>1, <2>3, AnnouncedStep
    <3> QED
      BY <1>1, <2>3, <3>1 DEF Heeded, TypeOK, tierVars
  <2> QED
    BY <2>1, <2>2, <2>3 DEF Heeded
<1>2. ASSUME NEW g \in Graphs, WorkerStep(g)
      PROVE  PipelineInv'
  <2> USE DEF WorkerStep
  <2>1. UNCHANGED ingestVars
    BY <1>2 DEF Tier1Promotes, Tier1Declines, Tier2Claimed, Tier2Skipped
  <2>2. IngestInv'
    BY <2>1, IngestStill
  <2>3. analysed' \in SUBSET Runs
    BY <1>2 DEF Tier1Promotes, Tier1Declines, Tier2Claimed, Tier2Skipped, Analysis,
                TypeOK, IngestTypeOK
  <2>4. /\ heard' \in [Graphs -> Nat] /\ asked' \in [Graphs -> Nat]
        /\ answered' \in [Graphs -> Nat]
        /\ job' \in SUBSET Graphs /\ declined' \in SUBSET Graphs
    BY <1>2 DEF Tier1Promotes, Tier1Declines, Tier2Claimed, Tier2Skipped, TypeOK
  <2>5. TypeOK'
    BY <2>2, <2>3, <2>4 DEF TypeOK, IngestInv
  <2>6. announced' = announced /\ announced \in [Graphs -> Nat]
    BY <2>1 DEF ingestVars, TypeOK, IngestTypeOK
  <2>7. Heeded'
    BY <1>2, <2>6
    DEF Tier1Promotes, Tier1Declines, Tier2Claimed, Tier2Skipped, TypeOK, Heeded
  <2> QED
    BY <2>2, <2>5, <2>7
<1>3. CASE UNCHANGED vars
  <2>1. IngestInv'
    BY <1>3, IngestStill DEF vars
  <2> QED
    BY <1>3, <2>1
    DEF TypeOK, IngestInv, Heeded, vars, ingestVars, tierVars
<1> QED
  BY <1>1, <1>2, <1>3 DEF Next

--------------------------------------------------------------------------------
(* The inductive invariant, for every set of graphs and batches, however often  *)
(* a batch is posted and however often the process dies.                        *)
THEOREM Invariance == Spec => []PipelineInv
  BY PipelineStart, PipelineStep, PTL DEF Spec

(* Every variable of the ingest service and of the worker keeps its type.       *)
THEOREM TypeCorrect == Spec => []TypeOK
<1>1. PipelineInv => TypeOK
  BY DEF PipelineInv
<1> QED
  BY Invariance, <1>1, PTL

(* late_spans_count never exceeds the runs POSTs added to the finalized graph:  *)
(* a redelivered batch, two batches with the same runs or a re-map in between   *)
(* never count a run twice (repository.py:119-121).                             *)
THEOREM LateOnce == Spec => []LateTallySound
<1>1. PipelineInv => LateTallySound
  BY DEF PipelineInv, IngestInv
<1> QED
  BY Invariance, <1>1, PTL

(* A graph is announced once, and again only for a late run of its own that was *)
(* counted, one announcement for each at the most, and never without the flag   *)
(* (finalizer.py:15-23).                                                        *)
THEOREM AnnouncedOnceEach == Spec => []AnnouncedOnce
<1>1. PipelineInv => AnnouncedOnce
  <2> SUFFICES ASSUME PipelineInv, NEW g \in Graphs
               PROVE  announced[g] <= 1 + Counted(g)
    BY DEF AnnouncedOnce, Counted
  <2>1. /\ InQueue(g) \in 0..1 /\ InLoop(g) \in 0..1 /\ InHand(g) \in 0..1
        /\ Final(g) \in 0..1
    BY Ones
  <2>2. announced[g] \in Nat /\ Counted(g) \in Nat /\ InReport(g) \in Nat
    BY Numbers DEF PipelineInv
  <2>3. announced[g] + OnTheirWay(g) <= Final(g) + Counted(g)
    BY DEF PipelineInv, IngestInv, AnnouncementsPaid
  <2> QED
    BY <2>1, <2>2, <2>3 DEF OnTheirWay
<1> QED
  BY Invariance, <1>1, PTL

(* Tier 2 is asked for a graph at most once for the first announcement and once *)
(* for each counted late run.                                                   *)
AskedPerReason == \A g \in Graphs : asked[g] <= 1 + Counted(g)
THEOREM AskedForReason == Spec => []AskedPerReason
<1>1. PipelineInv /\ AnnouncedOnce => AskedPerReason
  <2> SUFFICES ASSUME PipelineInv, AnnouncedOnce, NEW g \in Graphs
               PROVE  asked[g] <= 1 + Counted(g)
    BY DEF AskedPerReason
  <2>1. /\ announced[g] <= 1 + Counted(g)
        /\ asked[g] <= heard[g] /\ heard[g] <= announced[g]
    BY DEF AnnouncedOnce, Counted, PipelineInv, Heeded
  <2>2. asked[g] \in Nat /\ heard[g] \in Nat /\ announced[g] \in Nat /\ Counted(g) \in Nat
    BY Numbers DEF PipelineInv, TypeOK, IngestTypeOK
  <2> QED
    BY <2>1, <2>2
<1> QED
  BY Invariance, AnnouncedOnceEach, <1>1, PTL

--------------------------------------------------------------------------------
(* What tier 2 finds stored when it loads the graph.                            *)

(* Tier 1 and tier 2 hear only of finalized graphs, and a re-map holds runs of  *)
(* the graph it works on.                                                       *)
HeardIsFinal ==
  /\ \A g \in Graphs : announced[g] > 0 => status[g] = "finalized"
  /\ \A g \in job : status[g] = "finalized"
  /\ fat = "announce" => status[cur] = "finalized"
  /\ fat = "store" => mapped \subseteq RunsIn(cur)

LEMMA GraphsApart ==
  ASSUME NEW g \in Graphs, NEW h \in Graphs, g # h
  PROVE  RunsIn(g) \cap RunsIn(h) = {}
BY RunsApart DEF RunsIn

LEMMA HeardStep ==
  ASSUME PipelineInv, HeardIsFinal, [Next]_vars
  PROVE  HeardIsFinal'
<1> USE DEF PipelineInv, TypeOK, IngestInv, IngestTypeOK, HeardIsFinal
<1>1. ASSUME NEW b \in Batches, UNCHANGED tierVars, Receive(b) \/ PostRaises(b) \/ PostStep(b)
      PROVE  HeardIsFinal'
  <2>1. UNCHANGED <<fat, cur, mapped, announced, job>>
    BY <1>1
    DEF PostStep, Receive, InsertSpans, LateSelect, LockGraph, CommitBatch, Notify,
        PostRaises, dbVars, finVars, tierVars
  <2>2. \A g \in Graphs : status[g] = "finalized" => status'[g] = "finalized"
    <3>1. CASE CommitBatch(b)
      BY <3>1 DEF CommitBatch
    <3>2. CASE ~CommitBatch(b)
      BY <1>1, <3>2
      DEF PostStep, Receive, InsertSpans, LateSelect, LockGraph, Notify, PostRaises, dbVars
    <3> QED
      BY <3>1, <3>2
  <2>3. fat = "announce" => cur \in Graphs
    BY DEF ScanTrue
  <2> QED
    BY <2>1, <2>2, <2>3
<1>2. ASSUME NEW due \in SUBSET Graphs, UNCHANGED tierVars, Scan(due)
      PROVE  HeardIsFinal'
  BY <1>2 DEF Scan, Step, dbVars, tierVars
<1>3. ASSUME NEW g \in Graphs, UNCHANGED tierVars, StartRemap(g)
      PROVE  HeardIsFinal'
  BY <1>3 DEF StartRemap, Step, dbVars, tierVars
<1>4. CASE UNCHANGED tierVars /\ FinalizeUpdate
  <2>1. cur \in Graphs
    BY <1>4 DEF FinalizeUpdate, Step, ScanTrue
  <2> QED
    BY <1>4, <2>1 DEF FinalizeUpdate, Step, tierVars
<1>5. CASE UNCHANGED tierVars /\ Announce
  BY <1>5 DEF Announce, Step, dbVars, tierVars
<1>6. CASE UNCHANGED tierVars /\ (StoreRemap \/ RemapRaises \/ CountRuns \/ FinalizeNone)
  BY <1>6 DEF StoreRemap, RemapRaises, CountRuns, FinalizeNone, Step, dbVars, tierVars
<1>7. CASE UNCHANGED tierVars /\ (TakePending \/ ScanDone \/ ScanRaises \/ Crash)
  BY <1>7
  DEF TakePending, ScanDone, ScanRaises, Crash, ForgetScan, Step, dbVars, tierVars
<1>8. ASSUME NEW g \in Graphs, WorkerStep(g)
      PROVE  HeardIsFinal'
  <2>1. UNCHANGED ingestVars
    BY <1>8 DEF WorkerStep, Tier1Promotes, Tier1Declines, Tier2Claimed, Tier2Skipped
  <2>2. job' = job \/ (job' = job \cup {g} /\ answered[g] < asked[g])
    BY <1>8 DEF WorkerStep, Tier1Promotes, Tier1Declines, Tier2Claimed, Tier2Skipped
  <2>3. answered[g] < asked[g] => announced[g] > 0
    BY DEF Heeded
  <2>4. answered[g] < asked[g] => status[g] = "finalized"
    BY <2>3
  <2> QED
    BY <2>1, <2>2, <2>4 DEF ingestVars, dbVars, finVars
<1>9. CASE UNCHANGED vars
  BY <1>9 DEF vars, ingestVars, tierVars, dbVars, finVars
<1> QED
  BY <1>1, <1>2, <1>3, <1>4, <1>5, <1>6, <1>7, <1>8, <1>9
  DEF Next, IngestNext, FinalizerStep

LEMMA LeftOutStep ==
  ASSUME PipelineInv, HeardIsFinal, NoRunLeftOut, [Next]_vars
  PROVE  NoRunLeftOut'
<1> USE DEF PipelineInv, TypeOK, IngestInv, IngestTypeOK
<1>1. ASSUME NEW b \in Batches, UNCHANGED tierVars, CommitBatch(b)
      PROVE  NoRunLeftOut'
  <2> SUFFICES ASSUME NEW g \in job
               PROVE  (runs \cup RunsOf[b]) \cap RunsIn(g)
                          \subseteq analysed \cup overdue' \cup remapped
    BY <1>1 DEF NoRunLeftOut, CommitBatch, tierVars
  <2>1. overdue \subseteq overdue' /\ HomeOf[b] \in Graphs /\ g \in Graphs
    BY <1>1, IngestAssumption DEF CommitBatch
  <2>2. CASE HomeOf[b] = g
    <3>1. overdue' = overdue \cup (RunsOf[b] \ runs)
      BY <1>1, <2>2 DEF CommitBatch, HeardIsFinal
    <3> QED
      BY <3>1 DEF NoRunLeftOut
  <2>3. CASE HomeOf[b] # g
    <3>1. RunsOf[b] \subseteq RunsIn(HomeOf[b])
      BY DEF RunsIn
    <3>2. RunsIn(HomeOf[b]) \cap RunsIn(g) = {}
      BY <2>1, <2>3, GraphsApart
    <3> QED
      BY <2>1, <3>1, <3>2 DEF NoRunLeftOut
  <2> QED
    BY <2>2, <2>3
<1>2. CASE UNCHANGED tierVars /\ StoreRemap
  <2> SUFFICES ASSUME NEW g \in job
               PROVE  (runs \cup mapped) \cap RunsIn(g)
                          \subseteq analysed \cup overdue \cup remapped'
    BY <1>2 DEF NoRunLeftOut, StoreRemap, tierVars
  <2>1. remapped \subseteq remapped' /\ cur \in Graphs /\ g \in Graphs
    BY <1>2 DEF StoreRemap, Step, ScanTrue
  <2>2. CASE cur = g
    <3>1. remapped' = remapped \cup (mapped \ runs)
      BY <1>2, <2>2 DEF StoreRemap, HeardIsFinal
    <3> QED
      BY <3>1 DEF NoRunLeftOut
  <2>3. CASE cur # g
    <3>1. mapped \subseteq RunsIn(cur)
      BY <1>2 DEF StoreRemap, Step, HeardIsFinal
    <3>2. RunsIn(cur) \cap RunsIn(g) = {}
      BY <2>1, <2>3, GraphsApart
    <3> QED
      BY <2>1, <3>1, <3>2 DEF NoRunLeftOut
  <2> QED
    BY <2>2, <2>3
<1>3. ASSUME NEW b \in Batches, UNCHANGED tierVars,
             Receive(b) \/ PostRaises(b) \/ InsertSpans(b) \/ LateSelect(b) \/ LockGraph(b)
                 \/ Notify(b)
      PROVE  NoRunLeftOut'
  BY <1>3
  DEF NoRunLeftOut, Receive, PostRaises, InsertSpans, LateSelect, LockGraph, Notify,
      dbVars, histVars, tierVars
<1>4. ASSUME UNCHANGED tierVars,
             \/ \E due \in SUBSET Graphs : Scan(due)
             \/ \E g \in Graphs : StartRemap(g)
             \/ RemapRaises \/ CountRuns \/ FinalizeUpdate \/ FinalizeNone \/ Announce
             \/ TakePending \/ ScanDone \/ ScanRaises \/ Crash
      PROVE  NoRunLeftOut'
  BY <1>4
  DEF NoRunLeftOut, Scan, StartRemap, RemapRaises, CountRuns, FinalizeUpdate,
      FinalizeNone, Announce, TakePending, ScanDone, ScanRaises, Crash, dbVars, histVars,
      tierVars
<1>5. ASSUME NEW g \in Graphs, WorkerStep(g)
      PROVE  NoRunLeftOut'
  <2>1. UNCHANGED ingestVars
    BY <1>5 DEF WorkerStep, Tier1Promotes, Tier1Declines, Tier2Claimed, Tier2Skipped
  <2>2. \/ job' = job /\ analysed' = analysed
        \/ job' = job \cup {g} /\ analysed' = analysed \cup (runs \cap RunsIn(g))
    BY <1>5
    DEF WorkerStep, Tier1Promotes, Tier1Declines, Tier2Claimed, Tier2Skipped, Analysis
  <2> QED
    BY <2>1, <2>2 DEF NoRunLeftOut, ingestVars, dbVars, histVars
<1>6. CASE UNCHANGED vars
  BY <1>6 DEF NoRunLeftOut, vars, ingestVars, tierVars, dbVars, histVars
<1> QED
  BY <1>1, <1>2, <1>3, <1>4, <1>5, <1>6 DEF Next, IngestNext, PostStep, FinalizerStep

LEMMA HeardStart == Init => HeardIsFinal
BY DEF Init, IngestInit, HeardIsFinal

(* No graph is announced before the commit that finalized it: tier 1 never      *)
(* reads a graph that is still collecting spans, unless a POST comes late       *)
(* (finalizer.py:108-127).                                                      *)
AnnouncedIsFinal == \A g \in Graphs : announced[g] > 0 => status[g] = "finalized"
THEOREM FinalFirst == Spec => []AnnouncedIsFinal
<1>1. HeardIsFinal => AnnouncedIsFinal
  BY DEF HeardIsFinal, AnnouncedIsFinal
<1>2. PipelineInv /\ HeardIsFinal /\ [Next]_vars => HeardIsFinal'
  BY HeardStep
<1> QED
  BY Invariance, HeardStart, <1>1, <1>2, PTL DEF Spec

(* Once tier 2 has analysed a graph, every stored run of it is in an analysis   *)
(* or came after the graph was finalized, by a POST or by the re-map of a       *)
(* re-announced graph (finalizer.py:96-162, tier2.py:981-983).                  *)
THEOREM NothingLeftOut == Spec => []NoRunLeftOut
<1>1. Init => NoRunLeftOut
  BY DEF Init, NoRunLeftOut
<1>2. PipelineInv /\ HeardIsFinal /\ NoRunLeftOut /\ [Next]_vars
        => HeardIsFinal' /\ NoRunLeftOut'
  BY HeardStep, LeftOutStep
<1> QED
  BY Invariance, HeardStart, <1>1, <1>2, PTL DEF Spec
================================================================================
