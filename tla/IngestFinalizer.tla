---------------------------- MODULE IngestFinalizer ----------------------------
(***************************************************************************)
(* The ingest service: POST /v1/traces (ingest/main.py), upsert_batch and  *)
(* the finalize updates (ingest/repository.py), and the finalizer loop     *)
(* with its re-map (ingest/finalizer.py, ingest/pipeline.py).              *)
(*                                                                         *)
(* One process: request handlers and the finalizer interleave at every     *)
(* await.  Postgres runs READ COMMITTED: upsert_batch reads the status     *)
(* without a lock and locks the graph row only with its upsert; the        *)
(* finalize UPDATE waits for that lock but evaluates its run count on the  *)
(* snapshot it started with.                                               *)
(*                                                                         *)
(* Clocks are left out: a graph may be due at any scan (its root ended, or *)
(* it is quiet, or its activity marker is gone after a restart), and every *)
(* graph is due in the end.  A batch is the set of runs it maps to.        *)
(***************************************************************************)
EXTENDS Naturals, FiniteSets

CONSTANTS Graphs,   \* execution graphs
          Runs,     \* agent runs
          Batches,  \* the requests a client posts, possibly more than once
          HomeOf,   \* graph of a batch
          RunsOf,   \* runs its spans map to
          ReanalyzeLateSpans,  \* settings.reanalyze_late_spans
          MaxSends,   \* bound: times each batch is posted
          MaxMishaps, \* bound: crashes and raising calls
          None        \* no graph, no lock holder

ASSUME IngestAssumption ==
    /\ HomeOf \in [Batches -> Graphs]
    /\ RunsOf \in [Batches -> SUBSET Runs]
    /\ \A b \in Batches : IsFiniteSet(RunsOf[b])
    /\ ReanalyzeLateSpans \in BOOLEAN
    /\ MaxSends \in [Batches -> Nat]
    /\ MaxMishaps \in Nat
    /\ None \notin Graphs \cup Batches

\* A run belongs to one graph.  A re-map that moves a run to another graph is the
\* subject of SpanStore.
ASSUME RunsApart == \A b, c \in Batches :
    HomeOf[b] # HomeOf[c] => RunsOf[b] \cap RunsOf[c] = {}

RunsIn(g) == UNION {RunsOf[b] : b \in {c \in Batches : HomeOf[c] = g}}

VARIABLES spans,     \* runs whose spans are in ClickHouse
          runs,      \* committed agent_runs
          status,    \* execution_graphs.status, "none" when there is no row
          runCount,  \* execution_graphs.run_count
          lateCount, \* execution_graphs.late_spans_count
          rowLock,   \* handler holding the graph row
          hat,       \* where the handler of each batch stands
          sawFinal,  \* what its late-detection SELECT answered
          fresh,     \* late new runs its upsert reported
          sends,     \* times the batch was posted
          pending,   \* Finalizer._pending_reanalysis
          fat,       \* where the finalizer stands
          again,     \* TRUE in _reanalyze_pending
          todo,      \* graphs left in the current loop
          cur,       \* the graph in hand
          mapped,    \* runs of the re-map's batch
          snap,      \* run count of the finalize statement's snapshot
          announced, \* entries of ad.graphs.completed, per graph
          mishaps,   \* crashes and raising calls so far
          noticed,   \* history: runs counted in lateCount
          overdue,   \* history: runs a POST added to a finalized graph
          remapped,  \* history: runs a re-map added to a finalized graph
          covered,   \* history: runs stored when their graph was announced
          lost       \* history: graphs whose announcement a failure dropped

dbVars   == <<spans, runs, status, runCount, lateCount, rowLock>>
postVars == <<hat, sawFinal, fresh, sends>>
finVars  == <<fat, again, todo, cur, mapped, snap>>
histVars == <<noticed, overdue, remapped, covered, lost>>
ingestVars == <<dbVars, postVars, finVars, pending, announced, mishaps, histVars>>

IngestTypeOK ==
    /\ spans \in SUBSET Runs
    /\ runs \in SUBSET Runs
    /\ status \in [Graphs -> {"none", "active", "finalized"}]
    /\ runCount \in [Graphs -> Nat]
    /\ lateCount \in [Graphs -> Nat]
    /\ rowLock \in [Graphs -> Batches \cup {None}]
    /\ hat \in [Batches -> {"idle", "insert", "select", "lock", "commit", "notify"}]
    /\ sawFinal \in [Batches -> BOOLEAN]
    /\ fresh \in [Batches -> Nat]
    /\ sends \in [Batches -> Nat]
    /\ pending \in SUBSET Graphs
    /\ fat \in {"sleep", "next", "map", "store", "count", "update", "announce"}
    /\ again \in BOOLEAN
    /\ todo \in SUBSET Graphs
    /\ cur \in Graphs \cup {None}
    /\ mapped \in SUBSET Runs
    /\ snap \in Nat
    /\ announced \in [Graphs -> Nat]
    /\ mishaps \in 0..MaxMishaps
    /\ noticed \in SUBSET Runs
    /\ overdue \in SUBSET Runs
    /\ remapped \in SUBSET Runs
    /\ covered \in SUBSET Runs
    /\ lost \in SUBSET Graphs

IngestInit ==
    /\ spans = {}
    /\ runs = {}
    /\ status = [g \in Graphs |-> "none"]
    /\ runCount = [g \in Graphs |-> 0]
    /\ lateCount = [g \in Graphs |-> 0]
    /\ rowLock = [g \in Graphs |-> None]
    /\ hat = [b \in Batches |-> "idle"]
    /\ sawFinal = [b \in Batches |-> FALSE]
    /\ fresh = [b \in Batches |-> 0]
    /\ sends = [b \in Batches |-> 0]
    /\ pending = {}
    /\ fat = "sleep"
    /\ again = FALSE
    /\ todo = {}
    /\ cur = None
    /\ mapped = {}
    /\ snap = 0
    /\ announced = [g \in Graphs |-> 0]
    /\ mishaps = 0
    /\ noticed = {}
    /\ overdue = {}
    /\ remapped = {}
    /\ covered = {}
    /\ lost = {}

--------------------------------------------------------------------------------
(* POST /v1/traces.                                                        *)

At(b, here, there) == hat[b] = here /\ hat' = [hat EXCEPT ![b] = there]
Mishap == mishaps < MaxMishaps /\ mishaps' = mishaps + 1

\* The client posts the batch, or posts it again after an error or a lost
\* answer.
Receive(b) ==
    /\ At(b, "idle", "insert")
    /\ sends[b] < MaxSends[b]
    /\ sends' = [sends EXCEPT ![b] = @ + 1]
    /\ UNCHANGED <<dbVars, sawFinal, fresh, finVars, pending, announced, mishaps,
                   histVars>>

\* span_sink.insert_spans: ClickHouse has the raw spans before Postgres.
InsertSpans(b) ==
    /\ At(b, "insert", "select")
    /\ spans' = spans \cup RunsOf[b]
    /\ UNCHANGED <<runs, status, runCount, lateCount, rowLock, sawFinal, fresh,
                   sends, finVars, pending, announced, mishaps, histVars>>

\* SELECT graph_id .. WHERE status = 'finalized', first in the transaction.
LateSelect(b) ==
    /\ At(b, "select", "lock")
    /\ sawFinal' = [sawFinal EXCEPT ![b] = status[HomeOf[b]] = "finalized"]
    /\ UNCHANGED <<dbVars, fresh, sends, finVars, pending, announced, mishaps,
                   histVars>>

\* INSERT INTO execution_graphs .. ON CONFLICT DO UPDATE takes the row lock.
LockGraph(b) ==
    /\ At(b, "lock", "commit")
    /\ rowLock[HomeOf[b]] = None
    /\ rowLock' = [rowLock EXCEPT ![HomeOf[b]] = b]
    /\ UNCHANGED <<spans, runs, status, runCount, lateCount, sawFinal, fresh, sends,
                   finVars, pending, announced, mishaps, histVars>>

\* mutant: every run of the batch counts as new, also a redelivered one
NewRunsAll(b) == RunsOf[b]
\* INSERT INTO agent_runs .. ON CONFLICT DO NOTHING: rowcount 1 means new.
NewRuns(b) == RunsOf[b] \ runs

\* Runs, recomputed run_count, late_spans_count; COMMIT.
CommitBatch(b) ==
    LET g == HomeOf[b]
        late == IF sawFinal[b] THEN NewRuns(b) ELSE {}
    IN  /\ At(b, "commit", "notify")
        /\ runs' = runs \cup RunsOf[b]
        /\ status' = [status EXCEPT ![g] = IF @ = "none" THEN "active" ELSE @]
        /\ runCount' = [runCount EXCEPT ![g] = Cardinality(runs' \cap RunsIn(g))]
        /\ lateCount' = [lateCount EXCEPT ![g] = @ + Cardinality(late)]
        /\ rowLock' = [rowLock EXCEPT ![g] = None]
        /\ fresh' = [fresh EXCEPT ![b] = Cardinality(late)]
        /\ noticed' = noticed \cup late
        /\ overdue' = IF status[g] = "finalized"
                      THEN overdue \cup (RunsOf[b] \ runs) ELSE overdue
        /\ UNCHANGED <<spans, sawFinal, sends, finVars, pending, announced,
                       mishaps, remapped, covered, lost>>

\* notify_late_spans, touch, and the answer to the client.
Notify(b) ==
    /\ At(b, "notify", "idle")
    /\ pending' = IF ReanalyzeLateSpans /\ fresh[b] > 0
                  THEN pending \cup {HomeOf[b]} ELSE pending
    /\ sawFinal' = [sawFinal EXCEPT ![b] = FALSE]
    /\ fresh' = [fresh EXCEPT ![b] = 0]
    /\ UNCHANGED <<dbVars, sends, finVars, announced, mishaps, histVars>>

\* ClickHouse or Postgres raises: the transaction rolls back, the client sees
\* a 500.
PostRaises(b) ==
    /\ Mishap
    /\ \/ At(b, "insert", "idle") \/ At(b, "select", "idle")
       \/ At(b, "lock", "idle")   \/ At(b, "commit", "idle")
    /\ rowLock' = [g \in Graphs |-> IF rowLock[g] = b THEN None ELSE rowLock[g]]
    /\ sawFinal' = [sawFinal EXCEPT ![b] = FALSE]
    /\ UNCHANGED <<spans, runs, status, runCount, lateCount, fresh, sends,
                   finVars, pending, announced, histVars>>

--------------------------------------------------------------------------------
(* The finalizer: scan_once, then _reanalyze_pending.                      *)

Step(here, there) == fat = here /\ fat' = there

Active == {g \in Graphs : status[g] = "active"}

\* list_active_graph_activity, and the graphs among them that are due.
Scan(due) ==
    /\ Step("sleep", "next")
    /\ due \subseteq Active
    /\ todo' = due
    /\ again' = FALSE
    /\ UNCHANGED <<dbVars, postVars, cur, mapped, snap, pending, announced, mishaps,
                   histVars>>

\* trace_ids_for_graph, select_spans: what ClickHouse holds for the graph.
StartRemap(g) ==
    /\ Step("next", "store")
    /\ g \in todo
    /\ todo' = todo \ {g}
    /\ cur' = g
    /\ mapped' = spans \cap RunsIn(g)
    /\ UNCHANGED <<dbVars, postVars, again, snap, pending, announced, mishaps,
                   histVars>>

\* upsert_batch with refresh_runs: never counts as late, also in the second loop.
StoreRemap ==
    /\ Step("store", "count")
    /\ rowLock[cur] = None
    /\ runs' = runs \cup mapped
    /\ runCount' = [runCount EXCEPT ![cur] = Cardinality(runs' \cap RunsIn(cur))]
    /\ mapped' = {}
    /\ remapped' = IF status[cur] = "finalized" THEN remapped \cup (mapped \ runs)
                                                ELSE remapped
    /\ UNCHANGED <<spans, status, lateCount, rowLock, postVars, again, todo, cur,
                   snap, pending, announced, mishaps, noticed, overdue, covered,
                   lost>>

\* The re-map raises: logged, and the graph is finalized as it is stored.
RemapRaises ==
    /\ Step("store", "count")
    /\ mapped' = {}
    /\ UNCHANGED <<dbVars, postVars, again, todo, cur, snap, pending, announced,
                   mishaps, histVars>>

\* The UPDATE of _finalize_update starts: its sub-selects see this snapshot ..
CountRuns ==
    /\ Step("count", "update")
    /\ snap' = Cardinality(runs \cap RunsIn(cur))
    /\ UNCHANGED <<dbVars, postVars, again, todo, cur, mapped, pending, announced,
                   mishaps, histVars>>

From == IF again THEN "finalized" ELSE "active"

\* mutant: only a graph finalized empty is announced
FinalizeUpdateSwapped ==
    /\ Step("update", IF snap = 0 THEN "announce" ELSE "next")
    /\ rowLock[cur] = None
    /\ status[cur] = From
    /\ status' = [status EXCEPT ![cur] = "finalized"]
    /\ runCount' = [runCount EXCEPT ![cur] = snap]
    /\ UNCHANGED <<spans, runs, lateCount, rowLock, postVars, again, todo, cur,
                   mapped, snap, pending, announced, mishaps, histVars>>

\* mutant: the XADD comes first, the UPDATE after it
FinalizeUpdateAnnounced ==
    /\ fat = "update"
    /\ rowLock[cur] = None
    /\ status[cur] = From
    /\ IF snap > 0 /\ announced[cur] = 0
       THEN /\ announced' = [announced EXCEPT ![cur] = 1]
            /\ UNCHANGED <<fat, status, runCount>>
       ELSE /\ fat' = "next"
            /\ status' = [status EXCEPT ![cur] = "finalized"]
            /\ runCount' = [runCount EXCEPT ![cur] = snap]
            /\ UNCHANGED announced
    /\ UNCHANGED <<spans, runs, lateCount, rowLock, postVars, again, todo, cur,
                   mapped, snap, pending, mishaps, histVars>>

\* .. and it changes the row, once free, if it still has the expected status.
\* An empty graph is not announced.
FinalizeUpdate ==
    /\ Step("update", IF snap = 0 THEN "next" ELSE "announce")
    /\ rowLock[cur] = None
    /\ status[cur] = From
    /\ status' = [status EXCEPT ![cur] = "finalized"]
    /\ runCount' = [runCount EXCEPT ![cur] = snap]
    /\ UNCHANGED <<spans, runs, lateCount, rowLock, postVars, again, todo, cur,
                   mapped, snap, pending, announced, mishaps, histVars>>

FinalizeNone ==
    /\ Step("update", "next")
    /\ rowLock[cur] = None
    /\ status[cur] # From
    /\ UNCHANGED <<dbVars, postVars, again, todo, cur, mapped, snap, pending,
                   announced, mishaps, histVars>>

\* XADD ad.graphs.completed, after the commit.
Announce ==
    /\ Step("announce", "next")
    /\ announced' = [announced EXCEPT ![cur] = @ + 1]
    /\ covered' = covered \cup (runs \cap RunsIn(cur))
    /\ UNCHANGED <<dbVars, postVars, again, todo, cur, mapped, snap, pending,
                   mishaps, noticed, overdue, remapped, lost>>

\* mutant: the queue is cleared before it is copied
TakePendingCleared ==
    /\ fat = "next" /\ ~again /\ todo = {}
    /\ again' = TRUE
    /\ todo' = {}
    /\ pending' = {}
    /\ UNCHANGED <<dbVars, postVars, fat, cur, mapped, snap, announced, mishaps,
                   histVars>>

\* mutant: the queue is not cleared
TakePendingKept ==
    /\ fat = "next" /\ ~again /\ todo = {}
    /\ again' = TRUE
    /\ todo' = pending
    /\ UNCHANGED <<dbVars, postVars, fat, cur, mapped, snap, pending, announced,
                   mishaps, histVars>>

\* The first loop is done: _reanalyze_pending takes the queue and clears it.
TakePending ==
    /\ fat = "next" /\ ~again /\ todo = {}
    /\ again' = TRUE
    /\ todo' = pending
    /\ pending' = {}
    /\ UNCHANGED <<dbVars, postVars, fat, cur, mapped, snap, announced, mishaps,
                   histVars>>

ScanDone ==
    /\ Step("next", "sleep")
    /\ again /\ todo = {}
    /\ again' = FALSE
    /\ cur' = None
    /\ snap' = 0
    /\ UNCHANGED <<dbVars, postVars, todo, mapped, pending, announced, mishaps,
                   histVars>>

\* Graphs whose announcement is dropped when the scan stops where it is: the
\* committed one not yet announced, and what was taken out of the queue.
Dropped == (IF fat = "announce" \/ (again /\ fat \in {"store", "count", "update"})
            THEN {cur} ELSE {})
           \cup (IF again THEN todo ELSE {})

ForgetScan == /\ fat' = "sleep"
              /\ again' = FALSE
              /\ todo' = {}
              /\ cur' = None
              /\ mapped' = {}
              /\ snap' = 0

\* A Postgres or Redis call outside the re-map raises: run_forever logs it.
ScanRaises ==
    /\ Mishap
    /\ fat \in {"count", "update", "announce"}
    /\ ForgetScan
    /\ lost' = lost \cup Dropped
    /\ UNCHANGED <<dbVars, postVars, pending, announced, noticed, overdue, remapped,
                   covered>>

\* The ingest process dies and starts again; clients may post again.
Crash ==
    /\ Mishap
    /\ hat' = [b \in Batches |-> "idle"]
    /\ sawFinal' = [b \in Batches |-> FALSE]
    /\ fresh' = [b \in Batches |-> 0]
    /\ rowLock' = [g \in Graphs |-> None]
    /\ pending' = {}
    /\ ForgetScan
    /\ lost' = lost \cup Dropped \cup pending
                    \cup {HomeOf[b] : b \in {c \in Batches : fresh[c] > 0}}
    /\ UNCHANGED <<spans, runs, status, runCount, lateCount, sends, announced,
                   noticed, overdue, remapped, covered>>

PostStep(b) == \/ InsertSpans(b) \/ LateSelect(b) \/ LockGraph(b) \/ CommitBatch(b)
               \/ Notify(b)

FinalizerStep ==
    \/ \E g \in Graphs : StartRemap(g)
    \/ StoreRemap \/ RemapRaises \/ CountRuns \/ FinalizeUpdate \/ FinalizeNone
    \/ Announce \/ TakePending \/ ScanDone

IngestNext == \/ \E b \in Batches : Receive(b) \/ PostStep(b) \/ PostRaises(b)
              \/ \E due \in SUBSET Graphs : Scan(due)
              \/ FinalizerStep
              \/ ScanRaises
              \/ Crash

\* Handlers and the finalizer keep running, and scans at which every active
\* graph is due keep coming: posting ends, so in the end every graph is quiet.
IngestFairness == /\ \A b \in Batches : WF_ingestVars(PostStep(b))
                  /\ WF_ingestVars(FinalizerStep)
                  /\ SF_ingestVars(Scan(Active))

--------------------------------------------------------------------------------
(* Properties.                                                             *)

\* The late tally never counts a run twice, and never one that was there when
\* its graph was finalized ("redelivery of the same spans neither inflates the
\* tally nor re-triggers re-analysis", repository.py:119-121).
LateTallySound == \A g \in Graphs : lateCount[g] <= Cardinality(overdue \cap RunsIn(g))

\* "exactly one message is published to ad.graphs.completed" and "a graph is
\* never announced twice" (finalizer.py:15-23): every announcement beyond the
\* first needs the flag and a run of its own that came late.
AnnouncedOnce == \A g \in Graphs :
    announced[g] <= 1 + (IF ReanalyzeLateSpans
                         THEN Cardinality(noticed \cap RunsIn(g)) ELSE 0)

\* A stored graph is finalized and announced, unless the process failed between
\* the commit and the XADD.
EveryGraphAnnounced == \A g \in Graphs :
    status[g] = "active" ~> (announced[g] > 0 \/ g \in lost)

\* With the flag, a late run that was counted is part of a later announcement,
\* whatever arrives while the finalizer works through its queue, unless the
\* process failed in between (finalizer.py:129-162).
LateRunsReannounced == \A g \in Graphs : \A r \in RunsIn(g) :
    (ReanalyzeLateSpans /\ r \in noticed) ~> (r \in covered \/ g \in lost)

\* "detected inside the upsert transaction, so it cannot race the finalizer"
\* (repository.py:118-119): every run a POST adds to a finalized graph is
\* counted.
LateDetected == overdue \subseteq noticed
================================================================================
