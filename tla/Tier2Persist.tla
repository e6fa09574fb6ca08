------------------------------ MODULE Tier2Persist -----------------------------
(***************************************************************************)
(* persist_tier2_result (worker/pg.py), statement by statement, run by     *)
(* several writers against one Postgres database: worker processes of a    *)
(* fleet, or analyses redelivered while the first is still at work.        *)
(*                                                                         *)
(* The engine's transactions are READ COMMITTED: a statement sees what was *)
(* committed when it started, a row it wants to write or lock may be held  *)
(* by another open transaction, then it waits, and goes on with the        *)
(* committed version of the rows its snapshot had chosen; it does not look *)
(* for rows that have appeared meanwhile.  A statement that chooses rows   *)
(* and waits for them is therefore two steps here.  What a transaction has *)
(* written stays in its draft until Commit; Abort drops it.                *)
(*                                                                         *)
(* The agent_runs rows are locked one by one, in the order in which the    *)
(* analysis has loaded them, which is any order: load_graph has no ORDER   *)
(* BY.  A graph's runs are those all its analyses load (Runs).  A ledger   *)
(* row's chain_hash is its id: two rows have equal hashes only when they   *)
(* are the same row.                                                       *)
(***************************************************************************)
EXTENDS Naturals, FiniteSets, IncidentStatus

CONSTANTS Writers,      \* concurrent callers of persist_tier2_result
          Runs,         \* the runs of each graph
          MaxAnalyses,  \* bound: transactions begun
          MaxPatches,   \* bound: PATCH /incidents calls
          None          \* no key (a clean analysis), no lock holder

ASSUME PersistAssumption ==
    /\ MaxAnalyses \in Nat
    /\ MaxPatches \in Nat
    /\ Runs # {}
    /\ None \notin Keys \cup Writers \cup Graphs

VARIABLES status,     \* committed incidents.status
          reports,    \* committed blame_reports
          ledger,     \* committed evidence_ledger
          nextRow,    \* the ledger's id sequence (never rolled back)
          at,         \* the statement each writer is about to execute
          job,        \* what it was called with
          draft,      \* what its open transaction has written or read
          runLock,    \* writer holding an agent_runs row
          rowLock,    \* writer holding an incidents row
          tailLock,   \* writer holding a ledger row FOR UPDATE
          begun,      \* transactions begun so far
          patches,    \* PATCH calls so far
          late        \* history: incidents of the graph patched since the
                      \* writer's supersede statement has chosen its rows

tables == <<status, reports, ledger>>
locks  == <<runLock, rowLock, tailLock>>
vars == <<tables, nextRow, at, job, draft, locks, begun, patches, late>>

RowIds == 1..MaxAnalyses
AgentRuns == Graphs \X Runs

Report == [inc : Incidents, version : 1..MaxAnalyses, latest : BOOLEAN]
LedgerRow == [id : RowIds, graph : Graphs, prev : 0..MaxAnalyses]

\* scored: the runs updated so far; next: the run the update in hand is about;
\* incident: its new status; version: of the new report, 0 when none was
\* inserted; tail: the ledger row chosen; row: the id inserted; others:
\* the incidents the supersede statement has chosen.
NoDraft == [scored |-> {}, next |-> None, incident |-> "none", version |-> 0,
            flipped |-> FALSE, tail |-> 0, row |-> 0, others |-> {}]
Draft == [scored : SUBSET Runs, next : Runs \cup {None},
          incident : Statuses, version : 0..MaxAnalyses, flipped : BOOLEAN,
          tail : 0..MaxAnalyses, row : 0..MaxAnalyses, others : SUBSET Incidents]
NoJob == [graph |-> None, key |-> None]

TypeOK ==
    /\ status \in [Incidents -> Statuses]
    /\ reports \in SUBSET Report
    /\ ledger \in SUBSET LedgerRow
    /\ nextRow \in 1..(MaxAnalyses + 1)
    /\ at \in [Writers -> {"idle", "scores", "upsert", "flip", "version", "report",
                           "tail", "lock", "append", "stale", "supersede", "commit"}]
    /\ job \in [Writers -> [graph : Graphs \cup {None}, key : Keys \cup {None}]]
    /\ draft \in [Writers -> Draft]
    /\ runLock \in [AgentRuns -> Writers \cup {None}]
    /\ rowLock \in [Incidents -> Writers \cup {None}]
    /\ tailLock \in [RowIds -> Writers \cup {None}]
    /\ begun \in 0..MaxAnalyses
    /\ patches \in 0..MaxPatches
    /\ late \in [Writers -> SUBSET Incidents]

Init ==
    /\ status = [i \in Incidents |-> "none"]
    /\ reports = {}
    /\ ledger = {}
    /\ nextRow = 1
    /\ at = [w \in Writers |-> "idle"]
    /\ job = [w \in Writers |-> NoJob]
    /\ draft = [w \in Writers |-> NoDraft]
    /\ runLock = [r \in AgentRuns |-> None]
    /\ rowLock = [i \in Incidents |-> None]
    /\ tailLock = [r \in RowIds |-> None]
    /\ begun = 0
    /\ patches = 0
    /\ late = [w \in Writers |-> {}]

--------------------------------------------------------------------------------
Goto(w, here, there) == at[w] = here /\ at' = [at EXCEPT ![w] = there]

Incident(w) == <<job[w].graph, job[w].key>>

Free(lock, x, w) == lock[x] \in {None, w}

Released(lock, w) == [x \in DOMAIN lock |-> IF lock[x] = w THEN None ELSE lock[x]]

\* The largest of a set of numbers, 0 when it is empty (COALESCE(MAX(..), 0)).
MaxOrZero(S) == IF S = {} THEN 0 ELSE CHOOSE n \in S : \A k \in S : k <= n

VersionsOf(i) == {r.version : r \in {q \in reports : q.inc = i}}

--------------------------------------------------------------------------------
Begin(w, g, k) ==
    /\ begun < MaxAnalyses
    /\ begun' = begun + 1
    /\ Goto(w, "idle", "scores")
    /\ job' = [job EXCEPT ![w] = [graph |-> g, key |-> k]]
    /\ \E r \in Runs : draft' = [draft EXCEPT ![w].next = r]
    /\ UNCHANGED <<tables, nextRow, locks, patches, late>>

ToClassify(w) == IF job[w].key = None THEN "stale" ELSE "upsert"

\* mutant: the node scores are written after the transaction, without the lock
ScoresUnlocked(w) ==
    /\ Goto(w, "scores", ToClassify(w))
    /\ UNCHANGED <<tables, nextRow, job, draft, locks, begun, patches, late>>

\* for row in node_scores: UPDATE agent_runs WHERE run_id = ..  Each waits for
\* its own row; the loop ends when every run of the graph has its score.
Scores(w) ==
    LET row == <<job[w].graph, draft[w].next>>
        scored == draft[w].scored \cup {draft[w].next}
    IN  /\ at[w] = "scores"
        /\ Free(runLock, row, w)
        /\ runLock' = [runLock EXCEPT ![row] = w]
        /\ \/ \E r \in Runs \ scored :
                 /\ draft' = [draft EXCEPT ![w].scored = scored, ![w].next = r]
                 /\ UNCHANGED at
           \/ /\ Runs \subseteq scored
              /\ draft' = [draft EXCEPT ![w].scored = scored, ![w].next = None]
              /\ at' = [at EXCEPT ![w] = ToClassify(w)]
        /\ UNCHANGED <<tables, nextRow, job, rowLock, tailLock, begun, patches, late>>

\* INSERT INTO incidents .. ON CONFLICT (graph_id, incident_key) DO UPDATE:
\* waits for a concurrent insert or update of the same key.
Upsert(w) ==
    /\ Goto(w, "upsert", "flip")
    /\ Free(rowLock, Incident(w), w)
    /\ rowLock' = [rowLock EXCEPT ![Incident(w)] = w]
    /\ draft' = [draft EXCEPT ![w].incident = Reopened(status[Incident(w)])]
    /\ UNCHANGED <<tables, nextRow, job, runLock, tailLock, begun, patches, late>>

\* mutant: earlier reports keep is_latest
FlipNothing(w) ==
    /\ Goto(w, "flip", "version")
    /\ UNCHANGED <<tables, nextRow, job, draft, locks, begun, patches, late>>

\* UPDATE blame_reports SET is_latest = false WHERE incident_id = ..
FlipLatest(w) ==
    /\ Goto(w, "flip", "version")
    /\ draft' = [draft EXCEPT ![w].flipped = TRUE]
    /\ UNCHANGED <<tables, nextRow, job, locks, begun, patches, late>>

\* SELECT COALESCE(MAX(version), 0) + 1
NextVersion(w) ==
    /\ Goto(w, "version", "report")
    /\ draft' = [draft EXCEPT ![w].version = MaxOrZero(VersionsOf(Incident(w))) + 1]
    /\ UNCHANGED <<tables, nextRow, job, locks, begun, patches, late>>

\* INSERT INTO blame_reports; UNIQUE (incident_id, version) would raise.
InsertReport(w) ==
    /\ Goto(w, "report", "tail")
    /\ draft[w].version \notin VersionsOf(Incident(w))
    /\ UNCHANGED <<tables, nextRow, job, draft, locks, begun, patches, late>>

\* SELECT chain_hash .. ORDER BY id DESC LIMIT 1 FOR UPDATE: the snapshot
\* chooses the last committed row ..
LedgerTail(w) ==
    /\ Goto(w, "tail", "lock")
    /\ draft' = [draft EXCEPT ![w].tail = MaxOrZero({r.id : r \in ledger})]
    /\ UNCHANGED <<tables, nextRow, job, locks, begun, patches, late>>

\* .. and the statement returns that row once its lock is free.
LedgerLock(w) ==
    /\ Goto(w, "lock", "append")
    /\ draft[w].tail # 0 => Free(tailLock, draft[w].tail, w)
    /\ tailLock' = [r \in RowIds |-> IF r = draft[w].tail THEN w ELSE tailLock[r]]
    /\ UNCHANGED <<tables, nextRow, job, draft, runLock, rowLock, begun, patches, late>>

\* INSERT INTO evidence_ledger
LedgerAppend(w) ==
    /\ Goto(w, "append", "stale")
    /\ nextRow' = nextRow + 1
    /\ draft' = [draft EXCEPT ![w].row = nextRow]
    /\ UNCHANGED <<tables, job, locks, begun, patches, late>>

\* UPDATE incidents SET status = 'superseded': the snapshot chooses the other
\* live incidents of the graph ..
ChooseStale(w) ==
    /\ Goto(w, "stale", "supersede")
    /\ draft' = [draft EXCEPT ![w].others =
                    {i \in Incidents : /\ i[1] = job[w].graph
                                       /\ i # Incident(w)
                                       /\ status[i] \in Live}]
    /\ UNCHANGED <<tables, nextRow, job, locks, begun, patches, late>>

\* .. and updates those that are still live once their locks are free.
Supersede(w) ==
    /\ Goto(w, "supersede", "commit")
    /\ \A i \in draft[w].others : Free(rowLock, i, w)
    /\ LET still == {i \in draft[w].others : status[i] \in Live}
       IN  /\ draft' = [draft EXCEPT ![w].others = still]
           /\ rowLock' = [i \in Incidents |-> IF i \in still THEN w ELSE rowLock[i]]
    /\ UNCHANGED <<tables, nextRow, job, runLock, tailLock, begun, patches, late>>

Finish(w) ==
    /\ at' = [at EXCEPT ![w] = "idle"]
    /\ job' = [job EXCEPT ![w] = NoJob]
    /\ draft' = [draft EXCEPT ![w] = NoDraft]
    /\ runLock' = Released(runLock, w)
    /\ rowLock' = Released(rowLock, w)
    /\ tailLock' = Released(tailLock, w)
    /\ late' = [late EXCEPT ![w] = {}]
    /\ UNCHANGED <<nextRow, begun, patches>>

\* UPDATE tier2_jobs (no one else touches the row), then COMMIT.
Commit(w) ==
    /\ at[w] = "commit"
    /\ status' = [i \in Incidents |->
                    IF job[w].key # None /\ i = Incident(w) THEN draft[w].incident
                    ELSE IF i \in draft[w].others THEN "superseded" ELSE status[i]]
    /\ reports' =
         LET kept == {[r EXCEPT !.latest = @ /\ ~(draft[w].flipped /\ r.inc = Incident(w))]
                        : r \in reports}
         IN  IF job[w].key = None THEN kept
             ELSE kept \cup {[inc |-> Incident(w), version |-> draft[w].version,
                              latest |-> TRUE]}
    /\ ledger' = IF job[w].key = None THEN ledger
                 ELSE ledger \cup {[id |-> draft[w].row, graph |-> job[w].graph,
                                    prev |-> draft[w].tail]}
    /\ Finish(w)

\* A statement raises, the process dies, or Postgres picks the transaction as
\* a deadlock victim: everything it did is rolled back.
Abort(w) ==
    /\ at[w] # "idle"
    /\ Finish(w)
    /\ UNCHANGED tables

Superseding(w) == at[w] \in {"supersede", "commit"}

\* PATCH /incidents/{id}: one UPDATE, at any time; it waits only for an
\* analysis that has locked the row.
Patch(i, s) ==
    /\ patches < MaxPatches
    /\ patches' = patches + 1
    /\ status[i] # "none"
    /\ rowLock[i] = None
    /\ status' = [status EXCEPT ![i] = s]
    /\ late' = [w \in Writers |-> IF Superseding(w) /\ job[w].graph = i[1]
                                THEN late[w] \cup {i} ELSE late[w]]
    /\ UNCHANGED <<reports, ledger, nextRow, at, job, draft, locks, begun>>

Statement(w) ==
    \/ Scores(w) \/ Upsert(w) \/ FlipLatest(w) \/ NextVersion(w) \/ InsertReport(w)
    \/ LedgerTail(w) \/ LedgerLock(w) \/ LedgerAppend(w)
    \/ ChooseStale(w) \/ Supersede(w) \/ Commit(w)

Next == \/ \E w \in Writers : \/ \E g \in Graphs, k \in Keys \cup {None} : Begin(w, g, k)
                              \/ Statement(w)
                              \/ Abort(w)
        \/ \E i \in Incidents, s \in Live \cup {"resolved"} : Patch(i, s)

Spec == Init /\ [][Next]_vars

--------------------------------------------------------------------------------
(* Properties.                                                             *)

\* Seen from outside, every analysis changes the incidents of its graph at
\* once: two analyses of one graph cannot each miss the incident the other one
\* is inserting.  What keeps them apart is the first loop, whose locks on the
\* agent_runs rows are held to the end (pg.py:583-595).  An operator is not
\* kept apart: what PATCH brings back to life after the supersede statement
\* has chosen its rows (pg.py:713-731) stays live beside the new incident,
\* and that is all an analysis can miss.
looking == [w \in Writers |-> IF Superseding(w) THEN job[w].graph ELSE None]
Atomic == INSTANCE AtomicIncidents WITH Analyses <- Writers
IncidentsAtomic == Atomic!Spec

\* The reports of an incident have the versions 1..n and the last one alone is
\* is_latest, whichever writers committed and aborted (pg.py:641-676).
ReportsLinear ==
    \A i \in Incidents :
        /\ VersionsOf(i) = 1..Cardinality(VersionsOf(i))
        /\ \A r \in reports : r.inc = i =>
              (r.latest <=> r.version = Cardinality(VersionsOf(i)))

\* Two ledger rows never extend the same predecessor when they belong to one
\* graph, and a predecessor is a committed, earlier row (pg.py:678-703).
GraphChained ==
    /\ \A r, s \in ledger : r.prev = s.prev /\ r # s => r.graph # s.graph
    /\ \A r \in ledger : /\ r.prev < r.id
                         /\ r.prev # 0 => \E s \in ledger : s.id = r.prev

\* Writer w waits for a lock that v holds.
Waits(w, v) ==
    \/ at[w] = "scores" /\ runLock[<<job[w].graph, draft[w].next>>] = v
    \/ at[w] = "upsert" /\ rowLock[Incident(w)] = v
    \/ at[w] = "lock" /\ draft[w].tail # 0 /\ tailLock[draft[w].tail] = v
    \/ at[w] = "supersede" /\ \E i \in draft[w].others : rowLock[i] = v

\* Writers that wait for one another, so that Postgres aborts one of them.
Circle(S) == S # {} /\ \A w \in S : \E v \in S \ {w} : Waits(w, v)

\* Nobody is ever a deadlock victim.  The code does not keep this: two
\* analyses of one graph lock its agent_runs rows crosswise (pg.py:320,
\* pg.py:583-595), and neither proceeds.
NoVictim == \A S \in SUBSET Writers : ~Circle(S)

\* Whoever waits in a circle is still scoring the runs of its graph: once past
\* that loop a transaction's incident, report and ledger row are never lost to
\* a deadlock, although incident rows and ledger tails are locked in different
\* orders by different analyses (pg.py:600-731).
CirclesOnlyOverRuns ==
    \A S \in SUBSET Writers : Circle(S) => \A w \in S : at[w] = "scores"

\* verify_report_chain, of the report whose last row is given: every row up to
\* that one links to the row before it.  Nobody rewrites a row here, so the
\* hashes recompute and the signatures hold.
verify_report_chain(target) ==
    \A row \in {r \in ledger : r.id <= target} :
        row.prev = MaxOrZero({r.id : r \in {q \in ledger : q.id < row.id}})

\* "FOR UPDATE on the tail serializes concurrent appends - two writers cannot
\* chain onto the same predecessor" (pg.py:681-682): a ledger that nobody
\* tampered with, and whose first row was there before anyone else wrote,
\* verifies for every report (audit.py:34-67).
UntouchedVerifies ==
    Cardinality({r \in ledger : r.prev = 0}) <= 1
      => \A r \in ledger : verify_report_chain(r.id)
================================================================================
