-------------------------- MODULE Tier2PersistProofs --------------------------
(***************************************************************************)
(* Tier2Persist for any writers, graphs and classifications and any number *)
(* of analyses.  The whole argument hangs on the first loop: the agent_runs *)
(* rows it locks, in whichever order, let one analysis of a graph past it  *)
(* (OnePerGraph), so whatever a transaction has read of its graph since    *)
(* then (TransactionTrue) is still so when it commits, but for what an     *)
(* operator has patched in between (late).  The invariant says that of     *)
(* each open transaction, statement by statement.                          *)
(***************************************************************************)
EXTENDS Tier2Persist, FiniteSetTheorems, TLAPS

(* Statements before the ledger row has its id. *)
Early == {"scores", "upsert", "flip", "version", "report", "tail", "lock", "append"}

(* Statements past the first loop, with all the graph's runs locked. *)
Holding == {"upsert", "flip", "version", "report", "tail", "lock", "append",
            "stale", "supersede", "commit"}

(* Statements only an analysis that blames someone executes. *)
Classifying == {"upsert", "flip", "version", "report", "tail", "lock", "append"}

(* What the transaction has done when it stands at one of these. *)
Upserted  == Holding \ {"upsert"}
Flipped   == Upserted \ {"flip"}
Versioned == Flipped \ {"version"}
TailRead  == {"lock", "append", "stale", "supersede", "commit"}
Locked    == TailRead \ {"lock"}
Appended  == Locked \ {"append"}

(* The analysis blames someone: its incident has a key. *)
Blaming(w) == job[w].key # None

(* An open transaction knows its graph, and its classification if it is at  *)
(* work on one.                                                             *)
JobsMatch ==
  \A w \in Writers :
    /\ at[w] = "idle" => job[w] = NoJob
    /\ at[w] # "idle" => job[w].graph \in Graphs
    /\ at[w] \in Classifying => Blaming(w)

(* An open transaction has locked exactly the agent_runs rows it has given  *)
(* their scores: all rows of the graph once it is past the loop.            *)
RunsHeld ==
  \A w \in Writers :
    /\ \A g \in Graphs, r \in Runs :
         runLock[<<g, r>>] = w <=> job[w].graph = g /\ r \in draft[w].scored
    /\ at[w] = "idle" => draft[w].scored = {}
    /\ at[w] = "scores" => draft[w].next \in Runs
    /\ at[w] \in Holding => draft[w].scored = Runs

(* Only an analysis past the loop locks incidents rows of the graph: its own *)
(* from the upsert on, those it supersedes until it commits.                *)
RowsHeld ==
  /\ \A w \in Writers, i \in Incidents :
       rowLock[i] = w => at[w] \in Holding /\ job[w].graph = i[1]
  /\ \A w \in Writers :
       /\ Blaming(w) /\ at[w] \in Upserted => rowLock[Incident(w)] = w
       /\ at[w] = "commit" => \A i \in draft[w].others : rowLock[i] = w

(* Only who appended, or is about to, has a ledger row locked. *)
TailsHeld ==
  \A w \in Writers, r \in RowIds : tailLock[r] = w => at[w] \in Locked

(* The next version is still the next one, and there is a ledger id for each *)
(* version of an incident.                                                  *)
VersionTrue(w) ==
  /\ at[w] \in Versioned =>
       /\ draft[w].version = Cardinality(VersionsOf(Incident(w))) + 1
       /\ draft[w].version <= nextRow
  /\ at[w] \in Appended => draft[w].version < nextRow

(* The status written is what the upsert makes of the committed one. *)
DraftTrue(w) ==
  Blaming(w) =>
    /\ at[w] \in Upserted => draft[w].incident = Reopened(status[Incident(w)])
    /\ at[w] \in Flipped => draft[w].flipped
    /\ VersionTrue(w)

(* The ledger row read as the tail is committed, and no later row belongs to *)
(* the graph; the row appended comes after it.                              *)
TailTrue(w) ==
  Blaming(w) =>
    /\ at[w] \in TailRead =>
         /\ draft[w].tail < nextRow
         /\ draft[w].tail # 0 => \E r \in ledger : r.id = draft[w].tail
         /\ \A r \in ledger : r.graph = job[w].graph => r.id <= draft[w].tail
    /\ at[w] \in Appended =>
         draft[w].tail < draft[w].row /\ draft[w].row < nextRow

(* The incidents chosen to be superseded are still the other live ones, but  *)
(* for those an operator has changed since.                                 *)
OthersTrue(w) ==
  /\ ~ Superseding(w) => late[w] = {}
  /\ Superseding(w) =>
       /\ \A i \in draft[w].others :
            i \in Incidents /\ i[1] = job[w].graph /\ i # Incident(w)
       /\ \A i \in Incidents \ late[w] :
            i[1] = job[w].graph /\ i # Incident(w) /\ status[i] \in Live
              => i \in draft[w].others
  /\ at[w] = "commit" => \A i \in draft[w].others : status[i] \in Live

TransactionTrue(w) == DraftTrue(w) /\ TailTrue(w) /\ OthersTrue(w)

(* Ids and versions already given are below the next id. *)
Numbered ==
  /\ \A r \in ledger : r.id < nextRow
  /\ \A r \in reports : r.version < nextRow

(* A ledger with rows has a last one. *)
LastRow == ledger # {} => \E m \in ledger : \A r \in ledger : r.id <= m.id

(* The transactions that may still ask for an id; MaxAnalyses has one for    *)
(* each of them.                                                            *)
EarlyWriters == {w \in Writers : at[w] \in Early}

EnoughIds ==
  /\ IsFiniteSet(EarlyWriters)
  /\ nextRow + Cardinality(EarlyWriters) <= begun + 1

(* The inductive invariant. *)
PersistInv ==
  /\ TypeOK
  /\ JobsMatch /\ RunsHeld /\ RowsHeld /\ TailsHeld
  /\ \A w \in Writers : TransactionTrue(w)
  /\ Numbered /\ LastRow /\ EnoughIds
  /\ ReportsLinear /\ GraphChained

(* COALESCE(MAX(version), 0) over the versions 1..n is n. *)
LEMMA MaxOfInterval ==
  ASSUME NEW n \in Nat
  PROVE  MaxOrZero(1 .. n) = n
  <1>1. CASE n = 0
    BY <1>1 DEF MaxOrZero
  <1>2. CASE n # 0
    <2>1. n \in 1 .. n /\ \A k \in 1 .. n : k <= n
      BY <1>2
    <2>2. \A m \in 1 .. n : (\A k \in 1 .. n : k <= m) => m = n
      BY <2>1
    <2>3. QED
      BY <2>1, <2>2 DEF MaxOrZero
  <1>3. QED
    BY <1>1, <1>2

(* ORDER BY id DESC LIMIT 1 finds the last committed row, 0 standing for none. *)
LEMMA TailOfLedger ==
  ASSUME TypeOK, Numbered, LastRow, NEW tail, tail = MaxOrZero({r.id : r \in ledger})
  PROVE  /\ tail \in 0 .. MaxAnalyses
         /\ tail < nextRow
         /\ tail # 0 => \E r \in ledger : r.id = tail
         /\ \A r \in ledger : r.id <= tail
  <1> DEFINE ids == {r.id : r \in ledger}
  <1>1. CASE ledger = {}
    <2>1. tail = 0
      BY <1>1 DEF MaxOrZero
    <2>2. QED
      BY <1>1, <2>1, PersistAssumption DEF TypeOK
  <1>2. CASE ledger # {}
    <2>1. PICK m \in ledger : \A r \in ledger : r.id <= m.id
      BY <1>2 DEF LastRow
    <2>2. m.id \in ids /\ \A k \in ids : k <= m.id
      BY <2>1
    <2>3. tail \in ids /\ \A k \in ids : k <= tail
      BY <2>2 DEF MaxOrZero
    <2>4. PICK r \in ledger : r.id = tail
      BY <2>3
    <2>5. tail \in RowIds /\ tail < nextRow
      BY <2>4 DEF TypeOK, LedgerRow, Numbered
    <2>6. MaxAnalyses \in Nat /\ tail \in 0 .. MaxAnalyses
      BY <2>5, PersistAssumption DEF RowIds
    <2>7. QED
      BY <2>3, <2>4, <2>5, <2>6
  <1>3. QED
    BY <1>1, <1>2

(* An incident has finitely many reports. *)
LEMMA VersionsFinite ==
  ASSUME TypeOK, NEW i \in Incidents
  PROVE  /\ VersionsOf(i) \subseteq 1 .. MaxAnalyses
         /\ IsFiniteSet(VersionsOf(i))
         /\ Cardinality(VersionsOf(i)) \in Nat
  <1>1. VersionsOf(i) \subseteq 1 .. MaxAnalyses
    BY DEF TypeOK, VersionsOf, Report
  <1>2. IsFiniteSet(1 .. MaxAnalyses)
    BY PersistAssumption, FS_Interval
  <1>3. QED
    BY <1>1, <1>2, FS_Subset, FS_CardinalityType

(* The locks on its agent_runs rows let one analysis of a graph past the     *)
(* first statement.                                                         *)
LEMMA OnePerGraph ==
  ASSUME RunsHeld, JobsMatch, NEW v \in Writers, NEW w \in Writers,
         at[v] \in Holding, at[w] \in Holding, job[v].graph = job[w].graph
  PROVE  v = w
  <1>1. job[w].graph \in Graphs
    BY DEF JobsMatch, Holding
  <1>2. PICK r \in Runs : TRUE
    BY PersistAssumption
  <1>3. runLock[<<job[w].graph, r>>] = v /\ runLock[<<job[w].graph, r>>] = w
    BY <1>1, <1>2 DEF RunsHeld
  <1>4. QED
    BY <1>3

(* The incident of an analysis that blames someone. *)
LEMMA IncidentOf ==
  ASSUME TypeOK, JobsMatch, NEW w \in Writers, at[w] # "idle", Blaming(w)
  PROVE  Incident(w) \in Incidents /\ Incident(w)[1] = job[w].graph
  BY DEF TypeOK, JobsMatch, Blaming, Incident, Incidents

(* What a statement writes into its draft. *)
LEMMA DraftField ==
  ASSUME NEW d \in Draft
  PROVE  /\ \A v \in Statuses : [d EXCEPT !.incident = v] \in Draft
         /\ \A v \in Runs : [d EXCEPT !.next = v] \in Draft
         /\ [d EXCEPT !.flipped = TRUE] \in Draft
         /\ \A S \in SUBSET Runs, v \in Runs \cup {None} :
              [d EXCEPT !.scored = S, !.next = v] \in Draft
         /\ \A v \in 0 .. MaxAnalyses : /\ [d EXCEPT !.version = v] \in Draft
                                        /\ [d EXCEPT !.tail = v] \in Draft
                                        /\ [d EXCEPT !.row = v] \in Draft
         /\ \A v \in SUBSET Incidents : [d EXCEPT !.others = v] \in Draft
  BY DEF Draft

(* A statement past the loop that takes no lock and commits nothing leaves   *)
(* every lock where its holder needs it.                                     *)
LEMMA HeldKeep ==
  ASSUME TypeOK, JobsMatch, RunsHeld, RowsHeld, NEW w \in Writers,
         at[w] \in Holding, NEW there \in Holding \ {"commit"},
         at' = [at EXCEPT ![w] = there],
         there \in Upserted => at[w] \in Upserted,
         there \in Classifying => Blaming(w),
         job' = job, runLock' = runLock, rowLock' = rowLock,
         \A v \in Writers : /\ draft'[v].scored = draft[v].scored
                            /\ draft'[v].next = draft[v].next,
         \A v \in Writers \ {w} : draft'[v].others = draft[v].others
  PROVE  JobsMatch' /\ RunsHeld' /\ RowsHeld'
  <1>1. \A v \in Writers : /\ Blaming(v)' <=> Blaming(v)
                           /\ Incident(v)' = Incident(v)
    BY DEF Blaming, Incident
  <1>2. /\ at'[w] = there
        /\ \A v \in Writers \ {w} : at'[v] = at[v]
    BY DEF TypeOK
  <1>3. there # "idle" /\ there # "scores" /\ at[w] # "idle"
    BY DEF Holding
  <1>4. JobsMatch'
    BY <1>1, <1>2, <1>3 DEF JobsMatch
  <1>5. RunsHeld'
    <2>1. ASSUME NEW v \in Writers, NEW g \in Graphs, NEW r \in Runs
          PROVE  runLock'[<<g, r>>] = v <=> job'[v].graph = g /\ r \in draft'[v].scored
      <3>1. runLock[<<g, r>>] = v <=> job[v].graph = g /\ r \in draft[v].scored
        BY DEF RunsHeld
      <3>2. draft'[v].scored = draft[v].scored
        OBVIOUS
      <3>3. QED
        BY <3>1, <3>2
    <2>2. ASSUME NEW v \in Writers
          PROVE  /\ at'[v] = "idle" => draft'[v].scored = {}
                 /\ at'[v] = "scores" => draft'[v].next \in Runs
                 /\ at'[v] \in Holding => draft'[v].scored = Runs
      BY <1>2, <1>3 DEF RunsHeld
    <2>3. QED
      BY <2>1, <2>2 DEF RunsHeld
  <1>6. RowsHeld'
    BY <1>1, <1>2 DEF RowsHeld
  <1>7. QED
    BY <1>4, <1>5, <1>6

(* A step of one early writer that stays early leaves enough ids. *)
LEMMA EarlyStays ==
  ASSUME TypeOK, EnoughIds, NEW w \in Writers, at[w] \in Early, NEW there \in Early,
         at' = [at EXCEPT ![w] = there], UNCHANGED <<nextRow, begun>>
  PROVE  EnoughIds'
  <1>1. EarlyWriters' = EarlyWriters
    BY DEF EarlyWriters, TypeOK
  <1>2. QED
    BY <1>1 DEF EnoughIds

(* One that takes an id or needs none leaves enough for the others. *)
LEMMA EarlyLeaves ==
  ASSUME TypeOK, EnoughIds, NEW w \in Writers, NEW there, there \notin Early,
         at' = [at EXCEPT ![w] = there], begun' = begun,
         \/ nextRow' = nextRow
         \/ nextRow' = nextRow + 1 /\ at[w] \in Early
  PROVE  EnoughIds'
  <1>1. EarlyWriters' = EarlyWriters \ {w}
    BY DEF EarlyWriters, TypeOK
  <1>2. IsFiniteSet(EarlyWriters) /\ Cardinality(EarlyWriters) \in Nat
    BY FS_CardinalityType DEF EnoughIds
  <1>3. /\ IsFiniteSet(EarlyWriters')
        /\ Cardinality(EarlyWriters') = IF w \in EarlyWriters
                                        THEN Cardinality(EarlyWriters) - 1
                                        ELSE Cardinality(EarlyWriters)
    BY <1>1, <1>2, FS_RemoveElement
  <1>4. at[w] \in Early => w \in EarlyWriters
    BY DEF EarlyWriters
  <1>5. nextRow + Cardinality(EarlyWriters) <= begun + 1 /\ nextRow \in Nat /\ begun \in Nat
    BY DEF EnoughIds, TypeOK
  <1>6. nextRow' + Cardinality(EarlyWriters') <= begun' + 1
    BY <1>2, <1>3, <1>4, <1>5
  <1>7. QED
    BY <1>3, <1>6 DEF EnoughIds

(* Whoever has no id yet can still get one. *)
LEMMA IdLeft ==
  ASSUME TypeOK, EnoughIds, NEW w \in Writers, at[w] \in Early
  PROVE  nextRow <= begun /\ nextRow <= MaxAnalyses
  <1>1. w \in EarlyWriters
    BY DEF EarlyWriters
  <1>2. Cardinality(EarlyWriters) \in Nat /\ Cardinality(EarlyWriters) # 0
    BY <1>1, FS_CardinalityType, FS_EmptySet DEF EnoughIds
  <1>3. nextRow \in Nat /\ begun \in Nat /\ begun <= MaxAnalyses
    BY PersistAssumption DEF TypeOK
  <1>4. nextRow + Cardinality(EarlyWriters) <= begun + 1
    BY DEF EnoughIds
  <1>5. QED
    BY <1>2, <1>3, <1>4, PersistAssumption

(* Initially nothing is committed and nobody holds a lock. *)
LEMMA InvInit == Init => PersistInv
  <1> SUFFICES ASSUME Init PROVE PersistInv
    OBVIOUS
  <1> USE DEF Init
  <1>1. TypeOK
    BY PersistAssumption DEF TypeOK, Statuses, Live, NoJob, NoDraft, Draft
  <1>2. EnoughIds
    <2>1. EarlyWriters = {}
      BY DEF EarlyWriters, Early
    <2>2. QED
      BY <2>1, FS_EmptySet DEF EnoughIds
  <1>3. JobsMatch /\ RunsHeld /\ RowsHeld /\ TailsHeld
    BY PersistAssumption DEF JobsMatch, RunsHeld, RowsHeld, TailsHeld, Holding,
       Upserted, Classifying, Locked, TailRead, NoJob, NoDraft, AgentRuns
  <1>4. (\A w \in Writers : TransactionTrue(w)) /\ Numbered /\ LastRow
    BY DEF TransactionTrue, DraftTrue, VersionTrue, TailTrue, OthersTrue, Superseding, Numbered, LastRow,
       Upserted, Flipped, Versioned, Holding, TailRead, Appended, Locked
  <1>5. ReportsLinear /\ GraphChained
    <2>1. \A i \in Incidents : VersionsOf(i) = {}
      BY DEF VersionsOf
    <2>2. QED
      BY <2>1, FS_EmptySet, 1 .. 0 = {} DEF ReportsLinear, GraphChained
  <1>6. QED
    BY <1>1, <1>2, <1>3, <1>4, <1>5 DEF PersistInv

(* A statement that commits nothing leaves the other transactions as true    *)
(* as they were, and the committed tables as well.                          *)
LEMMA OthersKeep ==
  ASSUME TypeOK, NEW w \in Writers, \A v \in Writers : TransactionTrue(v),
         UNCHANGED tables, nextRow' \in {nextRow, nextRow + 1},
         \A v \in Writers \ {w} :
            /\ at'[v] = at[v] /\ job'[v] = job[v]
            /\ draft'[v] = draft[v] /\ late'[v] = late[v],
         TransactionTrue(w)'
  PROVE  \A v \in Writers : TransactionTrue(v)'
  <1> SUFFICES ASSUME NEW v \in Writers, v # w PROVE TransactionTrue(v)'
    OBVIOUS
  <1>1. /\ at'[v] = at[v] /\ job'[v] = job[v]
        /\ draft'[v] = draft[v] /\ late'[v] = late[v]
        /\ status' = status /\ reports' = reports /\ ledger' = ledger
    BY DEF tables
  <1>2. nextRow <= nextRow' /\ nextRow \in Nat /\ nextRow' \in Nat
    BY DEF TypeOK
  <1>3. Incident(v)' = Incident(v) /\ (Blaming(v)' <=> Blaming(v))
    BY <1>1 DEF Incident, Blaming
  <1>4. VersionsOf(Incident(v))' = VersionsOf(Incident(v))
    BY <1>1, <1>3 DEF VersionsOf
  <1>5. /\ draft[v].tail \in Nat /\ draft[v].row \in Nat /\ draft[v].version \in Nat
    BY DEF TypeOK, Draft
  <1>6. DraftTrue(v)'
    BY <1>1, <1>2, <1>3, <1>4, <1>5 DEF TransactionTrue, DraftTrue, VersionTrue
  <1>7. TailTrue(v)'
    BY <1>1, <1>2, <1>3, <1>5 DEF TransactionTrue, TailTrue
  <1>8. OthersTrue(v)'
    BY <1>1, <1>3 DEF TransactionTrue, OthersTrue, Superseding
  <1>9. QED
    BY <1>6, <1>7, <1>8 DEF TransactionTrue

(* What holds of the committed tables holds while they are left alone. *)
LEMMA TablesKeep ==
  ASSUME TypeOK, Numbered, LastRow, ReportsLinear, GraphChained,
         UNCHANGED tables, nextRow' \in {nextRow, nextRow + 1}
  PROVE  Numbered' /\ LastRow' /\ ReportsLinear' /\ GraphChained'
  <1>1. reports' = reports /\ ledger' = ledger
    BY DEF tables
  <1>2. Numbered'
    BY <1>1 DEF TypeOK, Numbered, Report, LedgerRow, RowIds
  <1>3. LastRow' /\ ReportsLinear' /\ GraphChained'
    BY <1>1 DEF LastRow, ReportsLinear, GraphChained, VersionsOf
  <1>4. QED
    BY <1>2, <1>3

(* One lemma per statement.  Begin: nothing is read yet. *)
LEMMA BeginKeeps ==
  ASSUME PersistInv, NEW w \in Writers,
         NEW g \in Graphs, NEW k \in Keys \cup {None}, Begin(w, g, k)
  PROVE  PersistInv'
  <1> USE DEF PersistInv, Begin, Goto, tables, locks
  <1>0. PICK r \in Runs : draft' = [draft EXCEPT ![w].next = r]
    OBVIOUS
  <1>1. TypeOK'
    <2>1. draft' \in [Writers -> Draft]
      BY <1>0, DraftField DEF TypeOK
    <2>2. QED
      BY <2>1, PersistAssumption DEF TypeOK
  <1>2. JobsMatch' /\ RunsHeld' /\ RowsHeld' /\ TailsHeld'
    <2>1. \A v \in Writers : draft'[v].scored = draft[v].scored
                             /\ draft'[v].others = draft[v].others
      BY <1>0 DEF TypeOK, Draft
    <2>2. draft'[w].next = r
      BY <1>0 DEF TypeOK, Draft
    <2>3. RunsHeld'
      BY <1>0, <2>1, <2>2, PersistAssumption DEF TypeOK, JobsMatch, RunsHeld, Holding, NoJob
    <2>4. RowsHeld'
      BY <2>1 DEF TypeOK, RowsHeld, Holding, Upserted, Blaming, Incident
    <2>5. JobsMatch' /\ TailsHeld'
      BY DEF TypeOK, JobsMatch, TailsHeld, Classifying, Locked, TailRead, Blaming
    <2>6. QED
      BY <2>3, <2>4, <2>5
  <1>3. TransactionTrue(w)'
    BY DEF TransactionTrue, DraftTrue, VersionTrue, TailTrue, OthersTrue, Superseding, TypeOK,
       Incident, Blaming, VersionsOf, Upserted, Flipped, Versioned, Holding, TailRead, Appended,
       Locked
  <1>4. \A v \in Writers : TransactionTrue(v)'
    BY <1>3, OthersKeep DEF TypeOK
  <1>5. Numbered' /\ LastRow' /\ ReportsLinear' /\ GraphChained'
    BY TablesKeep
  <1>6. EnoughIds'
    <2>1. EarlyWriters' = EarlyWriters \cup {w}
      BY DEF EarlyWriters, Early, TypeOK
    <2>2. IsFiniteSet(EarlyWriters) /\ w \notin EarlyWriters
      BY DEF EarlyWriters, Early, EnoughIds
    <2>3. /\ IsFiniteSet(EarlyWriters')
          /\ Cardinality(EarlyWriters') = Cardinality(EarlyWriters) + 1
          /\ Cardinality(EarlyWriters) \in Nat
      BY <2>1, <2>2, FS_AddElement, FS_CardinalityType
    <2>4. QED
      BY <2>3 DEF EnoughIds, TypeOK
  <1>7. QED
    BY <1>1, <1>2, <1>4, <1>5, <1>6

(* UPDATE agent_runs: one row more, and after the last one the incident. *)
LEMMA ScoresKeeps ==
  ASSUME PersistInv, NEW w \in Writers,
         Scores(w)
  PROVE  PersistInv'
  <1> USE DEF PersistInv
  <1> DEFINE row == <<job[w].graph, draft[w].next>>
             scored == draft[w].scored \cup {draft[w].next}
  <1>1. PICK there \in {"scores", "stale", "upsert"}, r \in Runs \cup {None} :
          /\ at' = [at EXCEPT ![w] = there]
          /\ draft' = [draft EXCEPT ![w].scored = scored, ![w].next = r]
          /\ there = "scores" => r \in Runs
          /\ there # "scores" => Runs \subseteq scored
          /\ there = "upsert" <=> (Blaming(w) /\ there # "scores")
    <2>1. CASE \E r \in Runs \ scored :
                 /\ draft' = [draft EXCEPT ![w].scored = scored, ![w].next = r]
                 /\ UNCHANGED at
      <3>1. at' = [at EXCEPT ![w] = "scores"]
        BY <2>1 DEF Scores, TypeOK
      <3>2. QED
        BY <2>1, <3>1
    <2>2. CASE /\ Runs \subseteq scored
               /\ draft' = [draft EXCEPT ![w].scored = scored, ![w].next = None]
               /\ at' = [at EXCEPT ![w] = ToClassify(w)]
      BY <2>2 DEF ToClassify, Blaming
    <2>3. QED
      BY <2>1, <2>2 DEF Scores
  <1>2. /\ at[w] = "scores" /\ job[w].graph \in Graphs /\ draft[w].next \in Runs
        /\ scored \subseteq Runs /\ row \in AgentRuns
        /\ runLock[row] \in {None, w} /\ runLock' = [runLock EXCEPT ![row] = w]
        /\ UNCHANGED <<status, reports, ledger, nextRow, job, rowLock, tailLock, begun, patches, late>>
    BY DEF Scores, Free, tables, JobsMatch, RunsHeld, TypeOK, Draft, AgentRuns
  <1>3. draft' \in [Writers -> Draft]
    <2>1. draft' = [draft EXCEPT ![w] = [draft[w] EXCEPT !.scored = scored, !.next = r]]
      BY <1>1
    <2>2. [draft[w] EXCEPT !.scored = scored, !.next = r] \in Draft
      BY <1>2, DraftField DEF TypeOK
    <2>3. QED
      BY <2>1, <2>2 DEF TypeOK
  <1>4. /\ \A v \in Writers \ {w} : draft'[v] = draft[v]
        /\ draft'[w].scored = scored /\ draft'[w].next = r
        /\ draft'[w].others = draft[w].others
    BY <1>1 DEF TypeOK, Draft
  <1> HIDE DEF row, scored
  <1>5. TypeOK'
    BY <1>1, <1>2, <1>3 DEF TypeOK
  <1>6. JobsMatch'
    BY <1>1, <1>2 DEF TypeOK, JobsMatch, Classifying, Blaming
  <1>7. RunsHeld'
    <2>1. ASSUME NEW v \in Writers, NEW g \in Graphs, NEW x \in Runs
          PROVE  runLock'[<<g, x>>] = v <=> job[v].graph = g /\ x \in draft'[v].scored
      <3>0. runLock[<<g, x>>] = v <=> job[v].graph = g /\ x \in draft[v].scored
        BY DEF RunsHeld
      <3>1. CASE <<g, x>> = row
        <4>1. g = job[w].graph /\ x = draft[w].next /\ runLock'[<<g, x>>] = w
          BY <1>2, <3>1 DEF row, TypeOK
        <4>2. CASE v = w
          BY <1>4, <4>1, <4>2 DEF scored
        <4>3. CASE v # w
          BY <1>2, <1>4, <3>0, <3>1, <4>1, <4>3, PersistAssumption
        <4>4. QED
          BY <4>2, <4>3
      <3>2. CASE <<g, x>> # row
        <4>1. runLock'[<<g, x>>] = runLock[<<g, x>>]
          BY <1>2, <3>2 DEF AgentRuns, TypeOK
        <4>2. v = w /\ job[v].graph = g => x # draft[w].next
          BY <3>2 DEF row
        <4>3. QED
          BY <1>4, <3>0, <4>1, <4>2 DEF scored
      <3>3. QED
        BY <3>1, <3>2
    <2>2. ASSUME NEW v \in Writers
          PROVE  /\ at'[v] = "idle" => draft'[v].scored = {}
                 /\ at'[v] = "scores" => draft'[v].next \in Runs
                 /\ at'[v] \in Holding => draft'[v].scored = Runs
      <3>1. CASE v = w
        <4>1. at'[w] = there /\ (there = "scores" \/ Runs \subseteq scored)
          BY <1>1 DEF TypeOK
        <4>2. QED
          BY <1>1, <1>2, <1>4, <3>1, <4>1 DEF Holding
      <3>2. CASE v # w
        <4>1. at'[v] = at[v] /\ draft'[v] = draft[v]
          BY <1>1, <1>4, <3>2 DEF TypeOK
        <4>2. QED
          BY <4>1 DEF RunsHeld
      <3>3. QED
        BY <3>1, <3>2
    <2>3. QED
      BY <1>2, <2>1, <2>2 DEF RunsHeld
  <1>8. RowsHeld' /\ TailsHeld'
    <2>1. \A v \in Writers : /\ Blaming(v)' <=> Blaming(v)
                             /\ Incident(v)' = Incident(v)
      BY <1>2 DEF Blaming, Incident
    <2>2. /\ at'[w] = there
          /\ \A v \in Writers \ {w} : at'[v] = at[v]
      BY <1>1 DEF TypeOK
    <2>3. there = "stale" => ~ Blaming(w)
      BY <1>1
    <2>4. RowsHeld'
      BY <1>2, <1>4, <2>1, <2>2, <2>3 DEF RowsHeld, Holding, Upserted
    <2>5. TailsHeld'
      BY <1>2, <2>2 DEF TailsHeld, Locked, TailRead
    <2>6. QED
      BY <2>4, <2>5
  <1>9. TransactionTrue(w)'
    <2>1. at'[w] = there /\ (Blaming(w)' <=> Blaming(w))
      BY <1>1, <1>2 DEF TypeOK, Blaming
    <2>2. Blaming(w)' => at'[w] \in {"scores", "upsert"}
      BY <1>1, <2>1
    <2>3. DraftTrue(w)' /\ TailTrue(w)'
      BY <2>2 DEF DraftTrue, VersionTrue, TailTrue, Upserted, Flipped, Versioned, Holding,
         TailRead, Appended, Locked
    <2>4. OthersTrue(w)'
      BY <1>2, <2>1 DEF TransactionTrue, OthersTrue, Superseding
    <2>5. QED
      BY <2>3, <2>4 DEF TransactionTrue
  <1>10. \A v \in Writers : TransactionTrue(v)'
    BY <1>1, <1>2, <1>4, <1>9, OthersKeep DEF TypeOK, tables
  <1>11. Numbered' /\ LastRow' /\ ReportsLinear' /\ GraphChained'
    BY <1>2, TablesKeep DEF tables
  <1>12. EnoughIds'
    BY <1>1, <1>2, EarlyStays, EarlyLeaves DEF Early
  <1>13. QED
    BY <1>5, <1>6, <1>7, <1>8, <1>10, <1>11, <1>12

(* INSERT INTO incidents: the row, and the status it will have. *)
LEMMA UpsertKeeps ==
  ASSUME PersistInv, NEW w \in Writers,
         Upsert(w)
  PROVE  PersistInv'
  <1> USE DEF PersistInv, Upsert, Free, Goto, tables, locks
  <1>0. /\ at[w] = "upsert" /\ at'[w] = "flip" /\ Blaming(w) /\ Blaming(w)'
        /\ Incident(w) \in Incidents /\ Incident(w)' = Incident(w)
        /\ VersionsOf(Incident(w))' = VersionsOf(Incident(w))
    BY IncidentOf DEF TypeOK, JobsMatch, Classifying, Blaming, Incident, VersionsOf
  <1>1. TypeOK'
    <2>1. Reopened(status[Incident(w)]) \in Statuses
      BY <1>0 DEF TypeOK, Reopened, Statuses, Live
    <2>2. [draft[w] EXCEPT !.incident = Reopened(status[Incident(w)])] \in Draft
      BY <2>1, DraftField DEF TypeOK
    <2>3. draft' \in [Writers -> Draft]
      BY <2>2 DEF TypeOK
    <2>4. QED
      BY <1>0, <2>3 DEF TypeOK
  <1>2. JobsMatch' /\ RunsHeld' /\ RowsHeld' /\ TailsHeld'
    <2>1. JobsMatch' /\ RunsHeld' /\ TailsHeld'
      BY <1>0, PersistAssumption DEF TypeOK, Draft, JobsMatch, RunsHeld, TailsHeld, Holding,
         Classifying, Locked, TailRead, Blaming
    <2>2. RowsHeld'
      <3>1. \A v \in Writers : draft'[v].others = draft[v].others
        BY DEF TypeOK, Draft
      <3>2. \A v \in Writers : /\ Blaming(v)' <=> Blaming(v)
                               /\ Incident(v)' = Incident(v)
        BY DEF Blaming, Incident
      <3>3. /\ at'[w] = "flip"
            /\ \A v \in Writers \ {w} : at'[v] = at[v]
        BY DEF TypeOK
      <3>4. /\ rowLock'[Incident(w)] = w
            /\ \A i \in Incidents : i # Incident(w) => rowLock'[i] = rowLock[i]
            /\ \A v \in Writers, i \in Incidents : rowLock[i] = v => rowLock'[i] = v
        BY <1>0, PersistAssumption DEF TypeOK
      <3>5. ASSUME NEW v \in Writers, Blaming(v), at'[v] \in Upserted
            PROVE  rowLock'[Incident(v)] = v
        <4>1. CASE v = w
          BY <3>4, <4>1
        <4>2. CASE v # w
          <5>1. at[v] \in Upserted
            BY <3>3, <3>5, <4>2
          <5>2. Incident(v) \in Incidents /\ rowLock[Incident(v)] = v
            BY <3>5, <5>1, IncidentOf DEF RowsHeld, Upserted, Holding
          <5>3. QED
            BY <3>4, <5>2
        <4>3. QED
          BY <4>1, <4>2
      <3>6. ASSUME NEW v \in Writers, at'[v] = "commit", NEW i \in draft'[v].others
            PROVE  rowLock'[i] = v
        <4>1. at[v] = "commit" /\ i \in draft[v].others
          BY <3>1, <3>3, <3>6
        <4>2. i \in Incidents /\ rowLock[i] = v
          BY <4>1 DEF RowsHeld, TransactionTrue, OthersTrue, Superseding
        <4>3. QED
          BY <3>4, <4>2
      <3>7. ASSUME NEW v \in Writers, NEW i \in Incidents, rowLock'[i] = v
            PROVE  at'[v] \in Holding /\ job'[v].graph = i[1]
        <4>1. CASE i = Incident(w)
          BY <1>0, <3>3, <3>4, <3>7, <4>1, IncidentOf DEF Holding
        <4>2. CASE i # Incident(w)
          BY <3>3, <3>4, <3>7, <4>2 DEF RowsHeld, Holding
        <4>3. QED
          BY <4>1, <4>2
      <3>8. QED
        BY <3>2, <3>5, <3>6, <3>7 DEF RowsHeld
    <2>3. QED
      BY <2>1, <2>2
  <1>3. TransactionTrue(w)'
    BY <1>0 DEF TransactionTrue, DraftTrue, VersionTrue, TailTrue, OthersTrue, Superseding, TypeOK,
       Upserted, Flipped, Versioned, Holding, TailRead, Appended,
       Locked
  <1>4. \A v \in Writers : TransactionTrue(v)'
    BY <1>3, OthersKeep DEF TypeOK
  <1>5. Numbered' /\ LastRow' /\ ReportsLinear' /\ GraphChained'
    BY TablesKeep
  <1>6. EnoughIds'
    BY EarlyStays DEF Early
  <1>7. QED
    BY <1>1, <1>2, <1>4, <1>5, <1>6

(* SET is_latest = false: in the draft only. *)
LEMMA FlipLatestKeeps ==
  ASSUME PersistInv, NEW w \in Writers,
         FlipLatest(w)
  PROVE  PersistInv'
  <1> USE DEF PersistInv, FlipLatest, Goto, tables, locks
  <1>0. /\ at[w] = "flip" /\ at'[w] = "version" /\ Blaming(w) /\ Blaming(w)'
        /\ Incident(w) \in Incidents /\ Incident(w)' = Incident(w)
        /\ VersionsOf(Incident(w))' = VersionsOf(Incident(w))
    BY IncidentOf DEF TypeOK, JobsMatch, Classifying, Blaming, Incident, VersionsOf
  <1>1. TypeOK'
    <2>1. draft' \in [Writers -> Draft]
      BY DraftField DEF TypeOK
    <2>2. QED
      BY <2>1 DEF TypeOK
  <1>2. JobsMatch' /\ RunsHeld' /\ RowsHeld' /\ TailsHeld'
    <2>1. /\ \A v \in Writers : /\ draft'[v].scored = draft[v].scored
                                 /\ draft'[v].next = draft[v].next
          /\ \A v \in Writers \ {w} : draft'[v].others = draft[v].others
      BY <1>0 DEF TypeOK, Draft
    <2>2. JobsMatch' /\ RunsHeld' /\ RowsHeld'
      BY <1>0, <2>1, HeldKeep DEF Holding, Upserted, Classifying
    <2>3. TailsHeld'
      BY <1>0, PersistAssumption DEF TypeOK, TailsHeld, Locked, TailRead
    <2>4. QED
      BY <2>2, <2>3
  <1>3. TransactionTrue(w)'
    BY <1>0 DEF TransactionTrue, DraftTrue, VersionTrue, TailTrue, OthersTrue, Superseding, TypeOK,
       Upserted, Flipped, Versioned, Holding, TailRead, Appended,
       Locked
  <1>4. \A v \in Writers : TransactionTrue(v)'
    BY <1>3, OthersKeep DEF TypeOK
  <1>5. Numbered' /\ LastRow' /\ ReportsLinear' /\ GraphChained'
    BY TablesKeep
  <1>6. EnoughIds'
    BY EarlyStays DEF Early
  <1>7. QED
    BY <1>1, <1>2, <1>4, <1>5, <1>6

(* MAX(version) + 1: the versions are 1..n, so it is n + 1. *)
LEMMA NextVersionKeeps ==
  ASSUME PersistInv, NEW w \in Writers,
         NextVersion(w)
  PROVE  PersistInv'
  <1> USE DEF PersistInv
  <1>z. /\ at[w] = "version" /\ at' = [at EXCEPT ![w] = "report"]
        /\ UNCHANGED <<status, reports, ledger, nextRow, job, runLock, rowLock, tailLock, begun, patches, late>>
    BY DEF NextVersion, Goto, tables, locks
  <1>0. /\ at[w] = "version" /\ at'[w] = "report" /\ Blaming(w) /\ Blaming(w)'
        /\ Incident(w) \in Incidents /\ Incident(w)' = Incident(w)
        /\ VersionsOf(Incident(w))' = VersionsOf(Incident(w))
    BY <1>z, IncidentOf DEF TypeOK, JobsMatch, Classifying, Blaming, Incident, VersionsOf
  <1> DEFINE version == MaxOrZero(VersionsOf(Incident(w))) + 1
  <1>a. /\ version = Cardinality(VersionsOf(Incident(w))) + 1
        /\ version \in 0 .. MaxAnalyses /\ version <= nextRow
    <2> DEFINE n == Cardinality(VersionsOf(Incident(w)))
    <2>1. n \in Nat /\ VersionsOf(Incident(w)) = 1 .. n
      BY <1>0, VersionsFinite DEF ReportsLinear
    <2>2. version = n + 1
      BY <2>1, MaxOfInterval
    <2>3. nextRow \in Nat \ {0} /\ nextRow <= MaxAnalyses
      BY <1>0, IdLeft DEF TypeOK, Early
    <2>4. n # 0 => n < nextRow
      <3>1. SUFFICES ASSUME n # 0 PROVE n < nextRow
        BY <2>3
      <3>2. n \in VersionsOf(Incident(w))
        BY <2>1, <3>1
      <3>3. QED
        BY <3>2 DEF VersionsOf, Numbered
    <2>5. QED
      BY <2>1, <2>2, <2>3, <2>4, PersistAssumption
  <1>b. draft' = [draft EXCEPT ![w].version = version]
    BY DEF NextVersion
  <1> HIDE DEF version
  <1>1. TypeOK'
    <2>1. [draft[w] EXCEPT !.version = version] \in Draft
      BY <1>a, <1>b, PersistAssumption, DraftField DEF TypeOK
    <2>2. draft' = [draft EXCEPT ![w] = [draft[w] EXCEPT !.version = version]]
      BY <1>a, <1>b, PersistAssumption
    <2>3. draft' \in [Writers -> Draft]
      BY <2>1, <2>2 DEF TypeOK
    <2>4. QED
      BY <2>3, <1>z DEF TypeOK
  <1>2. JobsMatch' /\ RunsHeld' /\ RowsHeld' /\ TailsHeld'
    <2>1. /\ \A v \in Writers : /\ draft'[v].scored = draft[v].scored
                                 /\ draft'[v].next = draft[v].next
          /\ \A v \in Writers \ {w} : draft'[v].others = draft[v].others
      BY <1>z, <1>0, <1>b DEF TypeOK, Draft
    <2>2. JobsMatch' /\ RunsHeld' /\ RowsHeld'
      BY <1>z, <1>0, <1>b, <2>1, HeldKeep DEF Holding, Upserted, Classifying
    <2>3. TailsHeld'
      BY <1>z, <1>0, <1>b, PersistAssumption DEF TypeOK, TailsHeld, Locked, TailRead
    <2>4. QED
      BY <2>2, <2>3
  <1>3. TransactionTrue(w)'
    BY <1>0, <1>z, <1>a, <1>b DEF TransactionTrue, DraftTrue, VersionTrue, TailTrue, OthersTrue, Superseding, TypeOK,
       Upserted, Flipped, Versioned, Holding, TailRead, Appended,
       Locked
  <1>4. \A v \in Writers : TransactionTrue(v)'
    BY <1>3, <1>z, <1>b, OthersKeep DEF TypeOK, tables
  <1>5. Numbered' /\ LastRow' /\ ReportsLinear' /\ GraphChained'
    BY <1>z, TablesKeep DEF tables
  <1>6. EnoughIds'
    BY <1>z, EarlyStays DEF Early
  <1>7. QED
    BY <1>1, <1>2, <1>4, <1>5, <1>6

(* INSERT INTO blame_reports: in the draft only. *)
LEMMA InsertReportKeeps ==
  ASSUME PersistInv, NEW w \in Writers,
         InsertReport(w)
  PROVE  PersistInv'
  <1> USE DEF PersistInv, InsertReport, Goto, tables, locks
  <1>0. /\ at[w] = "report" /\ at'[w] = "tail" /\ Blaming(w) /\ Blaming(w)'
        /\ Incident(w) \in Incidents /\ Incident(w)' = Incident(w)
        /\ VersionsOf(Incident(w))' = VersionsOf(Incident(w))
    BY IncidentOf DEF TypeOK, JobsMatch, Classifying, Blaming, Incident, VersionsOf
  <1>1. TypeOK'
    BY PersistAssumption DEF TypeOK, Draft
  <1>2. JobsMatch' /\ RunsHeld' /\ RowsHeld' /\ TailsHeld'
    <2>1. /\ \A v \in Writers : /\ draft'[v].scored = draft[v].scored
                                 /\ draft'[v].next = draft[v].next
          /\ \A v \in Writers \ {w} : draft'[v].others = draft[v].others
      BY <1>0 DEF TypeOK, Draft
    <2>2. JobsMatch' /\ RunsHeld' /\ RowsHeld'
      BY <1>0, <2>1, HeldKeep DEF Holding, Upserted, Classifying
    <2>3. TailsHeld'
      BY <1>0, PersistAssumption DEF TypeOK, TailsHeld, Locked, TailRead
    <2>4. QED
      BY <2>2, <2>3
  <1>3. TransactionTrue(w)'
    BY <1>0 DEF TransactionTrue, DraftTrue, VersionTrue, TailTrue, OthersTrue, Superseding, TypeOK,
       Upserted, Flipped, Versioned, Holding, TailRead, Appended,
       Locked
  <1>4. \A v \in Writers : TransactionTrue(v)'
    BY <1>3, OthersKeep DEF TypeOK
  <1>5. Numbered' /\ LastRow' /\ ReportsLinear' /\ GraphChained'
    BY TablesKeep
  <1>6. EnoughIds'
    BY EarlyStays DEF Early
  <1>7. QED
    BY <1>1, <1>2, <1>4, <1>5, <1>6

(* SELECT .. LIMIT 1: the last committed row of all graphs. *)
LEMMA LedgerTailKeeps ==
  ASSUME PersistInv, NEW w \in Writers,
         LedgerTail(w)
  PROVE  PersistInv'
  <1> USE DEF PersistInv
  <1>z. /\ at[w] = "tail" /\ at' = [at EXCEPT ![w] = "lock"]
        /\ UNCHANGED <<status, reports, ledger, nextRow, job, runLock, rowLock, tailLock, begun, patches, late>>
    BY DEF LedgerTail, Goto, tables, locks
  <1>0. /\ at[w] = "tail" /\ at'[w] = "lock" /\ Blaming(w) /\ Blaming(w)'
        /\ Incident(w) \in Incidents /\ Incident(w)' = Incident(w)
        /\ VersionsOf(Incident(w))' = VersionsOf(Incident(w))
    BY <1>z, IncidentOf DEF TypeOK, JobsMatch, Classifying, Blaming, Incident, VersionsOf
  <1> DEFINE tail == MaxOrZero({r.id : r \in ledger})
  <1>a. /\ tail \in 0 .. MaxAnalyses /\ tail < nextRow
        /\ tail # 0 => \E r \in ledger : r.id = tail
        /\ \A r \in ledger : r.id <= tail
    BY TailOfLedger
  <1>b. draft' = [draft EXCEPT ![w].tail = tail]
    BY DEF LedgerTail
  <1> HIDE DEF tail
  <1>1. TypeOK'
    <2>1. [draft[w] EXCEPT !.tail = tail] \in Draft
      BY <1>a, <1>b, PersistAssumption, DraftField DEF TypeOK
    <2>2. draft' = [draft EXCEPT ![w] = [draft[w] EXCEPT !.tail = tail]]
      BY <1>a, <1>b, PersistAssumption
    <2>3. draft' \in [Writers -> Draft]
      BY <2>1, <2>2 DEF TypeOK
    <2>4. QED
      BY <2>3, <1>z DEF TypeOK
  <1>2. JobsMatch' /\ RunsHeld' /\ RowsHeld' /\ TailsHeld'
    <2>1. /\ \A v \in Writers : /\ draft'[v].scored = draft[v].scored
                                 /\ draft'[v].next = draft[v].next
          /\ \A v \in Writers \ {w} : draft'[v].others = draft[v].others
      BY <1>z, <1>0, <1>b DEF TypeOK, Draft
    <2>2. JobsMatch' /\ RunsHeld' /\ RowsHeld'
      BY <1>z, <1>0, <1>b, <2>1, HeldKeep DEF Holding, Upserted, Classifying
    <2>3. TailsHeld'
      BY <1>z, <1>0, <1>b, PersistAssumption DEF TypeOK, TailsHeld, Locked, TailRead
    <2>4. QED
      BY <2>2, <2>3
  <1>3. TransactionTrue(w)'
    BY <1>0, <1>z, <1>a, <1>b DEF TransactionTrue, DraftTrue, VersionTrue, TailTrue, OthersTrue, Superseding, TypeOK,
       Upserted, Flipped, Versioned, Holding, TailRead, Appended,
       Locked
  <1>4. \A v \in Writers : TransactionTrue(v)'
    BY <1>3, <1>z, <1>b, OthersKeep DEF TypeOK, tables
  <1>5. Numbered' /\ LastRow' /\ ReportsLinear' /\ GraphChained'
    BY <1>z, TablesKeep DEF tables
  <1>6. EnoughIds'
    BY <1>z, EarlyStays DEF Early
  <1>7. QED
    BY <1>1, <1>2, <1>4, <1>5, <1>6

(* .. FOR UPDATE: the lock on that row. *)
LEMMA LedgerLockKeeps ==
  ASSUME PersistInv, NEW w \in Writers,
         LedgerLock(w)
  PROVE  PersistInv'
  <1> USE DEF PersistInv, LedgerLock, Goto, tables, locks
  <1>0. /\ at[w] = "lock" /\ at'[w] = "append" /\ Blaming(w) /\ Blaming(w)'
        /\ Incident(w) \in Incidents /\ Incident(w)' = Incident(w)
        /\ VersionsOf(Incident(w))' = VersionsOf(Incident(w))
    BY IncidentOf DEF TypeOK, JobsMatch, Classifying, Blaming, Incident, VersionsOf
  <1>1. TypeOK'
    BY PersistAssumption DEF TypeOK, Draft
  <1>2. JobsMatch' /\ RunsHeld' /\ RowsHeld' /\ TailsHeld'
    <2>1. /\ \A v \in Writers : /\ draft'[v].scored = draft[v].scored
                                 /\ draft'[v].next = draft[v].next
          /\ \A v \in Writers \ {w} : draft'[v].others = draft[v].others
      BY <1>0 DEF TypeOK, Draft
    <2>2. JobsMatch' /\ RunsHeld' /\ RowsHeld'
      BY <1>0, <2>1, HeldKeep DEF Holding, Upserted, Classifying
    <2>3. TailsHeld'
      BY <1>0, PersistAssumption DEF TypeOK, TailsHeld, Locked, TailRead
    <2>4. QED
      BY <2>2, <2>3
  <1>3. TransactionTrue(w)'
    BY <1>0 DEF TransactionTrue, DraftTrue, VersionTrue, TailTrue, OthersTrue, Superseding, TypeOK,
       Upserted, Flipped, Versioned, Holding, TailRead, Appended,
       Locked
  <1>4. \A v \in Writers : TransactionTrue(v)'
    BY <1>3, OthersKeep DEF TypeOK
  <1>5. Numbered' /\ LastRow' /\ ReportsLinear' /\ GraphChained'
    BY TablesKeep
  <1>6. EnoughIds'
    BY EarlyStays DEF Early
  <1>7. QED
    BY <1>1, <1>2, <1>4, <1>5, <1>6

(* INSERT INTO evidence_ledger: the id comes after the tail. *)
LEMMA LedgerAppendKeeps ==
  ASSUME PersistInv, NEW w \in Writers,
         LedgerAppend(w)
  PROVE  PersistInv'
  <1> USE DEF PersistInv, LedgerAppend, Goto, tables, locks
  <1>0. /\ at[w] = "append" /\ at'[w] = "stale" /\ Blaming(w) /\ Blaming(w)'
        /\ Incident(w) \in Incidents /\ Incident(w)' = Incident(w)
        /\ VersionsOf(Incident(w))' = VersionsOf(Incident(w))
    BY IncidentOf DEF TypeOK, JobsMatch, Classifying, Blaming, Incident, VersionsOf
  <1>a. nextRow \in 0 .. MaxAnalyses
    BY <1>0, IdLeft DEF TypeOK, Early
  <1>1. TypeOK'
    <2>1. [draft[w] EXCEPT !.row = nextRow] \in Draft
      BY <1>a, PersistAssumption, DraftField DEF TypeOK
    <2>2. draft' = [draft EXCEPT ![w] = [draft[w] EXCEPT !.row = nextRow]]
      BY <1>a, PersistAssumption
    <2>3. draft' \in [Writers -> Draft]
      BY <2>1, <2>2 DEF TypeOK
    <2>4. QED
      BY <2>3, <1>a, PersistAssumption DEF TypeOK
  <1>2. JobsMatch' /\ RunsHeld' /\ RowsHeld' /\ TailsHeld'
    <2>1. /\ \A v \in Writers : /\ draft'[v].scored = draft[v].scored
                                 /\ draft'[v].next = draft[v].next
          /\ \A v \in Writers \ {w} : draft'[v].others = draft[v].others
      BY <1>0 DEF TypeOK, Draft
    <2>2. JobsMatch' /\ RunsHeld' /\ RowsHeld'
      BY <1>0, <2>1, HeldKeep DEF Holding, Upserted, Classifying
    <2>3. TailsHeld'
      BY <1>0, PersistAssumption DEF TypeOK, TailsHeld, Locked, TailRead
    <2>4. QED
      BY <2>2, <2>3
  <1>3. TransactionTrue(w)'
    BY <1>0, <1>a DEF TransactionTrue, DraftTrue, VersionTrue, TailTrue, OthersTrue, Superseding, TypeOK, Draft,
       Upserted, Flipped, Versioned, Holding, TailRead, Appended,
       Locked
  <1>4. \A v \in Writers : TransactionTrue(v)'
    BY <1>3, OthersKeep DEF TypeOK
  <1>5. Numbered' /\ LastRow' /\ ReportsLinear' /\ GraphChained'
    BY TablesKeep
  <1>6. EnoughIds'
    BY EarlyLeaves DEF Early
  <1>7. QED
    BY <1>1, <1>2, <1>4, <1>5, <1>6

(* The other live incidents of the graph, chosen .. *)
LEMMA ChooseStaleKeeps ==
  ASSUME PersistInv, NEW w \in Writers,
         ChooseStale(w)
  PROVE  PersistInv'
  <1> USE DEF PersistInv, ChooseStale, Goto, tables, locks
  <1>0. /\ at[w] = "stale" /\ at'[w] = "supersede" /\ (Blaming(w)' <=> Blaming(w))
        /\ Incident(w)' = Incident(w)
        /\ VersionsOf(Incident(w))' = VersionsOf(Incident(w))
    BY DEF TypeOK, Blaming, Incident, VersionsOf
  <1>1. TypeOK'
    <2>1. draft' \in [Writers -> Draft]
      BY DraftField DEF TypeOK
    <2>2. QED
      BY <2>1 DEF TypeOK
  <1>2. JobsMatch' /\ RunsHeld' /\ RowsHeld' /\ TailsHeld'
    <2>1. /\ \A v \in Writers : /\ draft'[v].scored = draft[v].scored
                                 /\ draft'[v].next = draft[v].next
          /\ \A v \in Writers \ {w} : draft'[v].others = draft[v].others
      BY <1>0 DEF TypeOK, Draft
    <2>2. JobsMatch' /\ RunsHeld' /\ RowsHeld'
      BY <1>0, <2>1, HeldKeep DEF Holding, Upserted, Classifying
    <2>3. TailsHeld'
      BY <1>0, PersistAssumption DEF TypeOK, TailsHeld, Locked, TailRead
    <2>4. QED
      BY <2>2, <2>3
  <1>3. TransactionTrue(w)'
    BY <1>0 DEF TransactionTrue, DraftTrue, VersionTrue, TailTrue, OthersTrue, Superseding, TypeOK,
       Upserted, Flipped, Versioned, Holding, TailRead, Appended,
       Locked
  <1>4. \A v \in Writers : TransactionTrue(v)'
    BY <1>3, OthersKeep DEF TypeOK
  <1>5. Numbered' /\ LastRow' /\ ReportsLinear' /\ GraphChained'
    BY TablesKeep
  <1>6. EnoughIds'
    BY EarlyLeaves DEF Early
  <1>7. QED
    BY <1>1, <1>2, <1>4, <1>5, <1>6

(* .. and those still live when their rows are locked. *)
LEMMA SupersedeKeeps ==
  ASSUME PersistInv, NEW w \in Writers,
         Supersede(w)
  PROVE  PersistInv'
  <1> USE DEF PersistInv
  <1> DEFINE still == {i \in draft[w].others : status[i] \in Live}
  <1>0. /\ at[w] = "supersede" /\ at' = [at EXCEPT ![w] = "commit"]
        /\ draft' = [draft EXCEPT ![w].others = still]
        /\ rowLock' = [i \in Incidents |-> IF i \in still THEN w ELSE rowLock[i]]
        /\ \A i \in still : rowLock[i] \in {None, w}
        /\ UNCHANGED <<status, reports, ledger, nextRow, job, runLock, tailLock, begun, patches, late>>
    BY DEF Supersede, Free, Goto, tables
  <1>a. /\ still \subseteq Incidents
        /\ \A i \in still : /\ i[1] = job[w].graph /\ i # Incident(w)
                             /\ i \in draft[w].others /\ status[i] \in Live
        /\ \A i \in draft[w].others : status[i] \in Live => i \in still
    BY <1>0 DEF TransactionTrue, OthersTrue, Superseding
  <1> HIDE DEF still
  <1>b. /\ \A v \in Writers : /\ draft'[v].scored = draft[v].scored
                               /\ draft'[v].next = draft[v].next
        /\ \A v \in Writers \ {w} : draft'[v] = draft[v] /\ at'[v] = at[v]
        /\ draft'[w].others = still /\ at'[w] = "commit"
    BY <1>0 DEF TypeOK, Draft
  <1>1. TypeOK'
    <2>1. [draft[w] EXCEPT !.others = still] \in Draft
      BY <1>a, DraftField DEF TypeOK
    <2>2. draft' = [draft EXCEPT ![w] = [draft[w] EXCEPT !.others = still]]
      BY <1>0
    <2>3. draft' \in [Writers -> Draft]
      BY <2>1, <2>2 DEF TypeOK
    <2>4. rowLock' \in [Incidents -> Writers \cup {None}]
      BY <1>0 DEF TypeOK
    <2>5. QED
      BY <1>0, <2>3, <2>4 DEF TypeOK
  <1>2. JobsMatch' /\ RunsHeld' /\ RowsHeld' /\ TailsHeld'
    <2>1. JobsMatch' /\ TailsHeld'
      BY <1>0, <1>b, PersistAssumption DEF TypeOK, JobsMatch, TailsHeld, Holding,
         Classifying, Locked, TailRead, Blaming
    <2>2. RunsHeld'
      BY <1>0, <1>b DEF RunsHeld, Holding
    <2>3. RowsHeld'
      <3>1. \A v \in Writers, i \in Incidents : rowLock[i] = v => rowLock'[i] = v
        BY <1>0, PersistAssumption
      <3>2. ASSUME NEW v \in Writers, Blaming(v)', at'[v] \in Upserted
            PROVE  rowLock'[Incident(v)'] = v
        <4>1. Blaming(v) /\ at[v] \in Upserted /\ Incident(v)' = Incident(v)
          BY <1>0, <1>b, <3>2 DEF Blaming, Incident, Upserted, Holding
        <4>2. Incident(v) \in Incidents /\ rowLock[Incident(v)] = v
          BY <4>1, IncidentOf DEF RowsHeld, Upserted, Holding
        <4>3. QED
          BY <3>1, <4>1, <4>2
      <3>3. ASSUME NEW v \in Writers, at'[v] = "commit", NEW i \in draft'[v].others
            PROVE  rowLock'[i] = v
        <4>1. CASE v = w
          BY <1>0, <1>a, <1>b, <3>3, <4>1
        <4>2. CASE v # w
          <5>1. i \in Incidents /\ rowLock[i] = v
            BY <1>b, <3>3, <4>2 DEF RowsHeld, TransactionTrue, OthersTrue, Superseding
          <5>2. QED
            BY <3>1, <5>1
        <4>3. QED
          BY <4>1, <4>2
      <3>4. ASSUME NEW v \in Writers, NEW i \in Incidents, rowLock'[i] = v
            PROVE  at'[v] \in Holding /\ job'[v].graph = i[1]
        <4>1. CASE i \in still
          BY <1>0, <1>a, <1>b, <3>4, <4>1 DEF Holding
        <4>2. CASE i \notin still
          BY <1>0, <1>b, <3>4, <4>2 DEF RowsHeld, Holding
        <4>3. QED
          BY <4>1, <4>2
      <3>5. QED
        BY <3>2, <3>3, <3>4 DEF RowsHeld
    <2>4. QED
      BY <2>1, <2>2, <2>3
  <1>3. TransactionTrue(w)'
    <2>1. /\ Incident(w)' = Incident(w) /\ (Blaming(w)' <=> Blaming(w))
          /\ VersionsOf(Incident(w))' = VersionsOf(Incident(w))
      BY <1>0 DEF Blaming, Incident, VersionsOf
    <2>2. /\ draft'[w].incident = draft[w].incident /\ draft'[w].flipped = draft[w].flipped
          /\ draft'[w].version = draft[w].version /\ draft'[w].tail = draft[w].tail
          /\ draft'[w].row = draft[w].row
      BY <1>0 DEF TypeOK, Draft
    <2>3. DraftTrue(w)' /\ TailTrue(w)'
      BY <1>0, <1>b, <2>1, <2>2 DEF TransactionTrue, DraftTrue, VersionTrue, TailTrue,
         Upserted, Flipped, Versioned, Holding, TailRead, Appended, Locked
    <2>4. OthersTrue(w)'
      BY <1>0, <1>a, <1>b, <2>1 DEF TransactionTrue, OthersTrue, Superseding
    <2>5. QED
      BY <2>3, <2>4 DEF TransactionTrue
  <1>4. \A v \in Writers : TransactionTrue(v)'
    BY <1>0, <1>3, <1>b, OthersKeep DEF TypeOK, tables
  <1>5. Numbered' /\ LastRow' /\ ReportsLinear' /\ GraphChained'
    BY <1>0, TablesKeep DEF tables
  <1>6. EnoughIds'
    BY <1>0, EarlyLeaves DEF Early
  <1>7. QED
    BY <1>1, <1>2, <1>4, <1>5, <1>6

(* COMMIT and ROLLBACK release every lock of the transaction. *)
LEMMA FinishKeeps ==
  ASSUME PersistInv, NEW w \in Writers, at[w] # "idle", Finish(w)
  PROVE  /\ JobsMatch' /\ RunsHeld' /\ RowsHeld' /\ TailsHeld' /\ EnoughIds'
         /\ TransactionTrue(w)'
         /\ at' \in [Writers -> {"idle", "scores", "upsert", "flip", "version", "report",
                                 "tail", "lock", "append", "stale", "supersede", "commit"}]
         /\ draft' \in [Writers -> Draft]
         /\ late' \in [Writers -> SUBSET Incidents]
         /\ runLock' \in [AgentRuns -> Writers \cup {None}]
         /\ rowLock' \in [Incidents -> Writers \cup {None}]
         /\ tailLock' \in [RowIds -> Writers \cup {None}]
  <1> USE DEF PersistInv, Finish, Released
  <1>1. JobsMatch'
    BY DEF TypeOK, JobsMatch, Classifying, Blaming
  <1>2. RunsHeld'
    <2>1. \A v \in Writers, r \in AgentRuns : runLock'[r] = v <=> v # w /\ runLock[r] = v
      BY PersistAssumption DEF TypeOK
    <2>2. job'[w].graph = None /\ draft'[w].scored = {} /\ at'[w] = "idle"
      BY DEF TypeOK, NoJob, NoDraft
    <2>3. \A v \in Writers \ {w} : job'[v] = job[v] /\ draft'[v] = draft[v] /\ at'[v] = at[v]
      BY DEF TypeOK
    <2>4. \A g \in Graphs, r \in Runs : <<g, r>> \in AgentRuns
      BY DEF AgentRuns
    <2> HIDE DEF Finish, Released
    <2>5. QED
      BY <2>1, <2>2, <2>3, <2>4 DEF RunsHeld, Holding
  <1>3. RowsHeld'
    <2>1. \A v \in Writers, i \in Incidents : rowLock'[i] = v <=> v # w /\ rowLock[i] = v
      BY PersistAssumption DEF TypeOK
    <2>2. at'[w] = "idle"
      BY DEF TypeOK
    <2>3. \A v \in Writers \ {w} : job'[v] = job[v] /\ draft'[v] = draft[v] /\ at'[v] = at[v]
      BY DEF TypeOK
    <2> HIDE DEF Finish, Released
    <2>4. ASSUME NEW v \in Writers \ {w}, Blaming(v)', at'[v] \in Upserted
          PROVE  rowLock'[Incident(v)'] = v
      <3>1. Blaming(v) /\ at[v] \in Upserted /\ Incident(v)' = Incident(v)
        BY <2>3, <2>4 DEF Blaming, Incident
      <3>2. Incident(v) \in Incidents /\ rowLock[Incident(v)] = v
        BY <3>1, IncidentOf DEF RowsHeld, Upserted, Holding
      <3>3. QED
        BY <2>1, <3>1, <3>2
    <2>5. ASSUME NEW v \in Writers \ {w}, at'[v] = "commit", NEW i \in draft'[v].others
          PROVE  rowLock'[i] = v
      BY <2>1, <2>3, <2>5 DEF RowsHeld, TransactionTrue, OthersTrue, Superseding
    <2>6. QED
      BY <2>1, <2>2, <2>3, <2>4, <2>5 DEF RowsHeld, Holding, Upserted
  <1>4. TailsHeld'
    BY PersistAssumption DEF TypeOK, TailsHeld, Holding, Locked, TailRead
  <1>5. EnoughIds'
    BY EarlyLeaves DEF Early
  <1>6. TransactionTrue(w)'
    BY DEF TypeOK, TransactionTrue, DraftTrue, VersionTrue, TailTrue, OthersTrue, Superseding,
       Upserted, Flipped, Versioned, Holding, TailRead, Appended, Locked
  <1>7. NoDraft \in Draft
    BY PersistAssumption DEF NoDraft, Draft, Statuses
  <1>8. /\ at' \in [Writers -> {"idle", "scores", "upsert", "flip", "version", "report",
                                "tail", "lock", "append", "stale", "supersede", "commit"}]
        /\ draft' \in [Writers -> Draft]
        /\ late' \in [Writers -> SUBSET Incidents]
        /\ runLock' \in [AgentRuns -> Writers \cup {None}]
        /\ rowLock' \in [Incidents -> Writers \cup {None}]
        /\ tailLock' \in [RowIds -> Writers \cup {None}]
    BY <1>7 DEF TypeOK
  <1>9. QED
    BY <1>1, <1>2, <1>3, <1>4, <1>5, <1>6, <1>8

(* A rollback leaves nothing behind but the id it took. *)
LEMMA AbortKeeps ==
  ASSUME PersistInv, NEW w \in Writers, Abort(w)
  PROVE  PersistInv'
  <1> USE DEF PersistInv, Abort, tables
  <1>1. at[w] # "idle" /\ Finish(w)
    OBVIOUS
  <1>2. job' \in [Writers -> [graph : Graphs \cup {None}, key : Keys \cup {None}]]
    BY <1>1 DEF Finish, TypeOK, NoJob
  <1>3. TypeOK'
    BY <1>1, <1>2, FinishKeeps DEF TypeOK, Finish
  <1>4. \A v \in Writers : TransactionTrue(v)'
    BY <1>1, FinishKeeps, OthersKeep DEF Finish, TypeOK
  <1>5. Numbered' /\ LastRow' /\ ReportsLinear' /\ GraphChained'
    BY <1>1, TablesKeep DEF Finish
  <1>6. QED
    BY <1>1, <1>3, <1>4, <1>5, FinishKeeps

(* An operator changes an incident no open transaction has locked. *)
LEMMA PatchKeeps ==
  ASSUME PersistInv, NEW i \in Incidents, NEW s \in Live \cup {"resolved"}, Patch(i, s)
  PROVE  PersistInv'
  <1> USE DEF PersistInv, Patch, locks
  <1>1. TypeOK'
    BY PersistAssumption DEF TypeOK, Statuses, Live
  <1>2. JobsMatch' /\ RunsHeld' /\ RowsHeld' /\ TailsHeld' /\ EnoughIds'
    BY DEF JobsMatch, RunsHeld, RowsHeld, TailsHeld, EnoughIds, EarlyWriters, Blaming, Incident
  <1>3. ASSUME NEW v \in Writers PROVE TransactionTrue(v)'
    <2>1. \A j \in Incidents : rowLock[j] = v => j # i /\ status'[j] = status[j]
      BY PersistAssumption DEF TypeOK
    <2>2. DraftTrue(v)'
      <3>1. CASE at[v] \in Upserted /\ Blaming(v)
        <4>1. Incident(v) \in Incidents /\ rowLock[Incident(v)] = v
          BY <3>1, IncidentOf DEF RowsHeld, Upserted, Holding
        <4>2. status'[Incident(v)] = status[Incident(v)]
          BY <2>1, <4>1
        <4>3. QED
          BY <4>2 DEF TransactionTrue, DraftTrue, VersionTrue, Blaming, Incident, VersionsOf
      <3>2. CASE ~ (at[v] \in Upserted /\ Blaming(v))
        BY <3>2 DEF DraftTrue, VersionTrue, Blaming, Upserted, Flipped, Versioned, Holding,
           Appended, Locked, TailRead
      <3>3. QED
        BY <3>1, <3>2
    <2>3. TailTrue(v)'
      BY DEF TransactionTrue, TailTrue, Blaming
    <2>4. OthersTrue(v)'
      <3>1. /\ Superseding(v)' <=> Superseding(v)
            /\ at'[v] = at[v] /\ job'[v] = job[v] /\ draft'[v] = draft[v]
            /\ Incident(v)' = Incident(v)
        BY DEF Superseding, Incident
      <3>2. late'[v] = IF Superseding(v) /\ job[v].graph = i[1] THEN late[v] \cup {i} ELSE late[v]
        OBVIOUS
      <3>3. \A j \in Incidents : j # i => status'[j] = status[j]
        BY DEF TypeOK
      <3>4. ASSUME at[v] = "commit", NEW j \in draft[v].others
            PROVE  j \in Incidents /\ rowLock[j] = v
        BY <3>4 DEF RowsHeld, TransactionTrue, OthersTrue, Superseding
      <3>5. QED
        BY <2>1, <3>1, <3>2, <3>3, <3>4 DEF TransactionTrue, OthersTrue
    <2>5. QED
      BY <2>2, <2>3, <2>4 DEF TransactionTrue
  <1>4. Numbered' /\ LastRow' /\ ReportsLinear' /\ GraphChained'
    BY DEF Numbered, LastRow, ReportsLinear, GraphChained, VersionsOf
  <1>5. QED
    BY <1>1, <1>2, <1>3, <1>4

(* What COMMIT does to blame_reports: the incident gets its next version, its *)
(* earlier reports lose is_latest, every other report stays.                 *)
LEMMA CommittedReports ==
  ASSUME PersistInv, NEW w \in Writers, Commit(w)
  PROVE  /\ \A q \in reports' :
              \/ \E r \in reports :
                   /\ q.inc = r.inc /\ q.version = r.version
                   /\ q.latest <=> r.latest /\ ~ (Blaming(w) /\ r.inc = Incident(w))
              \/ Blaming(w) /\ q = [inc |-> Incident(w), version |-> draft[w].version,
                                    latest |-> TRUE]
         /\ \A r \in reports : \E q \in reports' : q.inc = r.inc /\ q.version = r.version
         /\ Blaming(w) => [inc |-> Incident(w), version |-> draft[w].version,
                           latest |-> TRUE] \in reports'
         /\ reports' \in SUBSET Report
  <1> DEFINE new == [inc |-> Incident(w), version |-> draft[w].version, latest |-> TRUE]
             edit(r) == [r EXCEPT !.latest = @ /\ ~(draft[w].flipped /\ r.inc = Incident(w))]
             kept == {edit(r) : r \in reports}
  <1>1. reports' = IF ~ Blaming(w) THEN kept ELSE kept \cup {new}
    BY DEF Commit, Blaming
  <1>2. ASSUME NEW r \in reports
        PROVE  /\ edit(r) \in Report
               /\ edit(r).inc = r.inc /\ edit(r).version = r.version
               /\ edit(r).latest <=> r.latest /\ ~(draft[w].flipped /\ r.inc = Incident(w))
    <2>1. r \in Report
      BY DEF PersistInv, TypeOK
    <2>2. QED
      BY <2>1 DEF Report
  <1>3. at[w] = "commit"
    BY DEF Commit
  <1>4. Blaming(w) => draft[w].flipped
    BY <1>3 DEF PersistInv, TransactionTrue, DraftTrue, Flipped, Upserted, Holding
  <1>5. ~ Blaming(w) => \A r \in reports : r.inc # Incident(w)
    BY PersistAssumption DEF Blaming, Incident, PersistInv, TypeOK, Report, Incidents
  <1>6. Blaming(w) => new \in Report
    <2> SUFFICES ASSUME Blaming(w) PROVE new \in Report
      OBVIOUS
    <2>1. Incident(w) \in Incidents
      BY <1>3, IncidentOf DEF PersistInv
    <2>2. draft[w].version = Cardinality(VersionsOf(Incident(w))) + 1
      BY <1>3 DEF PersistInv, TransactionTrue, DraftTrue, VersionTrue, Versioned, Flipped,
         Upserted, Holding
    <2>3. Cardinality(VersionsOf(Incident(w))) \in Nat
      BY <2>1, VersionsFinite DEF PersistInv
    <2>4. draft[w].version \in 0 .. MaxAnalyses
      BY DEF PersistInv, TypeOK, Draft
    <2>5. draft[w].version \in 1 .. MaxAnalyses
      BY <2>2, <2>3, <2>4, PersistAssumption
    <2>6. QED
      BY <2>1, <2>5 DEF Report
  <1>7. ASSUME NEW r \in reports
        PROVE  edit(r).latest <=> r.latest /\ ~ (Blaming(w) /\ r.inc = Incident(w))
    BY <1>2, <1>4, <1>5
  <1> HIDE DEF edit
  <1>8. ASSUME NEW q \in reports'
        PROVE  \/ \E r \in reports :
                   /\ q.inc = r.inc /\ q.version = r.version
                   /\ q.latest <=> r.latest /\ ~ (Blaming(w) /\ r.inc = Incident(w))
               \/ Blaming(w) /\ q = new
    <2>1. CASE Blaming(w) /\ q = new
      BY <2>1
    <2>2. CASE q \in kept
      <3>1. PICK r \in reports : q = edit(r)
        BY <2>2
      <3>2. QED
        BY <3>1, <1>2, <1>7
    <2>3. QED
      BY <1>1, <2>1, <2>2
  <1>9. ASSUME NEW r \in reports
        PROVE  \E q \in reports' : q.inc = r.inc /\ q.version = r.version
    <2>1. edit(r) \in reports'
      BY <1>1
    <2>2. QED
      BY <2>1, <1>2
  <1>10. Blaming(w) => new \in reports'
    BY <1>1
  <1>11. reports' \in SUBSET Report
    <2>1. kept \subseteq Report
      BY <1>2
    <2>2. QED
      BY <1>1, <1>6, <2>1
  <1>12. QED
    BY <1>8, <1>9, <1>10, <1>11

(* The versions of an incident after COMMIT. *)
LEMMA CommittedVersions ==
  ASSUME PersistInv, NEW w \in Writers, Commit(w)
  PROVE  \A i \in Incidents :
           VersionsOf(i)' = IF Blaming(w) /\ i = Incident(w)
                            THEN VersionsOf(i) \cup {draft[w].version}
                            ELSE VersionsOf(i)
  <1> TAKE i \in Incidents
  <1>1. ASSUME NEW n \in VersionsOf(i)'
        PROVE  n \in VersionsOf(i) \/ (Blaming(w) /\ i = Incident(w) /\ n = draft[w].version)
    <2>1. PICK q \in reports' : q.inc = i /\ q.version = n
      BY DEF VersionsOf
    <2>2. CASE \E r \in reports : q.inc = r.inc /\ q.version = r.version
      BY <2>1, <2>2 DEF VersionsOf
    <2>3. CASE Blaming(w) /\ q = [inc |-> Incident(w), version |-> draft[w].version,
                                  latest |-> TRUE]
      BY <2>1, <2>3
    <2>4. \/ \E r \in reports :
              /\ q.inc = r.inc /\ q.version = r.version
              /\ q.latest <=> r.latest /\ ~ (Blaming(w) /\ r.inc = Incident(w))
          \/ Blaming(w) /\ q = [inc |-> Incident(w), version |-> draft[w].version,
                                 latest |-> TRUE]
      BY CommittedReports
    <2>5. QED
      BY <2>2, <2>3, <2>4
  <1>2. ASSUME NEW n \in VersionsOf(i) PROVE n \in VersionsOf(i)'
    <2>1. PICK r \in reports : r.inc = i /\ r.version = n
      BY DEF VersionsOf
    <2>2. PICK q \in reports' : q.inc = i /\ q.version = n
      BY <2>1, CommittedReports
    <2>3. QED
      BY <2>2 DEF VersionsOf
  <1>3. Blaming(w) /\ i = Incident(w) => draft[w].version \in VersionsOf(i)'
    <2> SUFFICES ASSUME Blaming(w), i = Incident(w)
                 PROVE  draft[w].version \in VersionsOf(i)'
      OBVIOUS
    <2>1. [inc |-> Incident(w), version |-> draft[w].version, latest |-> TRUE] \in reports'
      BY CommittedReports
    <2>2. QED
      BY <2>1 DEF VersionsOf
  <1>4. QED
    BY <1>1, <1>2, <1>3

(* COMMIT of one analysis leaves the reports of every incident linear. *)
LEMMA CommitLinear ==
  ASSUME PersistInv, NEW w \in Writers, Commit(w)
  PROVE  ReportsLinear'
  <1> SUFFICES ASSUME NEW i \in Incidents
               PROVE  /\ VersionsOf(i)' = 1 .. Cardinality(VersionsOf(i)')
                      /\ \A q \in reports' : q.inc = i =>
                           (q.latest <=> q.version = Cardinality(VersionsOf(i)'))
    BY DEF ReportsLinear
  <1> DEFINE n == Cardinality(VersionsOf(i))
  <1>1. n \in Nat /\ VersionsOf(i) = 1 .. n
        /\ \A r \in reports : r.inc = i => (r.latest <=> r.version = n)
    BY VersionsFinite DEF PersistInv, ReportsLinear
  <1>2. at[w] = "commit"
    BY DEF Commit
  <1>3. CASE Blaming(w) /\ i = Incident(w)
    <2>1. draft[w].version = n + 1
      BY <1>2, <1>3 DEF PersistInv, TransactionTrue, DraftTrue, VersionTrue, Versioned,
         Flipped, Upserted, Holding
    <2>2. VersionsOf(i)' = 1 .. (n + 1)
      <3>1. VersionsOf(i)' = (1 .. n) \cup {n + 1}
        BY <1>1, <1>3, <2>1, CommittedVersions
      <3>2. QED
        BY <1>1, <3>1
    <2>3. Cardinality(VersionsOf(i)') = n + 1
      BY <1>1, <2>2, FS_Interval
    <2>4. ASSUME NEW q \in reports', q.inc = i
          PROVE  q.latest <=> q.version = n + 1
      <3>1. CASE q = [inc |-> Incident(w), version |-> draft[w].version, latest |-> TRUE]
        BY <2>1, <3>1
      <3>2. CASE \E r \in reports :
                   /\ q.inc = r.inc /\ q.version = r.version
                   /\ q.latest <=> r.latest /\ ~ (Blaming(w) /\ r.inc = Incident(w))
        <4>1. PICK r \in reports :
                   /\ q.inc = r.inc /\ q.version = r.version
                   /\ q.latest <=> r.latest /\ ~ (Blaming(w) /\ r.inc = Incident(w))
          BY <3>2
        <4>2. r.version \in 1 .. n
          BY <1>1, <2>4, <4>1 DEF VersionsOf
        <4>3. ~ q.latest /\ q.version # n + 1
          BY <1>1, <1>3, <2>4, <4>1, <4>2
        <4>4. QED
          BY <4>3
      <3>3. QED
        BY <3>1, <3>2, CommittedReports
    <2>5. QED
      BY <2>2, <2>3, <2>4
  <1>4. CASE ~ (Blaming(w) /\ i = Incident(w))
    <2>1. VersionsOf(i)' = VersionsOf(i)
      BY <1>4, CommittedVersions
    <2>2. ASSUME NEW q \in reports', q.inc = i
          PROVE  q.latest <=> q.version = n
      <3>1. \/ \E r \in reports :
                /\ q.inc = r.inc /\ q.version = r.version
                /\ q.latest <=> r.latest /\ ~ (Blaming(w) /\ r.inc = Incident(w))
            \/ Blaming(w) /\ q = [inc |-> Incident(w), version |-> draft[w].version,
                                   latest |-> TRUE]
        BY CommittedReports
      <3>2. CASE Blaming(w) /\ q = [inc |-> Incident(w), version |-> draft[w].version,
                                    latest |-> TRUE]
        BY <1>4, <2>2, <3>2
      <3>3. CASE \E r \in reports :
                   /\ q.inc = r.inc /\ q.version = r.version
                   /\ q.latest <=> r.latest /\ ~ (Blaming(w) /\ r.inc = Incident(w))
        <4>1. PICK r \in reports :
                   /\ q.inc = r.inc /\ q.version = r.version
                   /\ q.latest <=> r.latest /\ ~ (Blaming(w) /\ r.inc = Incident(w))
          BY <3>3
        <4>2. QED
          BY <1>1, <1>4, <2>2, <4>1
      <3>4. QED
        BY <3>1, <3>2, <3>3
    <2>3. QED
      BY <1>1, <2>1, <2>2
  <1>5. QED
    BY <1>3, <1>4

(* COMMIT chains its row onto the last row of its graph. *)
LEMMA CommitChained ==
  ASSUME PersistInv, NEW w \in Writers, Commit(w)
  PROVE  GraphChained' /\ LastRow' /\ Numbered' /\ ledger' \in SUBSET LedgerRow
  <1> DEFINE new == [id |-> draft[w].row, graph |-> job[w].graph, prev |-> draft[w].tail]
  <1>1. /\ at[w] = "commit" /\ nextRow' = nextRow
        /\ ledger' = IF ~ Blaming(w) THEN ledger ELSE ledger \cup {new}
    BY DEF Commit, Blaming, Finish
  <1>2. \A r \in ledger : r \in LedgerRow /\ r.id \in Nat /\ r.prev \in Nat
    BY DEF PersistInv, TypeOK, LedgerRow, RowIds
  <1>3. \A q \in reports' : q.version < nextRow
    <2> SUFFICES ASSUME NEW q \in reports' PROVE q.version < nextRow
      OBVIOUS
    <2>1. CASE Blaming(w) /\ q = [inc |-> Incident(w), version |-> draft[w].version,
                                  latest |-> TRUE]
      BY <1>1, <2>1 DEF PersistInv, TransactionTrue, DraftTrue, VersionTrue, Appended, Locked,
         TailRead
    <2>2. CASE \E r \in reports : q.inc = r.inc /\ q.version = r.version
      BY <2>2 DEF PersistInv, Numbered
    <2>3. \/ \E r \in reports :
              /\ q.inc = r.inc /\ q.version = r.version
              /\ q.latest <=> r.latest /\ ~ (Blaming(w) /\ r.inc = Incident(w))
          \/ Blaming(w) /\ q = [inc |-> Incident(w), version |-> draft[w].version,
                                 latest |-> TRUE]
      BY CommittedReports
    <2>4. QED
      BY <2>1, <2>2, <2>3
  <1>4. CASE ~ Blaming(w)
    BY <1>1, <1>3, <1>4 DEF PersistInv, TypeOK, GraphChained, LastRow, Numbered
  <1>5. CASE Blaming(w)
    <2>1. /\ draft[w].tail < nextRow
          /\ draft[w].tail # 0 => \E r \in ledger : r.id = draft[w].tail
          /\ \A r \in ledger : r.graph = job[w].graph => r.id <= draft[w].tail
          /\ draft[w].tail < draft[w].row /\ draft[w].row < nextRow
      BY <1>1, <1>5 DEF PersistInv, TransactionTrue, TailTrue, Appended, Locked, TailRead
    <2>2. /\ draft[w].tail \in 0 .. MaxAnalyses /\ draft[w].row \in 0 .. MaxAnalyses
          /\ job[w].graph \in Graphs
      BY <1>1 DEF PersistInv, TypeOK, Draft, JobsMatch
    <2>3. new \in LedgerRow /\ new.id = draft[w].row /\ new.graph = job[w].graph
          /\ new.prev = draft[w].tail
      BY <2>1, <2>2, PersistAssumption DEF LedgerRow, RowIds
    <2> HIDE DEF new
    <2>4. ledger' \in SUBSET LedgerRow
      BY <1>1, <1>5, <2>3 DEF PersistInv, TypeOK
    <2>5. Numbered'
      BY <1>1, <1>3, <1>5, <2>1, <2>3 DEF PersistInv, Numbered
    <2>6. LastRow'
      <3>1. CASE ledger = {}
        BY <1>1, <1>5, <2>2, <2>3, <3>1 DEF LastRow
      <3>2. CASE ledger # {}
        <4>1. PICK m \in ledger : \A r \in ledger : r.id <= m.id
          BY <3>2 DEF PersistInv, LastRow
        <4>2. CASE m.id <= new.id
          <5>1. \A r \in ledger : r.id <= new.id
            BY <1>2, <2>2, <2>3, <4>1, <4>2
          <5>2. QED
            BY <1>1, <1>5, <2>2, <2>3, <5>1 DEF LastRow
        <4>3. CASE ~ (m.id <= new.id)
          <5>1. new.id <= m.id
            BY <1>2, <2>2, <2>3, <4>3
          <5>2. QED
            BY <1>1, <1>5, <4>1, <5>1 DEF LastRow
        <4>4. QED
          BY <4>2, <4>3
      <3>3. QED
        BY <3>1, <3>2
    <2>7. GraphChained'
      <3>1. ASSUME NEW r \in ledger, r.graph = job[w].graph
            PROVE  r.prev # draft[w].tail
        BY <1>2, <2>1, <2>2, <3>1 DEF PersistInv, GraphChained
      <3>2. ASSUME NEW r \in ledger', NEW s \in ledger', r.prev = s.prev, r # s
            PROVE  r.graph # s.graph
        BY <1>1, <1>5, <2>3, <3>1, <3>2 DEF PersistInv, GraphChained
      <3>3. ASSUME NEW r \in ledger'
            PROVE  r.prev < r.id /\ (r.prev # 0 => \E s \in ledger' : s.id = r.prev)
        BY <1>1, <1>5, <2>1, <2>3 DEF PersistInv, GraphChained
      <3>4. QED
        BY <3>2, <3>3 DEF GraphChained
    <2>8. QED
      BY <2>4, <2>5, <2>6, <2>7
  <1>6. QED
    BY <1>4, <1>5

(* COMMIT changes the incidents of its own graph and no other, and of those  *)
(* it passes over the late ones alone.                                      *)
LEMMA CommittedStatus ==
  ASSUME PersistInv, NEW w \in Writers, Commit(w)
  PROVE  /\ status' \in [Incidents -> Statuses]
         /\ \E missed \in SUBSET (late[w] \ {Incident(w)}) :
              status' = [i \in Incidents |->
                           IF i \in missed THEN status[i]
                           ELSE Persisted(status, job[w].graph, job[w].key)[i]]
         /\ \A i \in Incidents : i[1] # job[w].graph => status'[i] = status[i]
  <1>1. at[w] = "commit" /\ Superseding(w)
    BY DEF Commit, Superseding
  <1>2. /\ \A i \in draft[w].others :
             i \in Incidents /\ i[1] = job[w].graph /\ i # Incident(w) /\ status[i] \in Live
        /\ \A i \in Incidents \ late[w] :
             i[1] = job[w].graph /\ i # Incident(w) /\ status[i] \in Live
               => i \in draft[w].others
    BY <1>1 DEF PersistInv, TransactionTrue, OthersTrue
  <1>3. Blaming(w) => draft[w].incident = Reopened(status[Incident(w)])
    BY <1>1 DEF PersistInv, TransactionTrue, DraftTrue, Upserted, Holding
  <1>4. Blaming(w) => Incident(w) \in Incidents /\ Incident(w)[1] = job[w].graph
    BY <1>1, IncidentOf DEF PersistInv
  <1>5. ~ Blaming(w) => \A i \in Incidents : i # Incident(w)
    BY PersistAssumption DEF Blaming, Incident, Incidents
  <1>6. status' = [i \in Incidents |->
                     IF Blaming(w) /\ i = Incident(w) THEN draft[w].incident
                     ELSE IF i \in draft[w].others THEN "superseded" ELSE status[i]]
    BY DEF Commit, Blaming
  <1> DEFINE missed == (late[w] \ draft[w].others) \ {Incident(w)}
  <1>7. ASSUME NEW i \in Incidents
        PROVE  status'[i] = IF i \in missed THEN status[i]
                            ELSE IF i = Incident(w) THEN Reopened(status[i])
                            ELSE IF i[1] = job[w].graph /\ status[i] \in Live THEN "superseded"
                            ELSE status[i]
    BY <1>2, <1>3, <1>5, <1>6
  <1>8. status' = [i \in Incidents |->
                     IF i \in missed THEN status[i]
                     ELSE Persisted(status, job[w].graph, job[w].key)[i]]
    <2>1. \A i \in Incidents :
            Persisted(status, job[w].graph, job[w].key)[i] =
              IF i = Incident(w) THEN Reopened(status[i])
              ELSE IF i[1] = job[w].graph /\ status[i] \in Live THEN "superseded"
              ELSE status[i]
      BY DEF Persisted, Incident
    <2> HIDE DEF missed
    <2>2. QED
      BY <1>6, <1>7, <2>1
  <1>9. \A i \in Incidents : status'[i] \in Statuses
    BY <1>7 DEF PersistInv, TypeOK, Statuses, Live, Reopened
  <1>10. \A i \in Incidents : i[1] # job[w].graph => status'[i] = status[i]
    BY <1>4, <1>5, <1>7
  <1>11. missed \in SUBSET (late[w] \ {Incident(w)})
    OBVIOUS
  <1>12. QED
    BY <1>6, <1>8, <1>9, <1>10, <1>11

(* COMMIT leaves every other open transaction true: it is of another graph. *)
LEMMA CommitKeeps ==
  ASSUME PersistInv, NEW w \in Writers, Commit(w)
  PROVE  PersistInv'
  <1>1. /\ at[w] = "commit" /\ Finish(w)
        /\ nextRow' = nextRow /\ begun' = begun /\ patches' = patches
    BY DEF Commit, Finish
  <1>2. at[w] # "idle" /\ job[w].graph \in Graphs
    BY <1>1 DEF PersistInv, JobsMatch
  <1>3. job' \in [Writers -> [graph : Graphs \cup {None}, key : Keys \cup {None}]]
    BY <1>1 DEF Finish, PersistInv, TypeOK, NoJob
  <1>4. TypeOK'
    BY <1>1, <1>2, <1>3, FinishKeeps, CommittedStatus, CommittedReports, CommitChained
       DEF PersistInv, TypeOK
  <1>5. ASSUME NEW v \in Writers, v # w PROVE TransactionTrue(v)'
    <2>1. /\ at'[v] = at[v] /\ job'[v] = job[v]
          /\ draft'[v] = draft[v] /\ late'[v] = late[v]
      BY <1>1, <1>5 DEF Finish, PersistInv, TypeOK
    <2>2. CASE at[v] \notin Holding
      BY <2>1, <2>2 DEF PersistInv, TransactionTrue, DraftTrue, VersionTrue, TailTrue, OthersTrue, Superseding,
         Upserted, Flipped, Versioned, Holding, TailRead, Appended, Locked
    <2>3. CASE at[v] \in Holding
      <3>1. job[v].graph # job[w].graph
        BY <1>1, <1>5, <2>3, OnePerGraph DEF PersistInv, Holding
      <3>2. Incident(v)' = Incident(v) /\ (Blaming(v)' <=> Blaming(v))
        BY <2>1 DEF Incident, Blaming
      <3>3. Blaming(v) => /\ status'[Incident(v)] = status[Incident(v)]
                          /\ VersionsOf(Incident(v))' = VersionsOf(Incident(v))
        <4> SUFFICES ASSUME Blaming(v)
                     PROVE  /\ status'[Incident(v)] = status[Incident(v)]
                            /\ VersionsOf(Incident(v))' = VersionsOf(Incident(v))
          OBVIOUS
        <4>1. Incident(v) \in Incidents /\ Incident(v)[1] = job[v].graph
          BY <2>3, IncidentOf DEF PersistInv, Holding
        <4>2. Incident(v) # Incident(w)
          BY <3>1, <4>1 DEF Incident
        <4>3. VersionsOf(Incident(v))' = VersionsOf(Incident(v))
          BY <3>2, <4>1, <4>2, CommittedVersions
        <4>4. QED
          BY <3>1, <4>1, <4>3, CommittedStatus
      <3>4. ledger \subseteq ledger' /\ \A r \in ledger' : r \in ledger \/ r.graph # job[v].graph
        BY <3>1 DEF Commit
      <3>5. DraftTrue(v)'
        BY <1>1, <2>1, <3>2, <3>3 DEF PersistInv, TransactionTrue, DraftTrue, VersionTrue
      <3>6. TailTrue(v)'
        BY <1>1, <2>1, <3>2, <3>4 DEF PersistInv, TransactionTrue, TailTrue
      <3>7. OthersTrue(v)'
        BY <2>1, <3>1, <3>2, CommittedStatus
           DEF PersistInv, TransactionTrue, OthersTrue, Superseding
      <3>8. QED
        BY <3>5, <3>6, <3>7 DEF TransactionTrue
    <2>4. QED
      BY <2>2, <2>3
  <1>6. QED
    BY <1>1, <1>2, <1>4, <1>5, FinishKeeps, CommitChained, CommitLinear DEF PersistInv

(* Every step of the specification keeps the invariant. *)
LEMMA InvStep == PersistInv /\ [Next]_vars => PersistInv'
  <1> SUFFICES ASSUME PersistInv, [Next]_vars PROVE PersistInv'
    OBVIOUS
  <1>1. ASSUME NEW w \in Writers, NEW g \in Graphs, NEW k \in Keys \cup {None}, Begin(w, g, k)
        PROVE  PersistInv'
    BY <1>1, BeginKeeps
  <1>2. ASSUME NEW w \in Writers, Statement(w) PROVE PersistInv'
    BY <1>2, ScoresKeeps, UpsertKeeps, FlipLatestKeeps, NextVersionKeeps, InsertReportKeeps,
       LedgerTailKeeps, LedgerLockKeeps, LedgerAppendKeeps, ChooseStaleKeeps, SupersedeKeeps,
       CommitKeeps
       DEF Statement
  <1>3. ASSUME NEW w \in Writers, Abort(w) PROVE PersistInv'
    BY <1>3, AbortKeeps
  <1>4. ASSUME NEW i \in Incidents, NEW s \in Live \cup {"resolved"}, Patch(i, s)
        PROVE  PersistInv'
    BY <1>4, PatchKeeps
  <1>5. CASE UNCHANGED vars
    <2> USE <1>5 DEF vars, tables, locks, PersistInv
    <2>1. TypeOK' /\ JobsMatch' /\ RunsHeld' /\ RowsHeld' /\ TailsHeld'
      BY DEF TypeOK, JobsMatch, RunsHeld, RowsHeld, TailsHeld, Blaming, Incident
    <2>2. \A v \in Writers : TransactionTrue(v)'
      <3>1. \A v \in Writers :
              /\ Blaming(v)' <=> Blaming(v)
              /\ Incident(v)' = Incident(v)
              /\ VersionsOf(Incident(v))' = VersionsOf(Incident(v))
              /\ Superseding(v)' <=> Superseding(v)
        BY DEF Blaming, Incident, VersionsOf, Superseding
      <3>2. \A v \in Writers : DraftTrue(v)' /\ TailTrue(v)'
        BY <3>1 DEF TransactionTrue, DraftTrue, VersionTrue, TailTrue
      <3>3. \A v \in Writers : OthersTrue(v)'
        BY <3>1 DEF TransactionTrue, OthersTrue
      <3>4. QED
        BY <3>2, <3>3 DEF TransactionTrue
    <2>3. EnoughIds' /\ Numbered' /\ LastRow' /\ ReportsLinear' /\ GraphChained'
      BY DEF EnoughIds, EarlyWriters, Numbered, LastRow, ReportsLinear, GraphChained, VersionsOf
    <2>4. QED
      BY <2>1, <2>2, <2>3
  <1>6. QED
    BY <1>1, <1>2, <1>3, <1>4, <1>5 DEF Next

(* The invariant, and the type invariant with it, hold of every behaviour. *)
THEOREM Invariance == Spec => []PersistInv
  BY InvInit, InvStep, PTL DEF Spec

(* MAX(version) + 1 and the is_latest flip are enough to number the reports  *)
(* of an incident 1..n with the last alone latest, although both are        *)
(* computed before the transaction commits (pg.py:641-676).                 *)
THEOREM Linear == Spec => []ReportsLinear
  <1>1. PersistInv => ReportsLinear
    BY DEF PersistInv
  <1>2. QED
    BY Invariance, <1>1, PTL

(* The ledger forks between graphs at most: within a graph every row has its *)
(* own, earlier, committed predecessor (pg.py:678-703).                     *)
THEOREM Chained == Spec => []GraphChained
  <1>1. PersistInv => GraphChained
    BY DEF PersistInv
  <1>2. QED
    BY Invariance, <1>1, PTL

(* INSERT INTO blame_reports is never refused by UNIQUE (incident_id,        *)
(* version): nobody commits that version between the SELECT that computed   *)
(* it and the INSERT (pg.py:645-676).                                       *)
THEOREM VersionFresh ==
  Spec => [](\A w \in Writers :
               at[w] = "report" => draft[w].version \notin VersionsOf(Incident(w)))
  <1>1. ASSUME PersistInv, NEW w \in Writers, at[w] = "report"
        PROVE  draft[w].version \notin VersionsOf(Incident(w))
    <2>1. Blaming(w) /\ Incident(w) \in Incidents
      BY <1>1, IncidentOf DEF PersistInv, JobsMatch, Classifying
    <2>2. draft[w].version = Cardinality(VersionsOf(Incident(w))) + 1
      BY <1>1, <2>1 DEF PersistInv, TransactionTrue, DraftTrue, VersionTrue, Versioned, Flipped,
         Upserted, Holding
    <2>3. /\ VersionsOf(Incident(w)) = 1 .. Cardinality(VersionsOf(Incident(w)))
          /\ Cardinality(VersionsOf(Incident(w))) \in Nat
      BY <1>1, <2>1, VersionsFinite DEF PersistInv, ReportsLinear
    <2>4. QED
      BY <2>2, <2>3
  <1>2. PersistInv => \A w \in Writers :
          at[w] = "report" => draft[w].version \notin VersionsOf(Incident(w))
    BY <1>1
  <1>3. QED
    BY Invariance, <1>2, PTL

(* Nobody past the loop waits for a writer that waits as well. *)
LEMMA PastTheLoop ==
  ASSUME PersistInv, NEW w \in Writers, at[w] # "scores", NEW v \in Writers \ {w}, Waits(w, v)
  PROVE  \A u \in Writers \ {v} : ~ Waits(v, u)
  <1>1. ASSUME NEW x \in Writers, at[x] # "scores", NEW y \in Writers \ {x}, Waits(x, y)
        PROVE  at[x] = "lock"
    <2>1. CASE at[x] = "upsert" /\ rowLock[Incident(x)] = y
      <3>1. Incident(x) \in Incidents /\ Incident(x)[1] = job[x].graph
        BY <2>1, IncidentOf DEF PersistInv, JobsMatch, Classifying
      <3>2. at[y] \in Holding /\ job[y].graph = job[x].graph
        BY <2>1, <3>1 DEF PersistInv, RowsHeld
      <3>3. at[x] \in Holding
        BY <2>1 DEF Holding
      <3>4. QED
        BY <3>2, <3>3, OnePerGraph DEF PersistInv
    <2>2. CASE at[x] = "supersede" /\ \E i \in draft[x].others : rowLock[i] = y
      <3>1. PICK i \in draft[x].others : rowLock[i] = y
        BY <2>2
      <3>2. i \in Incidents /\ i[1] = job[x].graph
        BY <2>2 DEF PersistInv, TransactionTrue, OthersTrue, Superseding
      <3>3. at[y] \in Holding /\ job[y].graph = job[x].graph
        BY <3>1, <3>2 DEF PersistInv, RowsHeld
      <3>4. at[x] \in Holding
        BY <2>2 DEF Holding
      <3>5. QED
        BY <3>3, <3>4, OnePerGraph DEF PersistInv
    <2>3. QED
      BY <1>1, <2>1, <2>2 DEF Waits
  <1>2. at[w] = "lock" /\ draft[w].tail # 0 /\ tailLock[draft[w].tail] = v
    BY <1>1 DEF Waits
  <1>3. draft[w].tail \in RowIds
    BY <1>2, PersistAssumption DEF PersistInv, TypeOK, Draft, RowIds
  <1>4. at[v] \in Locked
    BY <1>2, <1>3 DEF PersistInv, TailsHeld
  <1>5. at[v] # "scores" /\ at[v] # "lock"
    BY <1>4 DEF Locked, TailRead
  <1>6. QED
    BY <1>1, <1>5

(* Whatever closes a circle of waiting writers is still in that loop. *)
LEMMA CirclesScore == PersistInv => CirclesOnlyOverRuns
  <1> SUFFICES ASSUME PersistInv, NEW S \in SUBSET Writers, Circle(S),
                      NEW w \in S, at[w] # "scores"
               PROVE  FALSE
    BY DEF CirclesOnlyOverRuns
  <1>1. PICK v \in S \ {w} : Waits(w, v)
    BY DEF Circle
  <1>2. PICK u \in S \ {v} : Waits(v, u)
    BY DEF Circle
  <1>3. QED
    BY <1>1, <1>2, PastTheLoop

(* Only the updates of agent_runs can wait in a circle: from the upsert on,  *)
(* the order in which persist_tier2_result takes its locks (incident row,    *)
(* ledger tail, other incident rows) never closes one (pg.py:600-731).       *)
THEOREM CirclesConfined == Spec => []CirclesOnlyOverRuns
  BY Invariance, CirclesScore, PTL

(* Every step is a step of AtomicIncidents or leaves what it is about alone. *)
LEMMA AtomicStep ==
  PersistInv /\ [Next]_vars => [Atomic!Next]_<<status, looking, late>>
  <1> SUFFICES ASSUME PersistInv, [Next]_vars
               PROVE  Atomic!Next \/ UNCHANGED <<status, looking, late>>
    OBVIOUS
  <1> USE DEF looking, Superseding
  <1>1. ASSUME NEW w \in Writers, Finish(w), Superseding(w)
        PROVE  Atomic!Done(w)
    <2>1. job[w].graph # None
      BY <1>1, PersistAssumption DEF PersistInv, JobsMatch
    <2>2. looking' = [looking EXCEPT ![w] = None]
      BY <1>1 DEF Finish, PersistInv, TypeOK
    <2>3. QED
      BY <1>1, <2>1, <2>2 DEF Atomic!Done, Finish
  <1>2. ASSUME NEW w \in Writers, Commit(w) PROVE Atomic!Next
    <2>1. /\ Finish(w) /\ Superseding(w) /\ job[w].key \in Keys \cup {None}
          /\ looking[w] = job[w].graph
      BY <1>2 DEF Commit, PersistInv, TypeOK
    <2>2. PICK missed \in SUBSET (late[w] \ {Incident(w)}) :
            status' = [i \in Incidents |->
                         IF i \in missed THEN status[i]
                         ELSE Persisted(status, job[w].graph, job[w].key)[i]]
      BY <1>2, CommittedStatus
    <2>3. Atomic!Complete(w, job[w].key)
      BY <1>1, <2>1, <2>2 DEF Atomic!Complete, Atomic!Persisted, Persisted, Atomic!Incidents,
         Incidents, Atomic!Reopened, Reopened, Atomic!Live, Live, Incident
    <2>4. QED
      BY <2>1, <2>3 DEF Atomic!Next
  <1>3. ASSUME NEW w \in Writers, Abort(w)
        PROVE  Atomic!Next \/ UNCHANGED <<status, looking, late>>
    <2>1. Finish(w) /\ UNCHANGED status
      BY <1>3 DEF Abort, tables
    <2>2. CASE Superseding(w)
      <3>1. Atomic!GiveUp(w)
        BY <1>1, <2>1, <2>2 DEF Atomic!GiveUp
      <3>2. QED
        BY <3>1 DEF Atomic!Next
    <2>3. CASE ~ Superseding(w)
      <3>1. late[w] = {}
        BY <2>3 DEF PersistInv, TransactionTrue, OthersTrue
      <3>2. late' = late /\ looking' = looking
        BY <2>1, <2>3, <3>1 DEF Finish, PersistInv, TypeOK
      <3>3. QED
        BY <2>1, <3>2
    <2>4. QED
      BY <2>2, <2>3
  <1>4. ASSUME NEW w \in Writers, ChooseStale(w) PROVE Atomic!Next
    <2>1. /\ at[w] = "stale" /\ at' = [at EXCEPT ![w] = "supersede"] /\ job' = job
          /\ UNCHANGED <<status, late>> /\ job[w].graph \in Graphs
      BY <1>4 DEF ChooseStale, Goto, tables, PersistInv, JobsMatch
    <2>2. looking' = [looking EXCEPT ![w] = job[w].graph]
      BY <2>1 DEF PersistInv, TypeOK
    <2>3. looking[w] = None
      BY <2>1
    <2>4. PICK g \in Graphs : g = job[w].graph
      BY <2>1
    <2>5. Atomic!Look(w, g)
      BY <2>1, <2>2, <2>3, <2>4 DEF Atomic!Look
    <2>6. QED
      BY <2>5 DEF Atomic!Next
  <1>5. ASSUME NEW i \in Incidents, NEW s \in Live \cup {"resolved"}, Patch(i, s)
        PROVE  Atomic!Next
    <2>1. looking' = looking
      BY <1>5 DEF Patch
    <2>2. \A w \in Writers : looking[w] = i[1] <=> Superseding(w) /\ job[w].graph = i[1]
      BY PersistAssumption DEF Incidents
    <2>3. Atomic!Patch(i, s)
      BY <1>5, <2>1, <2>2 DEF Patch, Atomic!Patch
    <2>4. i \in Atomic!Incidents /\ s \in Atomic!Live \cup {"resolved"}
      BY <1>5 DEF Atomic!Incidents, Incidents, Atomic!Live, Live
    <2>5. QED
      BY <2>3, <2>4 DEF Atomic!Next
  <1>6. ASSUME NEW w \in Writers, NEW g \in Graphs, NEW k \in Keys \cup {None}, Begin(w, g, k)
        PROVE  UNCHANGED <<status, looking, late>>
    BY <1>6 DEF Begin, Goto, tables, PersistInv, TypeOK
  <1>7. ASSUME NEW w \in Writers, Scores(w)
        PROVE  UNCHANGED <<status, looking, late>>
    <2>1. at[w] = "scores" /\ at' \in {at, [at EXCEPT ![w] = ToClassify(w)]}
          /\ job' = job /\ UNCHANGED <<status, late>>
      BY <1>7 DEF Scores, tables
    <2>2. QED
      BY <2>1 DEF ToClassify, PersistInv, TypeOK
  <1>8. ASSUME NEW w \in Writers,
               \/ Upsert(w) \/ FlipLatest(w) \/ NextVersion(w) \/ InsertReport(w)
               \/ LedgerTail(w) \/ LedgerLock(w) \/ LedgerAppend(w) \/ Supersede(w)
        PROVE  UNCHANGED <<status, looking, late>>
    <2>1. /\ job' = job /\ UNCHANGED <<status, late>>
          /\ \/ Goto(w, "upsert", "flip") \/ Goto(w, "flip", "version")
             \/ Goto(w, "version", "report") \/ Goto(w, "report", "tail")
             \/ Goto(w, "tail", "lock") \/ Goto(w, "lock", "append")
             \/ Goto(w, "append", "stale") \/ Goto(w, "supersede", "commit")
      BY <1>8 DEF Upsert, FlipLatest, NextVersion, InsertReport, LedgerTail, LedgerLock,
         LedgerAppend, Supersede, tables
    <2>2. QED
      BY <2>1 DEF Goto, PersistInv, TypeOK
  <1>9. CASE UNCHANGED vars
    BY <1>9 DEF vars, tables
  <1>10. QED
    BY <1>2, <1>3, <1>4, <1>5, <1>6, <1>7, <1>8, <1>9 DEF Next, Statement

(* The statements of persist_tier2_result together implement one atomic      *)
(* change of the graph's incidents: COMMIT is that change, and it passes     *)
(* over nothing but what an operator has patched since the supersede        *)
(* statement has chosen its rows (pg.py:713-731).                           *)
THEOREM ImplementsAtomic == Spec => IncidentsAtomic
  <1>1. Init => Atomic!Init
    BY DEF Init, Atomic!Init, Atomic!Incidents, Incidents, looking, Superseding
  <1>2. QED
    BY Invariance, AtomicStep, <1>1, PTL DEF Spec, IncidentsAtomic, Atomic!Spec
================================================================================
