------------------------------ MODULE Tier1Proofs ------------------------------
(***************************************************************************)
(* Tier1 for any budgets, judges and sampled graphs, however often its     *)
(* worker dies, requests are sent again and re-maps fail.                  *)
(*                                                                         *)
(* The first part is about the order of process(), which writes the        *)
(* verdict, samples, requests, and only then acknowledges, so that at      *)
(* every stage the entry of the stream is there to start over from; it     *)
(* holds of any programs, and leaves the mapper and the checks as they are.*)
(*                                                                         *)
(* The second part is about the rows.  What the mapper makes of a trace    *)
(* that is read in full is taken from ProgramsAssumption, which TLC        *)
(* evaluates for the programs of the run; proved is that the requests and  *)
(* re-maps, in any order, leave these rows and no other, and that a        *)
(* verdict tells of them.                                                  *)
(***************************************************************************)
EXTENDS Tier1, TLAPS

(* The worker holds nothing, or a graph whose entry is still pending; what it  *)
(* has done so far is in the tables.                                           *)
AtWork ==
  \/ job = NoJob
  \/ /\ job.stage = "loaded" /\ job.graph \in completed
  \/ \E g \in completed \cap DOMAIN verdicts : \E todo :
       job = [stage |-> "stored", graph |-> g, todo |-> todo]
  \/ \E g \in completed \cap DOMAIN verdicts :
       /\ job = [stage |-> "published", graph |-> g]
       /\ verdicts[g].flagged \/ verdicts[g].sampled => g \in tier2

Owed == \A g \in DOMAIN verdicts :
  verdicts[g].flagged \/ verdicts[g].sampled => g \in completed \cup tier2

WorkInv == AtWork /\ Owed

LEMMA Start == Tier1Init => WorkInv
  BY DEF Tier1Init, WorkInv, AtWork, Owed

(* Requests, re-maps and announcements only add entries.                        *)
LEMMA StoreAdds ==
  ASSUME StoreNext
  PROVE  completed \subseteq completed'
<1>1. ASSUME NEW g, Announce(g)
      PROVE  completed \subseteq completed'
  BY <1>1 DEF Announce
<1> QED
  BY <1>1
  DEF StoreNext, InsertSpans, Upsert, SendAgain, SelectSpans, Refresh, ResolveDeferred,
      RemapRaises

LEMMA WorkStep == WorkInv /\ [Tier1Next]_tier1Vars => WorkInv'
<1> SUFFICES ASSUME WorkInv, [Tier1Next]_tier1Vars
             PROVE  WorkInv'
  OBVIOUS
<1> USE DEF WorkInv
<1>1. CASE StoreNext /\ UNCHANGED tierVars
  <2>1. completed \subseteq completed' /\ UNCHANGED <<job, verdicts, tier2>>
    BY <1>1, StoreAdds DEF tierVars
  <2> QED
    BY <2>1 DEF AtWork, Owed
<1>2. ASSUME NEW g \in completed, Load(g)
      PROVE  WorkInv'
  <2>1. /\ job'.stage = "loaded" /\ job'.graph = g
        /\ UNCHANGED <<completed, verdicts, tier2>>
    BY <1>2 DEF Load, storeVars
  <2> QED
    BY <1>2, <2>1 DEF AtWork, Owed
<1>3. ASSUME NEW answer, NEW form, StoreVerdict(answer, form)
      PROVE  WorkInv'
  <2>1. job.graph \in completed
    BY <1>3 DEF StoreVerdict, AtWork, NoJob
  <2>2. PICK row : verdicts' = [g \in DOMAIN verdicts \cup {job.graph} |->
                                 IF g = job.graph THEN row ELSE verdicts[g]]
    BY <1>3 DEF StoreVerdict
  <2>3. /\ job' = [stage |-> "stored", graph |-> job.graph,
                   todo |-> {r \in job.rows : r.agent # None /\ r.cost # NoNum}]
        /\ UNCHANGED <<completed, tier2>>
    BY <1>3 DEF StoreVerdict, storeVars
  <2>4. /\ DOMAIN verdicts' = DOMAIN verdicts \cup {job.graph}
        /\ \A g \in DOMAIN verdicts : g # job.graph => verdicts'[g] = verdicts[g]
    BY <2>2
  <2> QED
    BY <2>1, <2>3, <2>4 DEF AtWork, Owed
<1>4. ASSUME NEW r, job.stage = "stored", Sample(r)
      PROVE  WorkInv'
  <2>1. PICK g \in completed \cap DOMAIN verdicts :
          \E todo : job = [stage |-> "stored", graph |-> g, todo |-> todo]
    BY <1>4 DEF AtWork, NoJob
  <2>2. PICK todo : job = [stage |-> "stored", graph |-> g, todo |-> todo]
    BY <2>1
  <2>3. job' = [stage |-> "stored", graph |-> g, todo |-> todo \ {r}]
    BY <1>4, <2>2 DEF Sample
  <2>4. UNCHANGED <<completed, verdicts, tier2>>
    BY <1>4 DEF Sample, storeVars
  <2> QED
    BY <2>3, <2>4 DEF AtWork, Owed
<1>5. CASE Publish
  <2>1. PICK g \in completed \cap DOMAIN verdicts : job.graph = g
    BY <1>5 DEF Publish, AtWork, NoJob
  <2>2. /\ job' = [stage |-> "published", graph |-> g]
        /\ UNCHANGED <<completed, verdicts>>
        /\ tier2 \subseteq tier2'
        /\ verdicts[g].flagged \/ verdicts[g].sampled => g \in tier2'
    BY <1>5, <2>1 DEF Publish, storeVars
  <2> QED
    BY <2>1, <2>2 DEF AtWork, Owed
<1>6. CASE Ack
  <2>1. PICK g \in completed \cap DOMAIN verdicts :
          /\ job.graph = g
          /\ verdicts[g].flagged \/ verdicts[g].sampled => g \in tier2
    BY <1>6 DEF Ack, AtWork, NoJob
  <2>2. completed' = completed \ {g} /\ job' = NoJob /\ UNCHANGED <<verdicts, tier2>>
    BY <1>6, <2>1 DEF Ack
  <2> QED
    BY <2>1, <2>2 DEF AtWork, Owed
<1>7. CASE WorkerDies
  BY <1>7 DEF WorkerDies, AtWork, Owed
<1>8. CASE UNCHANGED tier1Vars
  BY <1>8 DEF tier1Vars, storeVars, tierVars, AtWork, Owed
<1> QED
  BY <1>1, <1>2, <1>3, <1>4, <1>5, <1>6, <1>7, <1>8 DEF Tier1Next

(* Wherever the worker dies, the entry or the request is there.                 *)
THEOREM Invariance == Tier1Spec => []WorkInv
  BY Start, WorkStep, PTL DEF Tier1Spec

(* A graph that tier 1 acknowledged with a defect on record has been requested  *)
(* for analysis, wherever the worker died on the way and whatever the judge     *)
(* answered the second time (Tier1Processor.process).                           *)
THEOREM RequestedForGood == Tier1Spec => []DefectsRequested
<1>1. WorkInv => DefectsRequested
  BY DEF WorkInv, Owed, DefectsRequested
<1> QED
  BY Invariance, <1>1, PTL

(* An entry leaves the stream only when the graph has its verdict and, flagged  *)
(* or sampled, its request: the acknowledgement is never ahead of the work.     *)
AckedAfterRequest ==
  \A g \in completed : g \notin completed' =>
    /\ g \in DOMAIN verdicts
    /\ verdicts[g].flagged \/ verdicts[g].sampled => g \in tier2
THEOREM AckLast == Tier1Spec => [][AckedAfterRequest]_tier1Vars
<1>1. WorkInv /\ [Tier1Next]_tier1Vars => [AckedAfterRequest]_tier1Vars
  <2> SUFFICES ASSUME WorkInv, Tier1Next, NEW g \in completed, g \notin completed'
               PROVE  /\ g \in DOMAIN verdicts
                      /\ verdicts[g].flagged \/ verdicts[g].sampled => g \in tier2
    BY DEF AckedAfterRequest
  <2>1. ~ StoreNext
    BY StoreAdds
  <2>2. Ack
    BY <2>1 DEF Tier1Next, Load, StoreVerdict, Sample, Publish, WorkerDies, storeVars
  <2> QED
    BY <2>2 DEF Ack, WorkInv, AtWork, NoJob
<1> QED
  BY Invariance, <1>1, PTL DEF Tier1Spec

--------------------------------------------------------------------------------
(* The keys of the runs that the AGENT spans in S open in trace t.              *)
Keys(S, t) == {Ident(s) : s \in {x \in S : x.kind = "AGENT" /\ x.trace = t}}
KeysOf(rows) == {r.key : r \in rows}

(* map_spans makes one run for each AGENT span it is given.                     *)
LEMMA RunKeys ==
  ASSUME NEW q, NEW a2a
  PROVE  KeysOf(map_spans(q, a2a).runs) = opener_run(q)
<1>1. map_spans(q, a2a).runs = Runs(q)
  BY DEF map_spans
<1>2. \A key : build_run(q, key).key = key
  BY DEF build_run
<1> QED
  BY <1>1, <1>2 DEF Runs, KeysOf

(* The keys in one trace are those of its AGENT spans.                          *)
LEMMA Openers ==
  ASSUME NEW q, NEW t
  PROVE  {k \in opener_run(q) : k[1] = t} = Keys(ToSet(q), t)
<1>1. opener_run(q) = {Ident(s) : s \in {x \in ToSet(q) : x.kind = "AGENT"}}
  BY DEF opener_run, ToSet
<1>2. \A s : Ident(s)[1] = s.trace
  BY DEF Ident
<1> QED
  BY <1>1, <1>2 DEF Keys

(* The store keeps what makes a run of a span.                                  *)
LEMMA SpanKept ==
  ASSUME NEW s, {"trace", "id", "kind", "status"} \subseteq DOMAIN s
  PROVE  /\ mappable_span(s).trace = s.trace /\ mappable_span(s).kind = s.kind
         /\ Ident(mappable_span(s)) = Ident(s)
<1>1. mappable_span(s).trace = s.trace /\ mappable_span(s).kind = s.kind /\ mappable_span(s).id = s.id
  BY DEF mappable_span
<1> QED
  BY <1>1 DEF Ident

(* The other order lists the same spans.                                        *)
LEMMA ReversedSet ==
  ASSUME NEW q, NEW n \in Nat, DOMAIN q = 1..n, Len(q) = n
  PROVE  ToSet(Reverse(q)) = ToSet(q)
<1>1. Reverse(q) = [i \in 1..n |-> q[(n - i) + 1]]
  BY DEF Reverse
<1>2. \A i \in 1..n : (n - i) + 1 \in 1..n /\ (n - ((n - i) + 1)) + 1 = i
  OBVIOUS
<1> DEFINE back == [i \in 1..n |-> q[(n - i) + 1]]
<1>3. DOMAIN back = 1..n /\ \A i \in 1..n : back[i] = q[(n - i) + 1]
  OBVIOUS
<1> HIDE DEF back
<1>4. ASSUME NEW i \in 1..n
      PROVE  back[i] \in ToSet(q) /\ q[i] \in ToSet(back)
  <2>1. back[(n - i) + 1] = q[i]
    BY <1>2, <1>3
  <2> QED
    BY <1>2, <1>3, <2>1 DEF ToSet
<1>5. ToSet(back) = ToSet(q)
  BY <1>3, <1>4 DEF ToSet
<1> QED
  BY <1>1, <1>5 DEF back

(* What is mapped of a set of spans, as it came or as the store kept it, has the *)
(* keys of its AGENT spans.                                                     *)
LEMMA MappedKeys ==
  ASSUME NEW p \in Programs, NEW S \in SUBSET p, NEW t
  PROVE  {k \in KeysOf(map_spans(Listed(S), A2ADetection).runs) : k[1] = t} = Keys(S, t)
  BY ProgramsAssumption, RunKeys, Openers

LEMMA ListedKeys ==
  ASSUME NEW p \in Programs, NEW S \in SUBSET p, NEW t, NEW spans \in InSomeOrder(Listed(S))
  PROVE  {k \in KeysOf(map_spans(spans, A2ADetection).runs) : k[1] = t} = Keys(S, t)
<1> DEFINE rows == Listed(S)
           q == [i \in DOMAIN rows |-> mappable_span(rows[i])]
<1>1. /\ rows \in Seq(S) /\ ToSet(rows) = S
      /\ \A s \in S : {"trace", "id", "kind", "status"} \subseteq DOMAIN s
  BY ProgramsAssumption
<1>2. spans \in {q, Reverse(q)}
  BY DEF InSomeOrder
<1>3. PICK n \in Nat : DOMAIN rows = 1..n /\ Len(rows) = n /\ \A i \in 1..n : rows[i] \in S
  BY <1>1
<1> HIDE DEF rows
<1>4. DOMAIN q = 1..n /\ Len(q) = n
  BY <1>3
<1>5. ToSet(spans) = ToSet(q)
  BY <1>2, <1>4, ReversedSet
<1>6. ToSet(q) = {mappable_span(s) : s \in S}
  <2>1. ToSet(q) = {mappable_span(s) : s \in ToSet(rows)}
    BY DEF ToSet
  <2> QED
    BY <1>1, <2>1
<1>7. \A s \in S : /\ mappable_span(s).trace = s.trace /\ mappable_span(s).kind = s.kind
                   /\ Ident(mappable_span(s)) = Ident(s)
  BY <1>1, SpanKept
<1>8. Keys(ToSet(spans), t) = Keys(S, t)
  BY <1>5, <1>6, <1>7 DEF Keys
<1> QED
  BY <1>8, RunKeys, Openers

(* The store's version of a span opens a run when the span does.                *)
LEMMA ReadKeys ==
  ASSUME NEW p \in Programs, NEW S \in SUBSET p, NEW t,
         NEW spans \in InSomeOrder(Listed(Latest(S)))
  PROVE  {k \in KeysOf(map_spans(spans, A2ADetection).runs) : k[1] = t} = Keys(S, t)
<1>1. Opening(Latest(S)) = Opening(S)
  BY ProgramsAssumption
<1>2. \A T : Keys(T, t) = {k \in Opening(T) : k[1] = t}
  BY DEF Keys, Opening, Ident
<1>3. Latest(S) \in SUBSET p
  BY DEF Latest
<1>4. {k \in KeysOf(map_spans(spans, A2ADetection).runs) : k[1] = t} = Keys(Latest(S), t)
  BY <1>3, ListedKeys
<1> QED
  BY <1>1, <1>2, <1>4

(* A trace that is read in full gives the runs the program ran in it.           *)
LEMMA ReadInFull ==
  ASSUME NEW p \in Programs, NEW S \in SUBSET p, NEW spans \in InSomeOrder(Listed(Latest(S))),
         NEW t \in Traces(S), OfTraces(p, {t}) \subseteq S
  PROVE  /\ Truth[p][t].runs = {r \in map_spans(spans, A2ADetection).runs : r.key[1] = t}
         /\ EdgeRows(Truth[p][t]) \subseteq EdgeRows(map_spans(spans, A2ADetection))
  BY ProgramsAssumption DEF ReadsTrue

(* The program ran in a trace what its AGENT spans open there.                  *)
LEMMA TruthKeys ==
  ASSUME NEW p \in Programs, NEW t \in Traces(p)
  PROVE  KeysOf(Truth[p][t].runs) = Keys(p, t)
<1> DEFINE S == OfTraces(p, {t})
<1>1. S \in SUBSET p /\ t \in Traces(S) /\ Keys(S, t) = Keys(p, t)
  BY DEF OfTraces, Traces, Keys
<1>2. PICK spans : spans \in InSomeOrder(Listed(Latest(S)))
  BY DEF InSomeOrder
<1> DEFINE new == map_spans(spans, A2ADetection).runs
<1>3. Truth[p][t].runs = {r \in new : r.key[1] = t}
  BY <1>1, <1>2, ReadInFull
<1>4. {k \in KeysOf(new) : k[1] = t} = Keys(S, t)
  BY <1>1, <1>2, ReadKeys
<1>5. KeysOf({r \in new : r.key[1] = t}) = {k \in KeysOf(new) : k[1] = t}
  BY DEF KeysOf
<1> QED
  BY <1>1, <1>3, <1>4, <1>5

(* The rows of trace t.                                                         *)
RowsOf(rows, t) == {r \in rows : r.key[1] = t}

(* A request adds no row to a trace whose runs are all there.                   *)
LEMMA RequestKeeps ==
  ASSUME NEW p \in Programs, NEW b \in SUBSET p, NEW rows, NEW t \in Traces(p),
         Truth[p][t].runs = RowsOf(rows, t)
  PROVE  Truth[p][t].runs =
           RowsOf(upsert_runs(rows, map_spans(Listed(b), A2ADetection).runs, FALSE), t)
<1> DEFINE new == map_spans(Listed(b), A2ADetection).runs
<1>1. ASSUME NEW r \in new, r.key[1] = t
      PROVE  r.key \in KeysOf(rows)
  <2>1. r.key \in Keys(b, t)
    BY <1>1, MappedKeys DEF KeysOf
  <2>2. r.key \in KeysOf(Truth[p][t].runs)
    BY <2>1, TruthKeys DEF Keys
  <2> QED
    BY <2>2 DEF KeysOf, RowsOf
<1> QED
  BY <1>1 DEF upsert_runs, RowsOf, KeysOf

(* A re-map that read a trace in full sets its rows to the runs of the program. *)
LEMMA RefreshSets ==
  ASSUME NEW p \in Programs, NEW S \in SUBSET p, NEW spans \in InSomeOrder(Listed(Latest(S))),
         NEW t \in Traces(S), OfTraces(p, {t}) \subseteq S,
         NEW rows, \A r \in RowsOf(rows, t) : r.key \in Keys(p, t)
  PROVE  Truth[p][t].runs =
           RowsOf(upsert_runs(rows, map_spans(spans, A2ADetection).runs, TRUE), t)
<1> DEFINE new == map_spans(spans, A2ADetection).runs
<1>1. Truth[p][t].runs = RowsOf(new, t)
  BY ReadInFull DEF RowsOf
<1>2. Keys(p, t) = Keys(S, t)
  BY DEF OfTraces, Keys
<1>3. {k \in KeysOf(new) : k[1] = t} = Keys(S, t)
  BY ReadKeys
<1>4. \A r \in RowsOf(rows, t) : r.key \in KeysOf(new)
  BY <1>2, <1>3
<1> HIDE DEF new
<1>5. RowsOf(new, t) = RowsOf(upsert_runs(rows, new, TRUE), t)
  BY <1>4 DEF upsert_runs, RowsOf, KeysOf
<1> QED
  BY <1>1, <1>5 DEF new

(* A re-map that read nothing of a trace leaves its rows.                       *)
LEMMA RefreshKeeps ==
  ASSUME NEW p \in Programs, NEW S \in SUBSET p, NEW spans \in InSomeOrder(Listed(Latest(S))),
         NEW t, t \notin Traces(S), NEW rows
  PROVE  RowsOf(upsert_runs(rows, map_spans(spans, A2ADetection).runs, TRUE), t) = RowsOf(rows, t)
<1> DEFINE new == map_spans(spans, A2ADetection).runs
<1>1. Keys(S, t) = {}
  BY DEF Traces, Keys
<1>2. \A r \in new : r.key[1] # t
  BY <1>1, ReadKeys DEF KeysOf
<1> HIDE DEF new
<1>3. RowsOf(upsert_runs(rows, new, TRUE), t) = RowsOf(rows, t)
  BY <1>2 DEF upsert_runs, RowsOf
<1> QED
  BY <1>3 DEF new

(* Each row is the run of an AGENT span of the program.                         *)
Opened(p, rows) == \A r \in rows : r.key \in Keys(p, r.key[1])

LEMMA MappedOpened ==
  ASSUME NEW p \in Programs, NEW S \in SUBSET p
  PROVE  /\ Opened(p, map_spans(Listed(S), A2ADetection).runs)
         /\ \A spans \in InSomeOrder(Listed(Latest(S))) : Opened(p, map_spans(spans, A2ADetection).runs)
<1>1. \A t : Keys(S, t) \subseteq Keys(p, t)
  BY DEF Keys
<1>2. ASSUME NEW r \in map_spans(Listed(S), A2ADetection).runs
      PROVE  r.key \in Keys(p, r.key[1])
  BY <1>1, MappedKeys DEF KeysOf
<1>3. ASSUME NEW spans \in InSomeOrder(Listed(Latest(S))), NEW r \in map_spans(spans, A2ADetection).runs
      PROVE  r.key \in Keys(p, r.key[1])
  BY <1>1, ReadKeys DEF KeysOf
<1> QED
  BY <1>2, <1>3 DEF Opened

LEMMA UpsertOpened ==
  ASSUME NEW p, NEW rows, NEW new, NEW refresh, Opened(p, rows), Opened(p, new)
  PROVE  Opened(p, upsert_runs(rows, new, refresh))
  BY DEF Opened, upsert_runs

(* The exporter and the requests hold spans of the program.                     *)
Emitted == /\ program \in Programs /\ unsent \subseteq program
           /\ \A b \in posts : b \subseteq program
           /\ raw \in [program -> Nat]

InStore(t) == \A s \in program : s.trace = t => raw[s] > 0

(* What a re-map has read was in the raw store; of a whole trace it is everything. *)
ReadFrom(T) ==
  /\ DOMAIN remap.copies = OfTraces(program, T)
  /\ \A s \in DOMAIN remap.copies :
       /\ remap.copies[s] \in Nat
       /\ remap.copies[s] > 0 => raw[s] > 0
       /\ s.trace \in whole => remap.copies[s] > 0
Reading ==
  \/ remap = NoRemap
  \/ /\ remap.stage \in {"read", "mapped"}
     /\ \E T : ReadFrom(T)

(* The traces the re-map has read in full and mapped.                           *)
InFull == {t \in Traces(DOMAIN remap.copies) :
             \A s \in OfTraces(DOMAIN remap.copies, {t}) : remap.copies[s] > 0}
Mapped(t) == remap.stage = "mapped" /\ t \in InFull

(* The rows of a trace are what the program did.                                *)
Settled(t) == /\ t \in Traces(program) /\ InStore(t)
              /\ Truth[program][t].runs = RowsOf(runs, t)
              /\ EdgeRows(Truth[program][t]) \subseteq edges

StoreInv ==
  /\ Emitted /\ Reading /\ Opened(program, runs)
  /\ \A t : t \in whole \/ Mapped(t) => Settled(t)

(* Nothing is stored and nothing is whole.                                      *)
LEMMA StoreStart == Tier1Init => StoreInv
<1> SUFFICES ASSUME Tier1Init PROVE StoreInv
  OBVIOUS
<1>1. Emitted
  BY DEF Tier1Init, StoreInit, Emitted
<1>2. Reading /\ Opened(program, runs)
  BY DEF Tier1Init, StoreInit, Reading, Opened, NoRemap
<1>3. \A t : ~(t \in whole \/ Mapped(t))
  BY DEF Tier1Init, StoreInit, Mapped, NoRemap
<1> QED
  BY <1>1, <1>2, <1>3 DEF StoreInv

(* As long as the store only grows and keeps the rows of the traces that are    *)
(* settled, the invariant stays.                                                *)
Grows == /\ program' = program /\ DOMAIN raw' = DOMAIN raw
         /\ \A s \in DOMAIN raw : raw[s] > 0 => raw'[s] > 0
         /\ edges \subseteq edges'

Keeps(t) == Truth[program][t].runs = RowsOf(runs, t) => Truth[program][t].runs = RowsOf(runs', t)

(* A settled trace whose rows are kept stays settled.                           *)
LEMMA SettledStays ==
  ASSUME Emitted, Grows, NEW t, Settled(t), Keeps(t)
  PROVE  Settled(t)'
<1>1. InStore(t)'
  BY DEF Grows, Settled, InStore, Emitted
<1>2. Truth' = Truth
  BY DEF Truth
<1> QED
  BY <1>1, <1>2 DEF Grows, Settled, Keeps

(* What was read stays in the raw store.                                        *)
LEMMA ReadingStays ==
  ASSUME Emitted, Reading, Grows, UNCHANGED <<remap, whole>>
  PROVE  Reading'
<1>1. CASE remap = NoRemap
  BY <1>1 DEF Reading, NoRemap
<1>2. ASSUME NEW T, ReadFrom(T)
      PROVE  ReadFrom(T)'
  <2>1. DOMAIN remap.copies = OfTraces(program, T) /\ OfTraces(program, T) \subseteq DOMAIN raw
    BY <1>2 DEF ReadFrom, Emitted, OfTraces
  <2> QED
    BY <1>2, <2>1 DEF ReadFrom, Grows, OfTraces
<1> QED
  BY <1>1, <1>2 DEF Reading

(* A request, or what becomes of it, reads nothing.                             *)
LEMMA RequestStep ==
  ASSUME StoreInv, Grows, Emitted', Opened(program', runs'), UNCHANGED <<remap, whole>>,
         \A t \in Traces(program) : Keeps(t)
  PROVE  StoreInv'
<1>1. Reading'
  BY ReadingStays DEF StoreInv
<1>2. ASSUME NEW t, (t \in whole \/ Mapped(t))'
      PROVE  Settled(t)'
  <2>1. Settled(t)
    BY <1>2 DEF StoreInv, Mapped, InFull, Traces, OfTraces
  <2> QED
    BY <2>1, SettledStays DEF StoreInv, Settled
<1> QED
  BY <1>1, <1>2 DEF StoreInv

(* The upsert of a request adds edges, and no run to a settled trace.           *)
LEMMA UpsertRowsKeeps ==
  ASSUME StoreInv, NEW b \in SUBSET program, UpsertRows(b)
  PROVE  /\ edges \subseteq edges' /\ Opened(program, runs')
         /\ \A t \in Traces(program) : Keeps(t)
<1>1. program \in Programs /\ Opened(program, runs)
  BY DEF StoreInv, Emitted
<1>2. runs' = upsert_runs(runs, map_spans(Listed(b), A2ADetection).runs, FALSE)
  BY DEF UpsertRows
<1>3. Opened(program, runs')
  BY <1>1, <1>2, MappedOpened, UpsertOpened
<1>4. \A t \in Traces(program) : Keeps(t)
  BY <1>1, <1>2, RequestKeeps DEF Keeps
<1>5. edges \subseteq edges'
  BY DEF UpsertRows
<1> QED
  BY <1>3, <1>4, <1>5

(* Spans that come in are in no row yet.                                        *)
LEMMA InsertStep ==
  ASSUME StoreInv, NEW b \in SUBSET unsent, InsertSpans(b)
  PROVE  StoreInv'
<1>1. /\ program' = program /\ unsent' = unsent \ b /\ posts' = posts \cup {b}
      /\ raw' = [s \in program |-> IF s \in b THEN raw[s] + 1 ELSE raw[s]]
      /\ UNCHANGED <<runs, edges, remap, whole>>
  BY DEF InsertSpans, rowVars
<1>2. Emitted'
  BY <1>1 DEF StoreInv, Emitted
<1>3. Grows
  BY <1>1 DEF StoreInv, Emitted, Grows
<1>4. Opened(program', runs') /\ \A t \in Traces(program) : Keeps(t)
  BY <1>1 DEF StoreInv, Keeps
<1> QED
  BY <1>1, <1>2, <1>3, <1>4, RequestStep

(* A request is upserted, or sent again at any point.                           *)
LEMMA UpsertStep ==
  ASSUME StoreInv, NEW b \in posts, Upsert(b) \/ SendAgain(b)
  PROVE  StoreInv'
<1>1. /\ b \in SUBSET program
      /\ program' = program /\ unsent' = unsent /\ posts' \subseteq posts
      /\ UNCHANGED <<remap, whole>>
  BY DEF Upsert, SendAgain, StoreInv, Emitted
<1>2. raw' = raw \/ raw' = [s \in program |-> IF s \in b THEN raw[s] + 1 ELSE raw[s]]
  BY DEF Upsert, SendAgain
<1>3. UpsertRows(b) \/ UNCHANGED <<runs, edges>>
  BY DEF Upsert, SendAgain, rowVars
<1>4. Emitted'
  BY <1>1, <1>2 DEF StoreInv, Emitted
<1>5. /\ edges \subseteq edges' /\ Opened(program', runs')
      /\ \A t \in Traces(program) : Keeps(t)
  <2>1. CASE UpsertRows(b)
    BY <1>1, <2>1, UpsertRowsKeeps
  <2>2. CASE UNCHANGED <<runs, edges>>
    BY <1>1, <2>2 DEF StoreInv, Keeps
  <2> QED
    BY <1>3, <2>1, <2>2
<1>6. Grows
  BY <1>1, <1>2, <1>5 DEF StoreInv, Emitted, Grows
<1> QED
  BY <1>1, <1>4, <1>5, <1>6, RequestStep

(* The exporter and the rows are left alone.                                    *)
SameRows == UNCHANGED <<program, unsent, posts, raw, runs, edges>>

LEMMA SameSettled ==
  ASSUME SameRows, NEW t, Settled(t)
  PROVE  Settled(t)'
<1>1. Truth' = Truth
  BY DEF Truth
<1> QED
  BY <1>1 DEF SameRows, Settled, InStore

(* Of a whole trace the re-map finds at least one copy of every span.           *)
LEMMA SelectStep ==
  ASSUME StoreInv, NEW g, SelectSpans(g)
  PROVE  StoreInv'
<1> DEFINE T == {r.key[1] : r \in {x \in runs : x.graph = g}}
           copies == [s \in OfTraces(program, T) |-> raw[s]]
<1>1. /\ SameRows /\ UNCHANGED whole
      /\ remap' = [stage |-> "read", graph |-> g, copies |-> copies]
  BY DEF SelectSpans, SameRows, rowVars
<1>2. Emitted' /\ Opened(program, runs)'
  BY <1>1 DEF SameRows, StoreInv, Emitted
<1>3. ASSUME NEW s \in OfTraces(program, T)
      PROVE  /\ copies[s] \in Nat /\ copies[s] = raw[s]
             /\ s.trace \in whole => copies[s] > 0
  <2>1. s \in program /\ copies[s] = raw[s]
    BY <1>3 DEF OfTraces
  <2>2. s.trace \in whole => raw[s] > 0
    BY <2>1 DEF StoreInv, Settled, InStore
  <2> QED
    BY <2>1, <2>2 DEF StoreInv, Emitted
<1>4. DOMAIN copies = OfTraces(program, T)
  OBVIOUS
<1> HIDE DEF copies, T
<1>5. remap'.stage = "read" /\ remap'.copies = copies
  BY <1>1
<1>6. ReadFrom(T)'
  <2>1. DOMAIN remap'.copies = OfTraces(program', T')
    BY <1>1, <1>4, <1>5 DEF SameRows, T
  <2>2. ASSUME NEW s \in DOMAIN remap'.copies
        PROVE  /\ remap'.copies[s] \in Nat
               /\ remap'.copies[s] > 0 => raw'[s] > 0
               /\ s.trace \in whole' => remap'.copies[s] > 0
    BY <1>1, <1>3, <1>4, <1>5, <2>2 DEF SameRows
  <2> QED
    BY <2>1, <2>2 DEF ReadFrom
<1>7. Reading'
  BY <1>5, <1>6 DEF Reading
<1>8. ASSUME NEW t, (t \in whole \/ Mapped(t))'
      PROVE  Settled(t)'
  <2>1. Settled(t)
    BY <1>1, <1>5, <1>8 DEF StoreInv, Mapped
  <2> QED
    BY <1>1, <2>1, SameSettled
<1> QED
  BY <1>2, <1>7, <1>8 DEF StoreInv

(* Of the traces a re-map has read, those read in full get the rows of the program; *)
(* a whole trace is among them or was not read.                                 *)
LEMMA RefreshStep ==
  ASSUME StoreInv, Refresh
  PROVE  StoreInv'
<1> DEFINE copies == remap.copies
           S == {s \in DOMAIN copies : copies[s] > 0}
<1>1. PICK T : remap.stage = "read" /\ ReadFrom(T)
  BY DEF Refresh, StoreInv, Reading, NoRemap
<1>2. PICK spans \in InSomeOrder(Listed(Latest(S))) :
        /\ runs' = upsert_runs(runs, map_spans(spans, A2ADetection).runs, TRUE)
        /\ edges' = edges \cup EdgeRows(map_spans(spans, A2ADetection))
        /\ remap' = [stage |-> "mapped", graph |-> remap.graph, copies |-> remap.copies,
                     missing |-> map_spans(spans, A2ADetection).unresolved]
  BY DEF Refresh, select_spans, dedupe_latest, copies, S
<1>3. UNCHANGED <<program, unsent, posts, raw, whole>>
  BY DEF Refresh
<1>4. DOMAIN copies = OfTraces(program, T) /\ S \in SUBSET program /\ program \in Programs
  BY <1>1 DEF ReadFrom, OfTraces, StoreInv, Emitted
<1>5. remap'.stage = "mapped" /\ remap'.copies = copies
  BY <1>2
<1>6. Emitted'
  BY <1>3 DEF StoreInv, Emitted
<1> HIDE DEF copies
<1>7. Reading'
  <2>1. ReadFrom(T)'
    BY <1>1, <1>3, <1>5 DEF ReadFrom, copies
  <2> QED
    BY <1>5, <2>1 DEF Reading
<1>8. Opened(program', runs')
  BY <1>2, <1>3, <1>4, MappedOpened, UpsertOpened DEF StoreInv
<1>9. Truth' = Truth
  BY DEF Truth
<1>10. ASSUME NEW t, (t \in whole \/ Mapped(t))'
       PROVE  Settled(t)'
  <2>1. CASE t \in Traces(S) /\ OfTraces(program, {t}) \subseteq S
    <3>1. \A r \in RowsOf(runs, t) : r.key \in Keys(program, t)
      BY DEF StoreInv, Opened, RowsOf
    <3>2. Truth[program][t].runs = RowsOf(runs', t)
      BY <1>2, <1>4, <2>1, <3>1, RefreshSets
    <3>3. EdgeRows(Truth[program][t]) \subseteq edges'
      BY <1>2, <1>4, <2>1, ReadInFull
    <3>4. \A s \in program : s.trace = t => raw[s] > 0
      BY <1>1, <2>1 DEF OfTraces, ReadFrom, copies
    <3>5. t \in Traces(program)
      BY <1>4, <2>1 DEF Traces
    <3> QED
      BY <1>3, <1>9, <3>2, <3>3, <3>4, <3>5 DEF Settled, InStore
  <2>2. CASE t \in whole /\ t \notin Traces(S)
    <3>1. Settled(t)
      BY <2>2 DEF StoreInv
    <3>2. RowsOf(runs', t) = RowsOf(runs, t)
      BY <1>2, <1>4, <2>2, RefreshKeeps
    <3> QED
      BY <1>2, <1>3, <1>9, <3>1, <3>2 DEF Settled, InStore
  <2>3. ASSUME t \in whole, t \in Traces(S)
        PROVE  OfTraces(program, {t}) \subseteq S
    BY <1>1, <1>4, <2>3 DEF Traces, OfTraces, ReadFrom, copies
  <2>4. ASSUME Mapped(t)'
        PROVE  t \in Traces(S) /\ OfTraces(program, {t}) \subseteq S
    <3>1. t \in Traces(DOMAIN copies) /\ \A s \in OfTraces(DOMAIN copies, {t}) : copies[s] > 0
      BY <1>5, <2>4 DEF Mapped, InFull
    <3> QED
      BY <1>4, <3>1 DEF Traces, OfTraces
  <2> QED
    BY <1>3, <1>10, <2>1, <2>2, <2>3, <2>4
<1> QED
  BY <1>6, <1>7, <1>8, <1>10 DEF StoreInv

(* The re-map is over; what it mapped in full is whole from now on.             *)
LEMMA EndStep ==
  ASSUME StoreInv, ResolveDeferred \/ RemapRaises
  PROVE  StoreInv'
<1>1. /\ UNCHANGED <<program, unsent, posts, raw, runs>> /\ edges \subseteq edges'
      /\ remap' = NoRemap
  BY DEF ResolveDeferred, RemapRaises, rowVars
<1>2. \A t : t \in whole' => t \in whole \/ Mapped(t)
  BY DEF ResolveDeferred, RemapRaises, Mapped, InFull
<1>3. Emitted' /\ Opened(program', runs')
  BY <1>1 DEF StoreInv, Emitted
<1>4. Reading'
  BY <1>1 DEF Reading, NoRemap
<1>5. Truth' = Truth
  BY DEF Truth
<1>6. ASSUME NEW t, (t \in whole \/ Mapped(t))'
      PROVE  Settled(t)'
  <2>1. t \in whole'
    BY <1>1, <1>6 DEF Mapped, NoRemap
  <2>2. Settled(t)
    BY <1>2, <2>1 DEF StoreInv
  <2> QED
    BY <1>1, <1>5, <2>2 DEF Settled, InStore
<1> QED
  BY <1>3, <1>4, <1>6 DEF StoreInv

(* Every step of the store keeps what is settled.                               *)
LEMMA StoreStep ==
  ASSUME StoreInv, StoreNext
  PROVE  StoreInv'
BY InsertStep, UpsertStep, SelectStep, RefreshStep, EndStep DEF StoreNext

(* Once every trace of the program is whole, the stored runs are the program's. *)
(* The runs of graph g as program p ran them.                                   *)
OfProgram(p, g) == {r \in UNION {Truth[p][t].runs : t \in Traces(p)} : r.graph = g}

LEMMA RunsOfProgram ==
  ASSUME StoreInv, Traces(program) = whole
  PROVE  \A g : RunsOf(g) = OfProgram(program, g)
<1>1. ASSUME NEW r \in runs
      PROVE  \E t \in Traces(program) : r \in Truth[program][t].runs
  <2>1. r.key \in Keys(program, r.key[1])
    BY DEF StoreInv, Opened
  <2>2. r.key[1] \in Traces(program)
    BY <2>1 DEF Keys, Traces
  <2> QED
    BY <2>2 DEF StoreInv, Settled, RowsOf
<1>2. ASSUME NEW t \in Traces(program), NEW r \in Truth[program][t].runs
      PROVE  r \in runs
  BY DEF StoreInv, Settled, RowsOf
<1> QED
  BY <1>1, <1>2 DEF RunsOf, OfProgram

(* The two flags say what the runs they were made from were.                    *)
Says(flags, rows) ==
  /\ "failed_runs" \in flags <=> \E r \in rows : r.status = "failed"
  /\ "duplicate_side_effect" \in flags <=>
       \E r \in rows : Failing(duplicate_side_effect(Calls(r))) # {}

(* The check of repeated calls reports under one name.                          *)
LEMMA NamedOnce ==
  ASSUME NEW calls
  PROVE  Names(Failing(duplicate_side_effect(calls))) \subseteq {"duplicate_side_effect"}
  BY DEF Names, Failing, duplicate_side_effect, Signal

(* HardFlags says it of the runs it is given.                                   *)
LEMMA FlagsSay ==
  ASSUME NEW rows, NEW links
  PROVE  Says(HardFlags(rows, links), rows)
<1> DEFINE named(r) == Names(Failing(duplicate_side_effect(Calls(r))))
<1>1. \A r : /\ named(r) \subseteq {"duplicate_side_effect"}
             /\ named(r) = {} <=> Failing(duplicate_side_effect(Calls(r))) = {}
  BY NamedOnce DEF Names
<1> HIDE DEF named
<1>2. PICK others : /\ HardFlags(rows, links) =
                         {f \in {"failed_runs"} : \E r \in rows : r.status = "failed"}
                           \cup others \cup UNION {named(r) : r \in rows}
                    /\ "failed_runs" \notin others /\ "duplicate_side_effect" \notin others
  <2> DEFINE shown == deliverable_run(rows, links).output
             rest == {f \in {"cost_overrun"} : graph_cost(rows) > CostBudget}
                       \cup {f \in {"schema_violation"} : \E r \in rows : r.output = "off_schema"}
                       \cup {f \in {"degenerate_output"} : shown \in {"empty", "repetitive"}}
                       \cup {f \in {"required_section"} : shown = "no_section"}
                       \cup {f \in {"artifact_integrity"} : shown = "broken_file"}
  <2>1. HardFlags(rows, links) =
          {f \in {"failed_runs"} : \E r \in rows : r.status = "failed"}
            \cup rest \cup UNION {named(r) : r \in rows}
    BY DEF HardFlags, named
  <2>2. "failed_runs" \notin rest /\ "duplicate_side_effect" \notin rest
    OBVIOUS
  <2> QED
    BY <2>1, <2>2
<1>3. "failed_runs" \in HardFlags(rows, links) <=> \E r \in rows : r.status = "failed"
  BY <1>1, <1>2
<1>4. "duplicate_side_effect" \in HardFlags(rows, links) <=>
        \E r \in rows : "duplicate_side_effect" \in named(r)
  BY <1>2
<1> QED
  BY <1>1, <1>3, <1>4 DEF Says

(* What the worker took up, and what it stored, tells of the program, where all of *)
(* it had been re-mapped.                                                       *)
FlagsInv ==
  /\ job.stage = "loaded" /\ job.complete => Says(job.flags, OfProgram(program, job.graph))
  /\ \A g \in DOMAIN verdicts : verdicts[g].complete => Says(verdicts[g].flags, OfProgram(program, g))

IntakeInv == StoreInv /\ FlagsInv

(* What the program emits does not change.                                      *)
SameProgram == program' = program

(* A step that writes no verdict and takes up no graph changes nothing of it.   *)
LEMMA FlagsStay ==
  ASSUME FlagsInv, SameProgram, verdicts' = verdicts, job' = job \/ job'.stage # "loaded"
  PROVE  FlagsInv'
BY DEF FlagsInv, SameProgram

(* The worker takes up the runs of the program, if all of it was re-mapped.     *)
LEMMA LoadStep ==
  ASSUME IntakeInv, NEW g, Load(g)
  PROVE  FlagsInv'
<1>1. /\ SameProgram /\ verdicts' = verdicts
      /\ job'.stage = "loaded" /\ job'.graph = g
      /\ job'.flags = HardFlags(RunsOf(g), EdgesOf(g))
      /\ job'.complete = (Traces(program) = whole)
  BY DEF Load, storeVars, SameProgram
<1>2. ASSUME job'.complete
      PROVE  Says(job'.flags, OfProgram(program, g))
  <2>1. RunsOf(g) = OfProgram(program, g)
    BY <1>1, <1>2, RunsOfProgram DEF IntakeInv
  <2> QED
    BY <1>1, <2>1, FlagsSay
<1> QED
  BY <1>1, <1>2 DEF IntakeInv, FlagsInv, SameProgram

(* What it then stores is what it took up, and perhaps a breach of the form.    *)
LEMMA VerdictStep ==
  ASSUME IntakeInv, NEW answer, NEW form, StoreVerdict(answer, form)
  PROVE  FlagsInv'
<1> DEFINE flags == job.flags \cup {f \in {"terminal_form_breach"} : Judged(job, answer, form).form = "bad"}
<1>1. SameProgram /\ job.stage = "loaded" /\ job'.stage = "stored"
  BY DEF StoreVerdict, storeVars, SameProgram
<1>2. PICK row : /\ row.flags = flags /\ row.complete = job.complete
                 /\ verdicts' = [g \in DOMAIN verdicts \cup {job.graph} |->
                                   IF g = job.graph THEN row ELSE verdicts[g]]
  BY DEF StoreVerdict
<1>3. ASSUME NEW rows, Says(job.flags, rows)
      PROVE  Says(flags, rows)
  BY <1>3 DEF Says
<1> HIDE DEF flags
<1>4. ASSUME NEW g \in DOMAIN verdicts', verdicts'[g].complete
      PROVE  Says(verdicts'[g].flags, OfProgram(program, g))
  <2>1. CASE g = job.graph
    <3>1. verdicts'[g] = row
      BY <1>2, <1>4, <2>1
    <3>2. Says(job.flags, OfProgram(program, g))
      BY <1>1, <1>2, <1>4, <2>1, <3>1 DEF IntakeInv, FlagsInv
    <3> QED
      BY <1>2, <1>3, <3>1, <3>2
  <2>2. CASE g # job.graph
    <3>1. g \in DOMAIN verdicts /\ verdicts'[g] = verdicts[g]
      BY <1>2, <1>4, <2>2
    <3> QED
      BY <1>4, <3>1 DEF IntakeInv, FlagsInv
  <2> QED
    BY <2>1, <2>2
<1> QED
  BY <1>1, <1>4 DEF FlagsInv, SameProgram

(* No graph has a verdict yet.                                                  *)
LEMMA IntakeStart == Tier1Init => IntakeInv
  BY StoreStart DEF Tier1Init, IntakeInv, FlagsInv, NoJob

(* The worker reads the rows and writes none.                                   *)
LEMMA WorkerReads ==
  ASSUME StoreInv,
         UNCHANGED <<program, unsent, posts, raw, runs, edges, remap, whole>>
  PROVE  StoreInv'
<1>1. Emitted' /\ Opened(program', runs')
  BY DEF StoreInv, Emitted
<1>2. Reading'
  BY DEF StoreInv, Reading, ReadFrom, NoRemap
<1>3. ASSUME NEW t, (t \in whole \/ Mapped(t))'
      PROVE  Settled(t)'
  <2>1. Settled(t)
    BY <1>3 DEF StoreInv, Mapped, InFull
  <2> QED
    BY <2>1, SameSettled DEF SameRows
<1> QED
  BY <1>1, <1>2, <1>3 DEF StoreInv

(* No step of the store or the worker breaks the invariant.                     *)
LEMMA IntakeStep == IntakeInv /\ [Tier1Next]_tier1Vars => IntakeInv'
<1> SUFFICES ASSUME IntakeInv, [Tier1Next]_tier1Vars
             PROVE  IntakeInv'
  OBVIOUS
<1>1. CASE StoreNext /\ UNCHANGED tierVars
  <2>1. StoreInv'
    BY <1>1, StoreStep DEF IntakeInv
  <2>2. SameProgram
    BY <1>1 DEF SameProgram, StoreNext, InsertSpans, Upsert, SendAgain, SelectSpans, Refresh,
                ResolveDeferred, RemapRaises
  <2> QED
    BY <1>1, <2>1, <2>2, FlagsStay DEF IntakeInv, tierVars
<1>2. ASSUME ~ (StoreNext /\ UNCHANGED tierVars)
      PROVE  StoreInv' /\ SameProgram
  <2>1. UNCHANGED <<program, unsent, posts, raw, runs, edges, remap, whole>>
    BY <1>2 DEF Tier1Next, Load, StoreVerdict, Sample, Publish, Ack, WorkerDies, tier1Vars,
                storeVars, rowVars
  <2> QED
    BY <2>1, WorkerReads DEF IntakeInv, SameProgram
<1>3. ASSUME NEW g \in completed, Load(g)
      PROVE  FlagsInv'
  BY <1>3, LoadStep
<1>4. ASSUME NEW answer, NEW form, StoreVerdict(answer, form)
      PROVE  FlagsInv'
  BY <1>4, VerdictStep
<1>5. ASSUME SameProgram, \/ job.stage = "stored" /\ \E r \in job.todo : Sample(r)
                          \/ Publish \/ Ack \/ WorkerDies \/ UNCHANGED tier1Vars
      PROVE  FlagsInv'
  <2>1. verdicts' = verdicts
    BY <1>5 DEF Sample, Publish, Ack, WorkerDies, tier1Vars, tierVars
  <2>2. job' = job \/ job'.stage # "loaded"
    <3>1. ASSUME NEW r, Sample(r), job.stage = "stored"
          PROVE  job' = job \/ job'.stage # "loaded"
      BY <3>1 DEF Sample
    <3>2. Publish => job'.stage = "published"
      BY DEF Publish
    <3>3. Ack \/ WorkerDies => job'.stage = "idle"
      BY DEF Ack, WorkerDies, NoJob
    <3>4. UNCHANGED tier1Vars => job' = job
      BY DEF tier1Vars, tierVars
    <3> QED
      BY <1>5, <3>1, <3>2, <3>3, <3>4
  <2> QED
    BY <1>5, <2>1, <2>2, FlagsStay DEF IntakeInv
<1> QED
  BY <1>1, <1>2, <1>3, <1>4, <1>5 DEF IntakeInv, Tier1Next

(* Whatever is whole is settled, and what the worker holds or stored of a program *)
(* that was whole is what the program did.                                      *)
THEOREM IntakeInvariance == Tier1Spec => []IntakeInv
  BY IntakeStart, IntakeStep, PTL DEF Tier1Spec

(* Once a trace was re-mapped from all its spans, each of its runs is stored as *)
(* the program ran it, however the spans were split over the requests, in which *)
(* order they came, which were sent twice, and what arrived since               *)
(* (TraceRemapper.remap, upsert_batch).                                         *)
THEOREM RowsSettle == Tier1Spec => []RowsOfWhole
<1>1. IntakeInv => RowsOfWhole
  BY DEF IntakeInv, StoreInv, Settled, RowsOf, RowsOfWhole
<1> QED
  BY IntakeInvariance, <1>1, PTL

(* Once a trace was re-mapped from all its spans, every edge between its runs is *)
(* stored with the graph of the run it leads to (TraceRemapper.remap).          *)
THEOREM EdgesSettle == Tier1Spec => []EdgesOfWhole
<1>1. IntakeInv => EdgesOfWhole
  BY DEF IntakeInv, StoreInv, Settled, EdgesOfWhole
<1> QED
  BY IntakeInvariance, <1>1, PTL

(* A verdict reached after the program was re-mapped from all its spans names a *)
(* failed run or a repeated side effect exactly when the program had one        *)
(* (Tier1Processor.process).                                                    *)
THEOREM VerdictsTellOfProgram == Tier1Spec => []FlagsOfProgram
<1>1. IntakeInv => FlagsOfProgram
  BY DEF IntakeInv, FlagsInv, Says, OfProgram, TrueRuns, FlagsOfProgram
<1> QED
  BY IntakeInvariance, <1>1, PTL
================================================================================
