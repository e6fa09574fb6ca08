------------------------------ MODULE SpanStore ------------------------------
(***************************************************************************)
(* From the requests of an exporter to the rows tier 1 and tier 2 read.    *)
(*                                                                         *)
(* A program emits its spans in as many requests as its exporter likes, in *)
(* any order.  The handler of POST /v1/traces maps the spans of a request, *)
(* appends them to the raw store (otel_spans, which keeps every copy), and *)
(* upserts what the mapper saw: a run or an edge that is there stays as it *)
(* is.  An exporter that gets no answer sends the request again.           *)
(*                                                                         *)
(* Before a graph is announced TraceRemapper reads all stored spans of its *)
(* traces, maps them at once, and refreshes the run rows; then it looks    *)
(* among the stored runs for the agents the mapper did not find.  When the *)
(* finalizer re-maps is IngestFinalizer; here it may at any time.          *)
(***************************************************************************)
EXTENDS SpanMapper

CONSTANTS Programs,           \* sets of spans that one execution may emit
          A2ADetection,       \* settings.a2a_detection
          MaxFaults,          \* bound: requests sent again, re-maps that raise, and deaths
                              \* of the tier 1 worker
          MaxPosts,           \* bound: requests that are handled at once
          MaxRemaps           \* bound: re-maps

ASSUME SpanStoreAssumption ==
  A2ADetection \in BOOLEAN /\ MaxFaults \in Nat /\ MaxPosts \in Nat /\ MaxRemaps \in Nat

VARIABLES program,            \* what this execution emits
          unsent,             \* spans the exporter still holds
          posts,              \* requests in the raw store and not yet upserted
          raw,                \* copies of each span in the raw store
          runs,               \* rows of agent_runs
          edges,              \* rows of edges, which are never deleted
          remap,              \* the re-map that is under way, or NoRemap
          whole,              \* history: traces once re-mapped from all their spans
          completed,          \* graphs announced and not acknowledged by tier 1
          faults, remaps

rowVars == <<runs, edges>>
storeVars == <<program, unsent, posts, raw, runs, edges, remap, whole, completed, faults, remaps>>

NoRemap == [stage |-> "idle"]

Traces(S) == {s.trace : s \in S}
OfTraces(S, T) == {s \in S : s.trace \in T}
Listed(S) == SetToSortSeq(S, LAMBDA a, b : a.trace < b.trace \/ (a.trace = b.trace /\ a.id < b.id))

\* The spans that open runs.
Opening(S) == {Ident(s) : s \in {o \in S : o.kind = "AGENT"}}

\* What span_row and mappable_span keep: only a status that is an object.
mappable_span(s) == [s EXCEPT !.status = IF @ = "error_text" THEN "ok" ELSE @]

\* mutant: every copy counts
dedupe_nothing(copies) ==
  FoldLeft(LAMBDA q, s : q \o [i \in 1 .. copies[s] |-> s], << >>, Listed(DOMAIN copies))

\* Of the versions of a span the one that ended last.
Latest(S) == {s \in S : ~ \E o \in S : Ident(o) = Ident(s) /\ o.end > s.end}

\* One row for each span, whatever the number of its copies.
dedupe_latest(copies) == Listed(Latest({s \in DOMAIN copies : copies[s] > 0}))

\* The order of the rows is the store's own.
InSomeOrder(rows) ==
  LET spans == [i \in DOMAIN rows |-> mappable_span(rows[i])]
  IN  {spans, Reverse(spans)}

select_spans(copies) == InSomeOrder(dedupe_latest(copies))

\* An edge row belongs to the graph of the run it leads to.
EdgeRows(result) ==
  {[graph |-> (CHOOSE r \in result.runs : r.key = e.to).graph, edge |-> e] : e \in result.edges}

\* mutant: a run that is there stays as the first request left it
upsert_runs_first(stored, new, refresh_runs) ==
  stored \cup {r \in new : r.key \notin {o.key : o \in stored}}

\* ON CONFLICT DO NOTHING, or DO UPDATE when the re-map refreshes.
upsert_runs(stored, new, refresh_runs) ==
  LET keys == {r.key : r \in new}
      held == {r.key : r \in stored}
  IN  IF refresh_runs THEN {r \in stored : r.key \notin keys} \cup new
                      ELSE stored \cup {r \in new : r.key \notin held}

-----------------------------------------------------------------------------
StoreInit ==
  /\ program \in Programs
  /\ unsent = program
  /\ posts = {}
  /\ raw = [s \in program |-> 0]
  /\ runs = {} /\ edges = {}
  /\ remap = NoRemap
  /\ whole = {} /\ completed = {}
  /\ faults = 0 /\ remaps = 0

InsertSpans(b) ==
  /\ b # {} /\ Cardinality(posts) < MaxPosts
  /\ unsent' = unsent \ b
  /\ posts' = posts \cup {b}
  /\ raw' = [s \in program |-> IF s \in b THEN raw[s] + 1 ELSE raw[s]]
  /\ UNCHANGED <<program, rowVars, remap, whole, completed, faults, remaps>>

UpsertRows(b) ==
  LET result == map_spans(Listed(b), A2ADetection)
  IN  /\ runs' = upsert_runs(runs, result.runs, FALSE)
      /\ edges' = edges \cup EdgeRows(result)

Upsert(b) ==
  /\ UpsertRows(b)
  /\ posts' = posts \ {b}
  /\ UNCHANGED <<program, unsent, raw, remap, whole, completed, faults, remaps>>

\* No answer: the request failed after the raw insert, or its answer was lost.
\* It is in the raw store once more, and its upsert is due (again).
SendAgain(b) ==
  /\ faults < MaxFaults
  /\ faults' = faults + 1
  /\ raw' = [s \in program |-> IF s \in b THEN raw[s] + 1 ELSE raw[s]]
  /\ \/ UNCHANGED <<rowVars, posts>>
     \/ UpsertRows(b) /\ UNCHANGED posts
  /\ UNCHANGED <<program, unsent, remap, whole, completed, remaps>>

-----------------------------------------------------------------------------
\* Only a trace that already has a run in the graph can be found.
SelectSpans(g) ==
  LET traces == {r.key[1] : r \in {x \in runs : x.graph = g}}
  IN  /\ remap = NoRemap /\ remaps < MaxRemaps
      /\ traces # {}
      /\ remap' = [stage |-> "read", graph |-> g,
                   copies |-> [s \in OfTraces(program, traces) |-> raw[s]]]
      /\ remaps' = remaps + 1
      /\ UNCHANGED <<program, unsent, posts, raw, rowVars, whole, completed, faults>>

\* mutant: the re-map refreshes the runs and leaves the edges
RefreshRunsOnly ==
  /\ remap.stage = "read"
  /\ \E spans \in select_spans(remap.copies) :
       LET result == map_spans(spans, A2ADetection)
       IN  /\ runs' = upsert_runs(runs, result.runs, TRUE)
           /\ UNCHANGED edges
           /\ remap' = [stage |-> "mapped", graph |-> remap.graph, copies |-> remap.copies,
                        missing |-> result.unresolved]
  /\ UNCHANGED <<program, unsent, posts, raw, whole, completed, faults, remaps>>

Refresh ==
  /\ remap.stage = "read"
  /\ \E spans \in select_spans(remap.copies) :
       LET result == map_spans(spans, A2ADetection)
       IN  /\ runs' = upsert_runs(runs, result.runs, TRUE)
           /\ edges' = edges \cup EdgeRows(result)
           /\ remap' = [stage |-> "mapped", graph |-> remap.graph, copies |-> remap.copies,
                        missing |-> result.unresolved]
  /\ UNCHANGED <<program, unsent, posts, raw, whole, completed, faults, remaps>>

\* The target may be a run of the graph in a trace the re-map did not read.
deferred_edges(g, missing) ==
  {[graph |-> g, edge |-> e] :
     e \in delegation_edges(missing, {r \in runs : r.graph = g})}

\* A shell whose runs all moved to another graph is finalized silently.
Announce(g) ==
  completed' = IF \E r \in runs : r.graph = g THEN completed \cup {g} ELSE completed

ResolveDeferred ==
  /\ remap.stage = "mapped"
  /\ edges' = edges \cup deferred_edges(remap.graph, remap.missing)
  /\ whole' = whole \cup {t \in Traces(DOMAIN remap.copies) :
                            \A s \in OfTraces(DOMAIN remap.copies, {t}) : remap.copies[s] > 0}
  /\ Announce(remap.graph)
  /\ remap' = NoRemap
  /\ UNCHANGED <<program, unsent, posts, raw, runs, faults, remaps>>

\* After a failed re-map the graph is finalized with what is there.
RemapRaises ==
  /\ remap # NoRemap /\ faults < MaxFaults
  /\ faults' = faults + 1
  /\ Announce(remap.graph)
  /\ remap' = NoRemap
  /\ UNCHANGED <<program, unsent, posts, raw, rowVars, whole, remaps>>

StoreNext ==
  \/ \E b \in SUBSET unsent : InsertSpans(b)
  \/ \E b \in posts : Upsert(b) \/ SendAgain(b)
  \/ \E g \in {r.graph : r \in runs} : SelectSpans(g)
  \/ Refresh \/ ResolveDeferred \/ RemapRaises

-----------------------------------------------------------------------------
\* What the program did, had all its spans come at once and in order.
Truth == [p \in Programs |-> [t \in Traces(p) |->
            map_spans(Listed({mappable_span(s) : s \in Latest(OfTraces(p, {t}))}), A2ADetection)]]

\* The mapper makes of a trace that was read in full, in whichever order and
\* with whatever else, what the program did.  (It would not if the spans of one
\* run carried two graph headers: then the first in the store's order counts.)
ReadsTrue(p, S) ==
  \A spans \in InSomeOrder(Listed(Latest(S))) : \A t \in Traces(S) :
    OfTraces(p, {t}) \subseteq S =>
      LET result == map_spans(spans, A2ADetection)
      IN  /\ Truth[p][t].runs = {r \in result.runs : r.key[1] = t}
          /\ EdgeRows(Truth[p][t]) \subseteq EdgeRows(result)

\* The spans of a program are records that can be listed; two versions of one
\* span end at different times, and both of them open a run or neither does.
ASSUME ProgramsAssumption ==
  \A p \in Programs :
    /\ \A s \in p : {"trace", "id", "kind", "status"} \subseteq DOMAIN s
    /\ \A s, o \in p : Ident(s) = Ident(o) /\ s.end = o.end => s = o
    /\ \A S \in SUBSET p : Opening(Latest(S)) = Opening(S)
    /\ \A S \in SUBSET p : Listed(S) \in Seq(S) /\ ToSet(Listed(S)) = S /\ ReadsTrue(p, S)

(***************************************************************************)
(* Once a trace was re-mapped from all its spans, each of its runs is      *)
(* stored as the program ran it, however the spans were split over the     *)
(* requests, in which order they came, which were sent twice, and what     *)
(* arrived since: nothing is counted twice, nothing is left out, and no    *)
(* later request sets a run back.                                          *)
(***************************************************************************)
RowsOfWhole == \A t \in whole : Truth[program][t].runs = {r \in runs : r.key[1] = t}

(***************************************************************************)
(* Once a trace was re-mapped from all its spans, every edge between its   *)
(* runs is stored with the graph of the run it leads to, also those whose  *)
(* two ends came in different requests.                                    *)
(***************************************************************************)
EdgesOfWhole == \A t \in whole : EdgeRows(Truth[program][t]) \subseteq edges

(***************************************************************************)
(* Splitting a trace over requests is safe: once it was re-mapped from all *)
(* its spans, the edges stored between its runs are those of the whole.    *)
(***************************************************************************)
NothingInvented ==
  \A t \in whole : \A e \in edges :
    e.edge.from[1] = t /\ e.edge.to[1] = t => e.edge \in Truth[program][t].edges

=============================================================================
