------------------------------ MODULE RunGraph ------------------------------
(***************************************************************************)
(* The execution graph of one trace as the blame engine reads it:          *)
(* graph.py, condense.py, topology.py, path.py and cost.py of              *)
(* packages/blame_engine.                                                  *)
(*                                                                         *)
(* A run is a positive number, and the numbers are chronological: u < v    *)
(* says _chron_key(u) < _chron_key(v).  A super-node of the condensation   *)
(* is represented by its exit member, the last run of the cycle, which is  *)
(* what every consumer of the code identifies it by.                       *)
(***************************************************************************)
EXTENDS Integers, Sequences, FiniteSets, FiniteSetsExt, SequencesExt

\* A score that was never measured (None in the code, never a number).
Unknown == -1

(***************************************************************************)
(* graph.py                                                                *)
(***************************************************************************)
\* build_graph: an edge that names a run outside `nodes` is ignored.
build_graph(nodes, edges) == {e \in edges : e[1] \in nodes /\ e[2] \in nodes}

Preds(E, v) == {e[1] : e \in {d \in E : d[2] = v}}
Succs(E, v) == {e[2] : e \in {d \in E : d[1] = v}}

terminals(nodes, E) == {n \in nodes : Succs(E, n) = {}}

\* The elements of a sequence that are in S, in their order.  Like the other
\* loops that proofs are about, a recursive function over the rounds.
Select(seq, S) ==
    LET kept[i \in 0..Len(seq)] ==
          IF i = 0 THEN << >>
          ELSE IF seq[i] \in S THEN Append(kept[i - 1], seq[i]) ELSE kept[i - 1]
    IN  kept[Len(seq)]

\* The runs of S, earliest first.
ByTime(S) == Select([i \in 1..Max(S \cup {0}) |-> i], S)

\* The pairs joined by a path of one edge or more (nx.ancestors and
\* nx.descendants), by admitting one more intermediate run at a time.
Closure(nodes, E) ==
    LET via[k \in 0..Max(nodes \cup {0})] ==
          IF k = 0 THEN E
          ELSE LET R == via[k - 1]
               IN  IF k \in nodes THEN R \cup (Preds(R, k) \X Succs(R, k)) ELSE R
    IN  via[Max(nodes \cup {0})]

(***************************************************************************)
(* condense.py                                                             *)
(***************************************************************************)
Component(R, v) == {v} \cup {u \in Preds(R, v) : <<v, u>> \in R}

exit_node(R, v) == Max(Component(R, v))

\* Kahn's algorithm with a heap: of the super-nodes whose predecessors are
\* all out, the one whose exit finished first comes next.
topo_order(supers, dag) ==
    LET Ready(done) == {s \in supers \ ToSet(done) : Preds(dag, s) \subseteq ToSet(done)}
        out[i \in 0..Cardinality(supers)] ==
          IF i = 0 THEN << >>
          ELSE LET done == out[i - 1] IN Append(done, Min(Ready(done)))
    IN  out[Cardinality(supers)]

condense(nodes, edges) ==
    LET graph == build_graph(nodes, edges)
        R == Closure(nodes, graph)
        exitOf == [n \in nodes |-> exit_node(R, n)]
        supers == {exitOf[n] : n \in nodes}
        dag == {<<exitOf[e[1]], exitOf[e[2]]>> :
                    e \in {d \in graph : exitOf[d[1]] # exitOf[d[2]]}}
    IN  [nodes   |-> nodes,
         graph   |-> graph,
         dag     |-> dag,
         exitOf  |-> exitOf,
         members |-> [s \in supers |-> {n \in nodes : exitOf[n] = s}],
         topo    |-> topo_order(supers, dag),
         above   |-> Closure(supers, dag)]

Supers(cond) == DOMAIN cond.members
Ancestors(cond, s) == Preds(cond.above, s)
Descendants(cond, s) == Succs(cond.above, s)
IsCycle(cond, s) == Cardinality(cond.members[s]) > 1
has_self_loop(cond, s) == ~IsCycle(cond, s) /\ <<s, s>> \in cond.graph

sources(cond) == {s \in Supers(cond) : Preds(cond.dag, s) = {}}
sinks(cond) == {s \in Supers(cond) : Succs(cond.dag, s) = {}}

\* The raw runs in the order every report lists them.
graph_nodes(cond) ==
    LET runs[i \in 0..Len(cond.topo)] ==
          IF i = 0 THEN << >> ELSE runs[i - 1] \o ByTime(cond.members[cond.topo[i]])
    IN  runs[Len(cond.topo)]

FirstIn(seq, S) == seq[Min({i \in DOMAIN seq : seq[i] \in S})]

(***************************************************************************)
(* topology.py                                                             *)
(***************************************************************************)
WeakComponents(nodes, E) ==
    LET R == Closure(nodes, E \cup {<<e[2], e[1]>> : e \in E})
    IN  {{n} \cup Preds(R, n) : n \in nodes}

\* v1 -> ... -> vk, a single run without an edge to itself included.
is_simple_path(nodes, E) ==
    /\ Cardinality(E) = Cardinality(nodes) - 1
    /\ Cardinality(WeakComponents(nodes, E)) = 1
    /\ \A v \in nodes : Cardinality(Preds(E, v)) <= 1 /\ Cardinality(Succs(E, v)) <= 1

Roots(nodes, E) == {v \in nodes : Preds(E, v) = {}}

\* One root one hop away from all others, or from all but one aggregator
\* that every spoke feeds.
is_star(nodes, E) ==
    \E root \in nodes :
        LET spokes == Succs(E, root)
            extra == (nodes \ {root}) \ spokes
        IN  /\ Roots(nodes, E) = {root}
            /\ spokes # {}
            /\ \/ extra = {} /\ Cardinality(E) = Cardinality(spokes)
               \/ \E agg \in extra :
                     /\ extra = {agg}
                     /\ Succs(E, agg) = {}
                     /\ \A s \in spokes : Succs(E, s) = {agg}
                     /\ Cardinality(E) = 2 * Cardinality(spokes)

is_rooted_tree(nodes, E) ==
    \E root \in nodes :
        /\ Roots(nodes, E) = {root}
        /\ \A v \in nodes \ {root} : Cardinality(Preds(E, v)) = 1

\* dag_longest_path_length + 1 over the condensation.
depth(cond) ==
    LET longest[i \in 0..Len(cond.topo)] ==
          IF i = 0 THEN [s \in Supers(cond) |-> 0]
          ELSE LET len == longest[i - 1]
                   s == cond.topo[i]
               IN  [len EXCEPT ![s] = 1 + Max({0} \cup {len[p] : p \in Preds(cond.dag, s)})]
    IN  Max({0} \cup {longest[Len(cond.topo)][s] : s \in Supers(cond)})

bidirectional_pairs(E) ==
    Cardinality({e \in E : e[1] < e[2] /\ <<e[2], e[1]>> \in E})

\* Half or more of the directed edges that a cycle could have.
is_dense(E, scc) ==
    LET k == Cardinality(scc)
        inner == {e \in E : e[1] \in scc /\ e[2] \in scc /\ e[1] # e[2]}
    IN  k >= 4 /\ 2 * Cardinality(inner) >= k * (k - 1)

\* The archetype: the first line that applies decides.
classify_topology(cond) ==
    LET N == cond.nodes
        E == cond.graph
        cycles == {cond.members[s] : s \in {t \in Supers(cond) : IsCycle(cond, t)}}
        acyclic == \A v \in N : <<v, v>> \notin E
    IN  IF Cardinality(WeakComponents(N, E)) > 1 THEN "disconnected"
        ELSE IF Cardinality(N) = 1 THEN "single_node"
        ELSE IF cycles # {} /\ (bidirectional_pairs(E) >= 2 \/ \E c \in cycles : is_dense(E, c))
        THEN "mesh"
        ELSE IF cycles # {} /\ is_simple_path(Supers(cond), cond.dag)
        THEN "pipeline_with_feedback"
        ELSE IF cycles # {} THEN "cyclic_graph"
        ELSE IF acyclic /\ is_simple_path(N, E) THEN "pipeline"
        ELSE IF acyclic /\ is_star(N, E) THEN "star"
        ELSE IF acyclic /\ is_rooted_tree(N, E) /\ depth(cond) >= 3 THEN "hierarchy"
        ELSE "dag"

\* The depth of an unbranched line of three steps or more, 0 of any other shape.
chain_shaped(cond) ==
    IF depth(cond) >= 3 /\ classify_topology(cond) \in {"pipeline", "pipeline_with_feedback"}
    THEN depth(cond)
    ELSE 0

(***************************************************************************)
(* path.py: the shortest way from a culprit to the terminal it reached.    *)
(***************************************************************************)
\* Lowest score first, then the earliest of its holders.
WorstScored(S, score) ==
    LET worst == Min({score[n] : n \in S})
    IN  Min({n \in S : score[n] = worst})

pick_target(cond, score, bad, cand) ==
    LET terms == {t \in terminals(cond.nodes, cond.graph) : cond.exitOf[t] \in cand}
        scored(S) == {n \in S : score[n] # Unknown}
    IN  IF bad /\ terms # {} THEN cond.exitOf[Max(terms)]
        ELSE IF scored(terms) # {} THEN cond.exitOf[WorstScored(scored(terms), score)]
        ELSE IF terms # {} THEN cond.exitOf[Max(terms)]
        ELSE IF scored(cand) # {} THEN WorstScored(scored(cand), score)
        ELSE Max(cand)

\* One hop is preferred when it is scored, scored low, and early.
step_key(score, s) ==
    <<IF score[s] = Unknown THEN 1 ELSE 0,
      IF score[s] = Unknown THEN 0 ELSE score[s], s>>

LexLess(a, b) ==
    \E i \in DOMAIN a : a[i] < b[i] /\ \A j \in 1..(i - 1) : a[j] = b[j]

\* Of two ways: fewer hops, then the better key at the first difference.
BetterPath(score, p, q) ==
    \/ Len(p) < Len(q)
    \/ /\ Len(p) = Len(q)
       /\ \E i \in DOMAIN p :
            /\ LexLess(step_key(score, p[i]), step_key(score, q[i]))
            /\ \A j \in 1..(i - 1) : p[j] = q[j]

\* One super-node more: of the ways found so far that lead to it, the best.
Extend(cond, score, start, best, s) ==
    LET options == {Append(best[p], s) : p \in {q \in Preds(cond.dag, s) : best[q] # << >>}}
    IN  IF s = start \/ options = {} THEN best
        ELSE [best EXCEPT ![s] =
                CHOOSE o \in options : \A q \in options : ~BetterPath(score, q, o)]

\* Dynamic programming over the topological order, one best way per super-node.
best_path(cond, score, start, target) ==
    LET ways[i \in 0..Len(cond.topo)] ==
          IF i = 0 THEN [s \in Supers(cond) |-> IF s = start THEN <<s>> ELSE << >>]
          ELSE Extend(cond, score, start, ways[i - 1], cond.topo[i])
        way == ways[Len(cond.topo)][target]
    IN  IF way # << >> THEN way ELSE <<start>>

\* mutant: the target is not looked for among the reachable sinks.
propagation_path_global(cond, score, bad, culprit) ==
    best_path(cond, score, cond.exitOf[culprit],
              pick_target(cond, score, bad, sinks(cond)))

propagation_path(cond, score, bad, culprit) ==
    LET start == cond.exitOf[culprit]
        reachable == Descendants(cond, start) \cup {start}
        first == pick_target(cond, score, bad, sinks(cond))
        target == IF first \in reachable THEN first
                  ELSE pick_target(cond, score, bad, sinks(cond) \cap reachable)
    IN  best_path(cond, score, start, target)

(***************************************************************************)
(* cost.py: the runs whose cost a defect is charged with.                  *)
(***************************************************************************)
AffectedRuns(cond, culprits) ==
    LET R == Closure(cond.nodes, cond.graph)
    IN  culprits \cup UNION {Succs(R, c) : c \in culprits}

\* The sum of the costs that are known; Unknown when none of the affected is.
downstream_cost(cond, cost, culprits) ==
    LET affected == AffectedRuns(cond, culprits)
        priced == {n \in affected : cost[n] # Unknown}
    IN  IF affected # {} /\ priced = {} THEN Unknown
        ELSE MapThenSumSet(LAMBDA n : cost[n], priced)
=============================================================================
