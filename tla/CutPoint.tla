------------------------------ MODULE CutPoint ------------------------------
(***************************************************************************)
(* Where quality broke: cutpoint.py and loops.py of packages/blame_engine. *)
(*                                                                         *)
(* A trace is a record `inp` of what scoring measured:                     *)
(*   nodes, edges   the runs and the edges of the trace                    *)
(*   score          [run -> percent or Unknown]                            *)
(*   reason         [run -> why a run is unscored, or "none"]              *)
(*   flawed         runs whose judge says their input was flawed already   *)
(*   signals        runs with a fail-severity deterministic signal, those  *)
(*   originates     of them whose signal says the fault began at the run   *)
(*   breach         [run -> set of <<value in, value out>>] contract       *)
(*                  violations on the one parameter that is modelled       *)
(*   flags          runs with a judged content flag                        *)
(*   verifiers      runs whose agent name says verifier, those             *)
(*   issuedFail     of them that are flagged to have issued a FAIL         *)
(*   thin           runs some of whose scoring channels never reported     *)
(*   attemptOf      [run -> agent it is an attempt of, or NoAgent]         *)
(*   baseline       loop baseline of every agent: [mean, std, samples]     *)
(*   terminal       the tier 1 verdict: [verdict, formBad, request,        *)
(*                  observed]                                              *)
(*   cost           [run -> cost or Unknown]                               *)
(*   propagated, corrected   what the worker verified of the breached      *)
(*                  parameter in the deliverable                           *)
(* Scores and thresholds are percentages.                                  *)
(***************************************************************************)
EXTENDS RunGraph

CONSTANTS Threshold,        \* threshold
          GapThreshold,     \* gap_threshold
          MinDrop,          \* min_drop
          CumDrop,          \* cum_drop_threshold
          CumMinEdges,      \* cum_min_edges
          CumStep,          \* cum_step_min
          MaxIterations,    \* max_loop_iterations
          LoopZ,            \* loop_zscore
          LoopMinHistory,   \* loop_min_history
          NoAgent

ASSUME ConfigAssumption ==
    /\ Threshold \in 1..99
    /\ {GapThreshold, MinDrop, CumDrop, CumStep} \subseteq 1..100
    /\ {CumMinEdges, MaxIterations, LoopZ, LoopMinHistory} \subseteq Nat

\* What every trace is like, whatever was measured of it.
IsTrace(t) ==
    /\ IsFiniteSet(t.nodes) /\ t.nodes \subseteq Nat \ {0}
    /\ t.edges \subseteq Nat \X Nat
    /\ t.score \in [t.nodes -> {Unknown} \cup 0..100]

Known(inp, S) == {inp.score[n] : n \in {m \in S : inp.score[m] # Unknown}}
Healthy(inp, n) == inp.score[n] >= Threshold
Degraded(inp, n) == inp.score[n] \in 0..(Threshold - 1)

(***************************************************************************)
(* A candidate origin.  drop and base are Unknown where the code has None. *)
(***************************************************************************)
CandidateOf(cond, inp, s) ==
    [run |-> s, score |-> inp.score[s], base |-> Unknown, drop |-> Unknown,
     unknownUpstream |-> FALSE, observedDrop |-> FALSE, recovered |-> FALSE,
     baseAssumed |-> FALSE, chain |-> << >>, via |-> "content",
     member |-> Unknown, tied |-> {}, iterations |-> Cardinality(cond.members[s]),
     thin |-> s \in inp.thin]

(***************************************************************************)
(* What an unscored run may hide                                           *)
(***************************************************************************)
is_structural_root(cond, inp, s) ==
    s \in sources(cond) /\ inp.reason[s] = "payload_missing"

only_structural_root_preds(cond, inp, s) ==
    /\ Preds(cond.dag, s) # {}
    /\ \A p \in Preds(cond.dag, s) : is_structural_root(cond, inp, p)

unknown_upstream(cond, inp, s) ==
    \E a \in Ancestors(cond, s) :
        /\ inp.score[a] = Unknown
        /\ ~is_structural_root(cond, inp, a)
        /\ inp.reason[a] # "zero_result_set"

(***************************************************************************)
(* The content channel on the condensation                                 *)
(***************************************************************************)
KnownPreds(cond, inp, s) == Known(inp, Preds(cond.dag, s))

\* Every successor came out healthy (and there is one).
AllHealthy(inp, S) == S # {} /\ \A x \in S : Healthy(inp, x)

InputsHealthy(cond, inp, s) ==
    KnownPreds(cond, inp, s) # {} /\ Min(KnownPreds(cond, inp, s)) >= Threshold

source_like(cond, inp, s) ==
    s \in sources(cond) \/ only_structural_root_preds(cond, inp, s)

\* The best measured predecessor, 100 for a clean hand-off, else unknown.
base_of(cond, inp, s) ==
    CASE KnownPreds(cond, inp, s) # {} -> Max(KnownPreds(cond, inp, s))
      [] KnownPreds(cond, inp, s) = {} /\ source_like(cond, inp, s) -> 100
      [] OTHER -> Unknown

\* max(0, base - score), unknown without a base.
DropFrom(base, score) ==
    IF base = Unknown \/ score = Unknown THEN Unknown ELSE Max({0, base - score})

observed_drop(cond, inp, s) ==
    /\ InputsHealthy(cond, inp, s)
    /\ DropFrom(base_of(cond, inp, s), inp.score[s]) >= GapThreshold
    /\ DropFrom(base_of(cond, inp, s), inp.score[s]) >= MinDrop

\* The claim "my input was flawed" clears a run, unless the scores refute it.
cleared_by_flawed_input(cond, inp, s) ==
    /\ s \in inp.flawed
    /\ ~(InputsHealthy(cond, inp, s) /\ s \notin inp.verifiers)

ContentCandidate(cond, inp, s) ==
    [CandidateOf(cond, inp, s) EXCEPT
        !.base = base_of(cond, inp, s),
        !.drop = DropFrom(base_of(cond, inp, s), inp.score[s]),
        !.unknownUpstream = unknown_upstream(cond, inp, s),
        !.observedDrop = observed_drop(cond, inp, s),
        !.recovered = AllHealthy(inp, Succs(cond.dag, s)),
        !.baseAssumed = KnownPreds(cond, inp, s) = {} /\ source_like(cond, inp, s)]

InOrder(cond, S) == Select(cond.topo, S)

ContentCandidates(cond, inp, S) ==
    LET q == InOrder(cond, S)
    IN  [i \in DOMAIN q |-> ContentCandidate(cond, inp, q[i])]

\* Scored super-nodes the content channel may name at all.
Accountable(cond, inp) ==
    {s \in Supers(cond) : inp.score[s] # Unknown /\ ~cleared_by_flawed_input(cond, inp, s)}

DropOrigins(cond, inp) ==
    {s \in Accountable(cond, inp) : observed_drop(cond, inp, s)}

\* mutant: an unmeasured input is enough
BoundariesAny(cond, inp) == {s \in Accountable(cond, inp) : KnownPreds(cond, inp, s) = {}}

\* Degraded where nothing upstream was measured.
Boundaries(cond, inp) ==
    {s \in Accountable(cond, inp) :
        KnownPreds(cond, inp, s) = {} /\ Degraded(inp, s)}

RecoveredBoundaries(cond, inp) ==
    {s \in Boundaries(cond, inp) : AllHealthy(inp, Succs(cond.dag, s))}

(***************************************************************************)
(* Slow erosion: _degradation_chains                                       *)
(***************************************************************************)
\* The successor with the largest decline, of equals the earliest.
Steepest(cond, inp, s) ==
    {t \in Succs(cond.dag, s) :
        /\ inp.score[t] # Unknown
        /\ inp.score[s] - inp.score[t] >= CumStep
        /\ \A x \in Succs(cond.dag, s) :
             inp.score[x] # Unknown => \/ inp.score[t] < inp.score[x]
                                       \/ inp.score[t] = inp.score[x] /\ t <= x}

ErosionFrom(cond, inp, head) ==
    LET path[i \in 0..Len(cond.topo)] ==
          IF i = 0 THEN <<head>>
          ELSE LET way == path[i - 1]
                   next == Steepest(cond, inp, Last(way))
               IN  IF next = {} THEN way ELSE Append(way, CHOOSE t \in next : TRUE)
    IN  path[Len(cond.topo)]

IsErosion(inp, path) ==
    /\ Len(path) - 1 >= CumMinEdges
    /\ inp.score[Head(path)] - inp.score[Last(path)] >= CumDrop

degradation_chains(cond, inp) ==
    LET found[i \in 0..Len(cond.topo)] ==
          IF i = 0 THEN << >>
          ELSE LET chains == found[i - 1]
                   head == cond.topo[i]
                   path == ErosionFrom(cond, inp, head)
               IN  IF /\ \A j \in DOMAIN chains : head \notin ToSet(chains[j])
                      /\ Healthy(inp, head)
                      /\ IsErosion(inp, path)
                   THEN Append(chains, path) ELSE chains
    IN  found[Len(cond.topo)]

ChainCandidate(cond, inp, path) ==
    [CandidateOf(cond, inp, path[2]) EXCEPT
        !.base = inp.score[path[1]],
        !.drop = inp.score[Head(path)] - inp.score[Last(path)],
        !.unknownUpstream = unknown_upstream(cond, inp, path[2]),
        !.chain = path]

(***************************************************************************)
(* Origins inside a cycle: _scc_internal_origins                           *)
(***************************************************************************)
MemberPreds(cond, inp, m) == Known(inp, Preds(cond.graph, m))

\* None in `succ_scores` is a successor scoring looked at and left unscored.
member_recovered(cond, inp, m) == AllHealthy(inp, Succs(cond.graph, m))

member_observed(cond, inp, m) ==
    LET preds == MemberPreds(cond, inp, m)
        drop == Max({0, Max(preds) - inp.score[m]})
    IN  /\ preds # {}
        /\ Min(preds) >= Threshold
        /\ drop >= GapThreshold
        /\ drop >= MinDrop

QualifyingMembers(cond, inp, s) ==
    {m \in cond.members[s] :
        /\ inp.score[m] # Unknown
        /\ m \notin inp.flawed
        /\ IF MemberPreds(cond, inp, m) # {}
           THEN member_observed(cond, inp, m)
           ELSE Degraded(inp, m) /\ ~member_recovered(cond, inp, m)}

InternalCandidate(cond, inp, s) ==
    LET worst == Min({inp.score[m] : m \in QualifyingMembers(cond, inp, s)})
        tied == {m \in QualifyingMembers(cond, inp, s) : inp.score[m] = worst}
        member == Min(tied)
    IN  [CandidateOf(cond, inp, s) EXCEPT
            !.score = IF inp.score[s] = Unknown THEN worst ELSE @,
            !.unknownUpstream = unknown_upstream(cond, inp, s),
            !.observedDrop = member_observed(cond, inp, member),
            !.recovered = member_recovered(cond, inp, member),
            !.member = member,
            !.tied = IF Cardinality(tied) > 1 THEN tied ELSE {}]

scc_internal_origins(cond, inp, already) ==
    {s \in Supers(cond) \ already :
        IsCycle(cond, s) /\ QualifyingMembers(cond, inp, s) # {}}

(***************************************************************************)
(* The deterministic channel: _deterministic_origins                       *)
(***************************************************************************)
deterministic_defect(inp, n) == n \in inp.signals \/ inp.breach[n] # {}

\* The rewritten values that runs above s had put into circulation.
AncestorRewrites(cond, inp, s) ==
    UNION {{b[2] : b \in inp.breach[m]} :
             m \in UNION {cond.members[a] : a \in Ancestors(cond, s)}}

fresh_contract_origin(cond, inp, s) ==
    \E b \in inp.breach[s] :
        b[1] \notin AncestorRewrites(cond, inp, s)
          /\ b[2] \notin AncestorRewrites(cond, inp, s)

HardFaults(cond, inp) ==
    {s \in Supers(cond) : deterministic_defect(inp, s) /\ s \notin inp.flawed}

PrimaryFaults(cond, inp) ==
    {s \in HardFaults(cond, inp) :
        s \in inp.signals \/ fresh_contract_origin(cond, inp, s)}

DeterministicCandidate(cond, inp, s) ==
    [CandidateOf(cond, inp, s) EXCEPT
        !.recovered = AllHealthy(inp, Succs(cond.dag, s)), !.via = "deterministic"]

\* With every fault suppressed as secondary, the first of them stands in for
\* the origin that the trace does not show.
deterministic_origins(cond, inp) ==
    LET primary == PrimaryFaults(cond, inp)
        secondary == HardFaults(cond, inp) \ primary
        StandIn(s) == [DeterministicCandidate(cond, inp, s) EXCEPT
                          !.unknownUpstream = TRUE, !.recovered = FALSE]
    IN  CASE primary # {} ->
               [i \in DOMAIN InOrder(cond, primary) |->
                  DeterministicCandidate(cond, inp, InOrder(cond, primary)[i])]
          [] primary = {} /\ secondary # {} -> <<StandIn(FirstIn(cond.topo, secondary))>>
          [] OTHER -> << >>

(***************************************************************************)
(* _analyze: the two channels, shadowed each its own way, then merged.     *)
(* Origins are sequences, in the order the report will name them.          *)
(***************************************************************************)
Spreading(cond, inp) == Boundaries(cond, inp) \ RecoveredBoundaries(cond, inp)

InternalOrigins(cond, inp) ==
    scc_internal_origins(cond, inp, DropOrigins(cond, inp) \cup Spreading(cond, inp))

\* mutant: a boundary whose successors recovered is no origin, ever
ContentOriginsSharp(cond, inp) ==
    ContentCandidates(cond, inp, DropOrigins(cond, inp) \cup Spreading(cond, inp))

\* Drop origins and spreading boundaries, then origins inside cycles; without
\* any the eroding chains; without those the boundaries that recovered.
ContentOrigins(cond, inp) ==
    LET internal == InOrder(cond, InternalOrigins(cond, inp))
        sharp == ContentCandidates(cond, inp, DropOrigins(cond, inp))
                   \o ContentCandidates(cond, inp, Spreading(cond, inp))
                   \o [i \in DOMAIN internal |-> InternalCandidate(cond, inp, internal[i])]
        all == degradation_chains(cond, inp)
        chains == Select(all, {c \in ToSet(all) : c[2] \notin inp.flawed})
    IN  CASE sharp # << >> -> sharp
          [] sharp = << >> /\ chains # << >> ->
               [i \in DOMAIN chains |-> ChainCandidate(cond, inp, chains[i])]
          [] OTHER -> ContentCandidates(cond, inp, RecoveredBoundaries(cond, inp))

UnshadowedNever(cond, origins) == origins             \* mutant: no shadowing
\* An origin below another origin only inherited its quality.
Unshadowed(cond, origins) ==
    Select(origins,
           {c \in ToSet(origins) :
              \A i \in DOMAIN origins : origins[i].run \notin Ancestors(cond, c.run)})

RunsOf(candidates) == {candidates[i].run : i \in DOMAIN candidates}

\* mutant: the hard faults are dropped where the content channel has an origin
merge_content_first(content, deterministic) ==
    IF content # << >> THEN content ELSE deterministic

\* An origin of both channels is one origin, and stays at the exit run, where
\* the hard evidence is.
merge_channels(content, deterministic) ==
    [i \in DOMAIN content |->
        IF content[i].run \in RunsOf(deterministic)
        THEN [content[i] EXCEPT !.via = "both", !.member = Unknown]
        ELSE content[i]]
      \o Select(deterministic, {d \in ToSet(deterministic) : d.run \notin RunsOf(content)})

HadSignificantDrop(cond, inp) ==
    \/ \E s \in Supers(cond) : inp.score[s] # Unknown /\ observed_drop(cond, inp, s)
    \/ \E s \in InternalOrigins(cond, inp) : InternalCandidate(cond, inp, s).observedDrop

select_candidates(cond, inp) ==
    merge_channels(Unshadowed(cond, ContentOrigins(cond, inp)),
                   deterministic_origins(cond, inp))

(***************************************************************************)
(* loops.py: cycles that ran away                                          *)
(***************************************************************************)
\* The attempts of the agent that was tried most often in the cycle.
repeating(cond, inp, s) ==
    LET agents == {inp.attemptOf[m] : m \in cond.members[s]} \ {NoAgent}
        attempts(a) == {m \in cond.members[s] : inp.attemptOf[m] = a}
        most == Max({0} \cup {Cardinality(attempts(a)) : a \in agents})
        busiest == {a \in agents : Cardinality(attempts(a)) = most}
    IN  IF busiest = {} THEN {} ELSE attempts(Max(busiest))

\* Rounds of the loop body; the size of the cycle when nothing says.
iterations(cond, inp, s) ==
    LET repeated == repeating(cond, inp, s)
        rounds == Cardinality(IF repeated = {} THEN cond.members[s] ELSE repeated)
    IN  IF has_self_loop(cond, s) THEN Max({rounds, 2}) ELSE rounds

is_statistical_outlier(n, b) ==
    b.samples >= LoopMinHistory /\ n > b.mean + LoopZ * b.std

anomalies(cond, inp) ==
    {s \in Supers(cond) :
        /\ IsCycle(cond, s) \/ has_self_loop(cond, s)
        /\ \/ iterations(cond, inp, s) > MaxIterations
           \/ is_statistical_outlier(iterations(cond, inp, s), inp.baseline)}
=============================================================================
