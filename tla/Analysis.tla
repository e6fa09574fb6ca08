------------------------------ MODULE Analysis ------------------------------
(***************************************************************************)
(* Tier2Processor.process, from the claimed job to the stored result:      *)
(* score the runs, decide whether the terminal verdict of tier 1 still     *)
(* stands, look into the deliverable for what became of each contract      *)
(* violation, find the blame (BlameEngine, step by step), follow the facts *)
(* of the culprit downstream, weigh the evidence streams against each      *)
(* other, draft the report, record the policy decisions, persist.  Every   *)
(* await is a step of its own and may fail.                                *)
(*                                                                         *)
(* How jobs are claimed and what persist does to the incidents of a graph  *)
(* is Tier2Jobs and Tier2Persist; here one analysis runs to its end.       *)
(* Claims, parameter values and file extensions are numbers.               *)
(***************************************************************************)
EXTENDS BlameEngine

CONSTANT Bundles          \* graphs as load_graph returns them, with the settings

\* Every graph comes with the place for the verdict of tier 1; what the machine
\* scores without a judge is a score like any other, and a fault begins only
\* where a check of a run failed.
ASSUME BundlesAssumption ==
    \A b \in Bundles :
        /\ IsTrace(b.trace)
        /\ {"nodes", "edges", "score", "flawed", "signals", "originates", "breach", "terminal"}
             \subseteq DOMAIN b.trace
        /\ "verdict" \in DOMAIN b.trace.terminal
        /\ b.machine \in [b.trace.nodes -> {Unknown} \cup 0..100]
        /\ b.trace.originates \subseteq b.trace.signals
        /\ b.trace.originates \subseteq b.trace.nodes

VARIABLES bundle,
          phase,             \* claimed, loaded, scored, blame, facts, drafted, decided,
                             \* persisted or failed
          contract_results,  \* what became of each violation
          propagation,       \* where each fact was found
          draft,             \* incident and report, NoDraft before
          decisions          \* committed rows of policy_decisions

analysisVars == <<vars, bundle, phase, contract_results, propagation, draft, decisions>>

NoDraft == [type |-> "none", trigger |-> "none"]
Tier0Flags == {"artifact_integrity", "required_section"}

AnalysisInit ==
    /\ bundle \in Bundles
    /\ inp = bundle.trace
    /\ cond = NoCondensation
    /\ candidates = << >>
    /\ verdict = NoVerdict
    /\ pc = "idle"
    /\ phase = "claimed"
    /\ contract_results = {}
    /\ propagation = {}
    /\ draft = NoDraft
    /\ decisions = {}

Verifiers == bundle.trace.verifiers
Runs == bundle.trace.nodes

(***************************************************************************)
(* graph_ops.py: the run whose output is the deliverable                   *)
(***************************************************************************)
Into(v) == {e[1] : e \in {x \in bundle.trace.edges : x[2] = v}}
LastRuns ==
    LET open == {v \in Runs : ~\E e \in bundle.trace.edges : e[1] = v}
        fed == {v \in bundle.output : Into(v) # {}}
    IN  CASE open # {} -> open
          [] open = {} /\ fed # {} -> fed
          [] OTHER -> Runs

\* One step of the walk from a verifier back to what it verified.
WalkBack(at, seen) ==
    LET producers == (Into(at) \ Verifiers) \cap bundle.output
        further == Into(at) \ (seen \cup {at})
    IN  CASE producers # {} -> Max(producers)
          [] producers = {} /\ further # {} -> Max(further)
          [] OTHER -> at

deliverable ==
    LET walk[k \in 0..Cardinality(Runs)] ==
          IF k = 0 THEN [at |-> Max(LastRuns), seen |-> {}]
          ELSE LET w == walk[k - 1]
               IN  IF w.at \notin Verifiers \/ w.at \in w.seen THEN w
                   ELSE [at |-> WalkBack(w.at, w.seen), seen |-> w.seen \cup {w.at}]
    IN  walk[Cardinality(Runs)].at

(***************************************************************************)
(* Scores: the deterministic half first, the judge when it left the origin *)
(* open or the gate is off.  A judge call may stay without an answer.      *)
(***************************************************************************)
\* mutant: anything found wrong, wherever it began
localises_any == bundle.trace.signals # {}
localises == bundle.trace.originates # {}

Load ==
    /\ phase = "claimed"
    /\ phase' = IF bundle.found THEN "loaded" ELSE "persisted"
    /\ UNCHANGED <<vars, bundle, contract_results, propagation, draft, decisions>>

\* What is left of a trace when the judge has not spoken about some runs.
Unjudged(t, runs) ==
    [t EXCEPT !.score = [v \in Runs |-> IF v \in runs THEN bundle.machine[v] ELSE @[v]],
              !.reason = [v \in Runs |-> IF v \in runs /\ bundle.machine[v] = Unknown
                                         THEN "judge_error" ELSE @[v]],
              !.flawed = @ \ runs, !.flags = @ \ runs, !.issuedFail = @ \ runs,
              !.noted = @ \ runs]

ScoreGraph ==
    /\ phase = "loaded"
    /\ \/ bundle.gate /\ localises /\ inp' = Unjudged(bundle.trace, Runs)
       \/ /\ ~(bundle.gate /\ localises)
          /\ \E lost \in {{}, {Min(Runs)}, Runs} : inp' = Unjudged(bundle.trace, lost)
    /\ phase' = "scored"
    /\ UNCHANGED <<cond, candidates, verdict, pc, bundle,
                   contract_results, propagation, draft, decisions>>

(***************************************************************************)
(* The verdict of tier 1, reconciled with the rules and payload of today   *)
(***************************************************************************)
Reproduced ==
    \/ "artifact_integrity" \in bundle.tier1.flags /\ deliverable \in bundle.brokenArtifact
    \/ /\ "required_section" \in bundle.tier1.flags
       /\ bundle.sectionRule
       /\ deliverable \in bundle.output \ bundle.sectionIn

Stale ==
    /\ bundle.tier1.verdict = "bad"
    /\ Tier0Flags \cap bundle.tier1.flags # {}
    /\ ~Reproduced

\* mutant: the stored verdict is taken as it stands
verdict_as_stored == bundle.tier1.verdict
terminal_verdict ==
    CASE Stale -> "stale"
      [] ~Stale /\ bundle.tier1.verdict \in {"ok", "bad"} -> bundle.tier1.verdict
      [] OTHER -> "none"

(***************************************************************************)
(* contract_propagation_check: did the changed value reach the deliverable *)
(***************************************************************************)
contract_status(v) ==
    LET seen == IF deliverable \in bundle.json THEN bundle.declared ELSE Unknown
        shown == IF deliverable \in bundle.json /\ bundle.fileFormat
                 THEN SelectSeq(bundle.paths, LAMBDA x : x \in {v[1], v[2]}) ELSE << >>
    IN  CASE seen = v[2] -> "propagated"
          [] seen = v[1] /\ seen # v[2] -> "corrected"
          [] seen \notin {v[1], v[2]} /\ shown # << >> ->
                IF Head(shown) = v[2] THEN "propagated" ELSE "corrected"
          [] OTHER -> "unverified"

contract_propagation_check ==
    {[change |-> v, status |-> contract_status(v)] : v \in UNION {inp.breach[n] : n \in Runs}}

Status(s) == \E r \in contract_results : r.status = s

\* build_blame_input, and the facts that only the worker can see.
StartBlame ==
    /\ phase = "scored"
    /\ contract_results' = contract_propagation_check
    /\ inp' = [inp EXCEPT
         !.terminal = [@ EXCEPT
            !.verdict = terminal_verdict,
            !.formBad = @ /\ bundle.tier1.verdict \in {"ok", "bad"}],
         !.propagated = \E r \in contract_results' : r.status = "propagated",
         !.corrected = \E r \in contract_results' : r.status = "corrected"]
    /\ pc' = "localize"
    /\ phase' = "blame"
    /\ UNCHANGED <<cond, candidates, verdict, bundle, propagation, draft, decisions>>

FindBlame ==
    /\ phase = "blame"
    /\ Next
    /\ UNCHANGED <<bundle, phase, contract_results, propagation, draft, decisions>>

(***************************************************************************)
(* _fact_propagation: what the culprit said, in the payloads after it      *)
(***************************************************************************)
Producers(seq) == Select(seq, ToSet(seq) \ Verifiers)

fact_source ==
    LET suspects == Producers(verdict.culprits)
        shown == verdict.manifestation \ Verifiers
    IN  CASE suspects # << >> -> Head(suspects)
          [] suspects = << >> /\ shown # {} -> Min(shown)
          [] OTHER -> Unknown

\* Every producer behind the source in topological order, related or not.
downstream(source) ==
    LET order == graph_nodes(cond)
        at == CHOOSE i \in DOMAIN order : order[i] = source
    IN  ToSet(Producers(SubSeq(order, at + 1, Len(order))))

Traced(source, kind) ==
    {[source |-> kind, claim |-> c,
      found |-> {v \in downstream(source) : c \in bundle.holds[v]},
      checked |-> downstream(source) \cap bundle.readable] : c \in bundle.says[source]}

\* _required_facts: the registered sections, in every producer.
required_facts ==
    IF ~bundle.sectionRule THEN {}
    ELSE {[source |-> "required", claim |-> Unknown,
           found |-> (bundle.sectionIn \cap bundle.output) \ Verifiers,
           checked |-> bundle.output \ Verifiers]}

FactPropagation ==
    /\ phase = "blame" /\ pc = "done" /\ ~verdict.raised
    /\ \/ /\ fact_source = Unknown \/ fact_source \notin bundle.output
          /\ propagation' = required_facts
       \/ /\ fact_source \in bundle.output \cap bundle.json
          /\ propagation' = required_facts \cup Traced(fact_source, "structured")
       \/ /\ fact_source \in bundle.output \ bundle.json
          /\ \E facts \in {{}, Traced(fact_source, "llm")} :
                propagation' = required_facts \cup facts
    /\ phase' = "facts"
    /\ UNCHANGED <<vars, bundle, contract_results, draft, decisions>>

(***************************************************************************)
(* The draft: incident, competing origins, signals, the terminal section   *)
(***************************************************************************)
effective_report_type ==
    IF verdict.type = "degraded_recovered" /\ Status("propagated")
    THEN "shipped_with_latent_defect" ELSE verdict.type

QUALITY_REPORT_TYPES ==
    {"cut_point", "multi_culprit", "composition_failure", "root_cause_external",
     "verification_gap", "degraded_recovered", "terminal_defect_unlocalized"}

\* mutant: a bad deliverable pages only when the report says why
classify_incident_located(type, flags, bad) ==
    IF type = "loop_detected" \/ "loop_anomaly" \in flags THEN "loop_detected"
    ELSE IF type = "shipped_with_latent_defect" THEN "latent_defect"
    ELSE IF type \in QUALITY_REPORT_TYPES THEN "degraded_quality"
    ELSE "none"
classify_incident(type, flags, bad) ==
    IF type = "loop_detected" \/ "loop_anomaly" \in flags THEN "loop_detected"
    ELSE IF type = "shipped_with_latent_defect" THEN "latent_defect"
    ELSE IF type \in QUALITY_REPORT_TYPES THEN "degraded_quality"
    ELSE IF "failed_runs" \in flags THEN "terminal_failure"
    ELSE IF "terminal_form_breach" \in flags THEN "latent_defect"
    ELSE IF "cost_overrun" \in flags THEN "cost_overrun"
    ELSE IF bad THEN "terminal_failure"
    ELSE "none"

\* mutant: the last run, were it the verifier
LastRun == {Last(graph_nodes(cond))}
LastProducer ==
    LET made == Producers(graph_nodes(cond))
    IN  IF made = << >> THEN {} ELSE {Last(made)}

Tension ==
    /\ verdict.row = "fabrication"
    /\ \E f \in propagation : LastProducer \cap f.found # {}
Divergence ==
    /\ "degenerate_output" \in bundle.tier1.flags
    /\ inp.noted \cap Verifiers # {}

\* The later origin that two streams argue for, when it is not the first one.
Rival ==
    IF (Tension \/ Divergence) /\ verdict.culprits # << >>
    THEN LastProducer \ {Head(verdict.culprits)} ELSE {}

\* reconcile_evidence: 0.6 of the confidence to the reported origin.
DominantShare == (verdict.confidence * 6 + 5) \div 10
reconcile_evidence ==
    IF Rival = {} THEN {}
    ELSE {[origin |-> Head(verdict.culprits), weight |-> DominantShare],
          [origin |-> Unknown, weight |-> 10000 - verdict.confidence]}
           \cup {[origin |-> r, weight |-> verdict.confidence - DominantShare] : r \in Rival}

structured_field_drop ==
    {f \in propagation : f.source = "structured" /\ f.found = {} /\ f.checked # {}}

signal_names ==
    (IF inp.signals # {} THEN {"node_signal"} ELSE {})
      \cup (IF deliverable \in bundle.brokenArtifact THEN {"artifact_integrity"} ELSE {})
      \cup (IF structured_field_drop # {} THEN {"structured_field_drop"} ELSE {})

\* The section is in the producers and not in the deliverable, or conversely.
SectionDiverges ==
    /\ bundle.sectionRule /\ bundle.output \ Verifiers # {} /\ deliverable \in bundle.output
    /\ ((bundle.sectionIn \cap bundle.output) \ Verifiers # {})
         # (deliverable \in bundle.sectionIn)

\* contract_conformance and caveat of the terminal section.
TerminalSection ==
    CASE Status("propagated") ->
           CASE terminal_verdict = "stale" -> "stale, violated"
             [] terminal_verdict = "bad" -> "bad, violated"
             [] OTHER -> "ok in content only, violated"
      [] ~Status("propagated") /\ Status("corrected") /\ ~Status("unverified") ->
           IF terminal_verdict = "bad" THEN "restored" ELSE "ok, restored"
      [] ~Status("propagated") /\ (~Status("corrected") \/ Status("unverified")) ->
           IF contract_results = {} THEN "plain" ELSE "unverified"

DraftReport ==
    /\ phase = "facts"
    /\ LET trigger == classify_incident(effective_report_type, bundle.tier1.flags, terminal_bad)
       IN  draft' =
             IF trigger = "none" THEN [NoDraft EXCEPT !.type = effective_report_type]
             ELSE [type |-> effective_report_type, trigger |-> trigger,
                   culprits |-> verdict.culprits,
                   confidence |-> IF Rival = {} THEN verdict.confidence ELSE DominantShare,
                   hypotheses |-> reconcile_evidence,
                   drops |-> structured_field_drop,
                   divergences |-> verdict.divergences
                      \cup (IF SectionDiverges THEN {"representation_divergence"} ELSE {}),
                   decided_by |-> IF Tier0Flags \cap bundle.tier1.flags # {}
                                  THEN "deterministic" ELSE "llm_judge",
                   terminal |-> IF bundle.tier1.verdict = "none" THEN "absent"
                                ELSE TerminalSection]
    /\ phase' = "drafted"
    /\ UNCHANGED <<vars, bundle, contract_results, propagation, decisions>>

(***************************************************************************)
(* policy.py and the end                                                   *)
(***************************************************************************)
\* Without a draft only what the scorer found counts.
Names(rule) ==
    rule.signals \cap (IF draft.trigger = "none" THEN signal_names \cap {"node_signal"}
                       ELSE signal_names)
Fires(rule) ==
    \/ rule.flags \cap bundle.tier1.flags # {}
    \/ Names(rule) # {}
    \/ draft.type \in rule.types
    \/ bundle.cost > rule.cost
    \/ \E v \in Scored : inp.score[v] < rule.score

\* The decisions are committed before the result is.
EvaluatePolicies ==
    /\ phase = "drafted"
    /\ decisions' = {rule.name : rule \in {r \in bundle.policies : Fires(r)}}
    /\ phase' = "decided"
    /\ UNCHANGED <<vars, bundle, contract_results, propagation, draft>>

Persist ==
    /\ phase = "decided"
    /\ phase' = "persisted"
    /\ UNCHANGED <<vars, bundle, contract_results, propagation, draft, decisions>>

\* An await raised, or find_blame did; fail_tier2_job, and the entry is retried.
Fail ==
    /\ \/ phase \in {"claimed", "loaded", "facts", "drafted", "decided"}
       \/ phase = "blame" /\ pc = "done"
    /\ phase' = "failed"
    /\ UNCHANGED <<vars, bundle, contract_results, propagation, draft, decisions>>

AnalysisNext ==
    \/ Load \/ ScoreGraph \/ StartBlame \/ FindBlame \/ FactPropagation
    \/ DraftReport \/ EvaluatePolicies \/ Persist \/ Fail

AnalysisSpec == AnalysisInit /\ [][AnalysisNext]_analysisVars

(***************************************************************************)
(* Properties                                                              *)
(***************************************************************************)
Stored == phase = "persisted" /\ bundle.found

\* What cutpoint.py:648-654 does not weigh: the violation of a run whose judge
\* says its input was flawed, or of a run inside a cycle, not at its exit.
ViolationsPassedOver ==
    \A n \in Runs : inp.breach[n] # {} => n \in inp.flawed \/ cond.exitOf[n] # n

\* The part of QuietMeansClean that rests on tier 1: without an incident the
\* deliverable is not bad on today's evidence, and tier 1 raised no flag that
\* opens one by itself.
SilenceHeedsTier1 ==
    Stored /\ draft.trigger = "none" =>
        /\ terminal_verdict # "bad"
        /\ bundle.tier1.flags
             \cap {"loop_anomaly", "failed_runs", "terminal_form_breach", "cost_overrun"} = {}

\* (process, find_blame, derive_incident) A finished analysis that opens no
\* incident has nothing to be silent about: no deliverable that is bad on
\* today's evidence, no failed run, no broken form, no overrun, and no contract
\* violation seen to ship, but for those the deterministic channel passes
\* over -- whichever of the passes should have spoken.
QuietMeansClean ==
    /\ SilenceHeedsTier1
    /\ Stored /\ draft.trigger = "none" /\ Status("propagated") => ViolationsPassedOver

\* (process, reconciliation) A bad verdict whose deterministic basis is gone
\* under today's rules drives nothing: no incident for a bad deliverable, no
\* place where it is said to show, no type of report that leans on it.
StaleNeverBlamed ==
    Stored /\ Stale =>
        /\ draft.trigger = "terminal_failure" => "failed_runs" \in bundle.tier1.flags
        /\ draft.type \notin {"terminal_defect_unlocalized", "composition_failure"}
        /\ verdict.manifestation = {} /\ verdict.row # "fabrication"

\* (reconcile_evidence) Confidence is split, never made: the reported origin,
\* its rival, which is another run and a producer, and the unresolved rest add
\* up to one; neither of the two has more than the report shows, and the report
\* shows no more than the engine gave.
RivalsShareConfidence ==
    phase = "drafted" /\ draft.trigger # "none" =>
        /\ draft.confidence <= verdict.confidence
        /\ draft.hypotheses # {} =>
             \E first, rival, rest \in draft.hypotheses :
                 /\ draft.hypotheses = {first, rival, rest}
                 /\ first.weight + rival.weight + rest.weight = 10000
                 /\ {first.weight, rival.weight} \subseteq 0..draft.confidence
                 /\ rest.weight >= 0 /\ rest.origin = Unknown
                 /\ first.origin = Head(draft.culprits)
                 /\ rival.origin \notin Verifiers \cup {first.origin, Unknown}

\* (_score_graph, judge_gate) Where the gate spared the judge, a check saw the
\* fault begin, and the engine still names every run where one did, or one of
\* its cycle -- but for what the deterministic channel does not look at, a run
\* in a cycle and not at its exit, and for what a verifier displaced.
GateStillLocalizes ==
    Stored /\ bundle.gate /\ localises =>
        /\ inp.originates # {}
        /\ \A n \in inp.originates :
             cond.exitOf[n] = n =>
                ToSet(verdict.culprits) \cap cond.members[n] # {} \/ Displaced(n)

\* (render_shipped_caveat) The terminal section calls the content ok only when
\* the judge of tier 1 looked at it and found it ok.
OkMeansJudgedOk ==
    phase = "drafted" /\ draft.trigger # "none" /\ draft.terminal = "ok in content only, violated"
      => terminal_ok

\* (structured_field_drop) A fact is reported as dropped only when some run fed
\* by the source could have carried it.
DropIsDownstream ==
    phase = "drafted" /\ draft.trigger # "none" =>
        \A f \in draft.drops :
            f.checked \cap UNION {cond.members[s] :
              s \in Descendants(cond, cond.exitOf[fact_source])} # {}
=============================================================================
