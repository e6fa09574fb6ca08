---------------------------- MODULE BlameEngine ----------------------------
(***************************************************************************)
(* find_blame (packages/blame_engine): from the measurements of one trace  *)
(* to a typed verdict.  The function is sequential; its passes are the     *)
(* actions, in the order of the code: Localize (condensation, candidates,  *)
(* findings), one action per row of the classification cascade, the        *)
(* verification gaps with the promotion they may cause, escalation, and    *)
(* Finish, which caps the confidence, traces the path and validates the    *)
(* defects -- or raises, and then the trace gets no report.                *)
(*                                                                         *)
(* Confidence is counted in 1/10000.  The wording of notes and candidacy   *)
(* is left out.                                                            *)
(***************************************************************************)
EXTENDS CutPoint

CONSTANT Inputs             \* the traces that may be analysed

ASSUME InputsAssumption == \A t \in Inputs : IsTrace(t)

VARIABLES inp,              \* the measurements under analysis
          cond,             \* their condensation
          candidates,       \* origins, in report order
          verdict,          \* what the passes have decided so far
          pc                \* the pass that comes next

vars == <<inp, cond, candidates, verdict, pc>>

(***************************************************************************)
(* confidence.py                                                           *)
(***************************************************************************)
DETERMINISTIC_ATTRIBUTION == 9500
BOUNDARY_ATTRIBUTION_CAP == 6000
CORROBORATED_FLAG == 6500
SINGLE_CHANNEL_CUT_POINT_CAP == 7000
unknown_confidence_cap == 6000
JUDGED_DEGRADATION_OBSERVATION == 70

report_type_cap(type) ==
    CASE type = "composition_failure" -> 4000
      [] type = "root_cause_external" -> 5000
      [] type = "multi_culprit" -> 8000
      [] type \in {"verification_gap", "terminal_defect_unlocalized"} -> 6000
      [] OTHER -> 10000

Clamp(x) == Max({0, Min({100, x})})
gap_term(c) == IF c.drop = Unknown THEN 0 ELSE Clamp(2 * c.drop)
severity_term(c) ==
    IF c.score = Unknown THEN 0 ELSE Clamp(((Threshold - c.score) * 100) \div Threshold)
pred_term(c) ==
    IF c.base = Unknown THEN 0
    ELSE Clamp(((c.base - Threshold) * 100) \div (100 - Threshold))

\* 1 - 0.2 * sqrt(interior / 16), the square root to two decimals.
chain_penalty(d) ==
    LET ratio == Min({10000, ((d - 2) * 10000) \div 16})
        root == CHOOSE r \in 0..100 : r * r <= ratio /\ (r + 1) * (r + 1) > ratio
    IN  10000 - 20 * root

compute_confidence(c, multi, chain) ==
    LET Scale(x, p) == (x * p) \div 10000
        When(test, p) == IF test THEN p ELSE 10000
        raw == 50 * gap_term(c) + 30 * severity_term(c) + 20 * pred_term(c)
        cycle == Scale(raw, When(c.iterations > 1, 8000))
        channels == Scale(cycle, When(c.thin, 7500))
        line == Scale(channels, IF chain > 0 THEN chain_penalty(chain) ELSE 10000)
        split == line \div Max({1, Cardinality(c.tied)})
        shared == Scale(split, When(multi, 8000))
    IN  Min({shared, When(c.unknownUpstream, unknown_confidence_cap)})

compute_observation_confidence(c, deterministic) ==
    LET degradation == IF c.baseAssumed THEN 0
                       ELSE gap_term(c) * JUDGED_DEGRADATION_OBSERVATION
    IN  IF deterministic THEN DETERMINISTIC_ATTRIBUTION
        ELSE Max({100 * severity_term(c), degradation})

(***************************************************************************)
(* blame.py: helpers of find_blame                                         *)
(***************************************************************************)
terminal_bad == inp.terminal.verdict = "bad"
terminal_ok == inp.terminal.verdict = "ok"
\* _pick_target reads the verdict as it stands: a stale one is still bad.
flagged_bad == inp.terminal.verdict \in {"bad", "stale"}
quality_unmeasured == \A n \in inp.nodes : inp.score[n] = Unknown
chain == chain_shaped(cond)
Scored == {n \in inp.nodes : inp.score[n] # Unknown}

hidden_unscored ==
    {n \in inp.nodes \ Scored :
        /\ ~(n \in sources(cond) /\ inp.reason[n] = "payload_missing")
        /\ inp.reason[n] \notin {"empty_output", "zero_result_set"}}

flawed_sources == sources(cond) \cap inp.flawed

loop_runs == UNION {cond.members[s] : s \in {t \in Supers(cond) : IsCycle(cond, t)}}

Candidates == {candidates[i] : i \in DOMAIN candidates}

\* via and base_assumed of a culprit; a run that is no candidate has defaults.
via_of(run) ==
    IF \E c \in Candidates : c.run = run
    THEN (CHOOSE c \in Candidates : c.run = run).via ELSE "content"
base_assumed_of(run) == \E c \in Candidates : c.run = run /\ c.baseAssumed


\* _drill_into_loop: the member of a cycle that broke, and its own drop.
drill(c) ==
    LET members == cond.members[c.run]
        scored == members \cap Scored
        worst == {m \in scored : \A x \in scored : inp.score[m] <= inp.score[x]}
        culprit == CASE scored = {} \/ ~IsCycle(cond, c.run) -> c.run
                     [] c.member \in scored /\ IsCycle(cond, c.run) -> c.member
                     [] OTHER -> Min(worst)
        preds == MemberPreds(cond, inp, culprit)
        measured == IsCycle(cond, c.run) /\ scored # {} /\ preds # {}
    IN  [culprit |-> culprit,
         drop |-> IF measured THEN DropFrom(Max(preds), inp.score[culprit]) ELSE Unknown,
         tied |-> IF /\ IsCycle(cond, c.run)
                     /\ c.member \notin scored
                     /\ Cardinality(worst) > 1
                  THEN worst ELSE {}]

\* A candidate with the numbers of the member that was drilled to.
AtMember(c, member, drop) ==
    [c EXCEPT !.run = member,
              !.score = IF inp.score[member] = Unknown THEN @ ELSE inp.score[member],
              !.drop = drop,
              !.base = IF inp.score[member] = Unknown \/ drop = Unknown THEN @
                       ELSE inp.score[member] + drop,
              !.thin = member \in inp.thin]

\* Whether the hard evidence saw the fault begin at the run.
ObservedOrigination(run) == inp.breach[run] # {} \/ run \in inp.originates

verdict_attribution(run, c, raw) ==
    CASE ObservedOrigination(run) /\ c.unknownUpstream -> unknown_confidence_cap
      [] ObservedOrigination(run) /\ ~c.unknownUpstream -> DETERMINISTIC_ATTRIBUTION
      [] ~ObservedOrigination(run) /\ c.baseAssumed -> Min({raw, BOUNDARY_ATTRIBUTION_CAP})
      [] OTHER -> raw

\* _attribution_breakdown, the row of the contract and that of the content.
contract_attribution(c) ==
    IF c.unknownUpstream THEN unknown_confidence_cap ELSE DETERMINISTIC_ATTRIBUTION
content_attribution(c, raw, default) ==
    CASE c.via = "deterministic" -> default
      [] c.via # "deterministic" /\ c.baseAssumed -> Min({raw, BOUNDARY_ATTRIBUTION_CAP})
      [] OTHER -> raw

(***************************************************************************)
(* assemble.py: defects, each with the kinds of finding that support it    *)
(***************************************************************************)
\* build_findings: the candidates whose drop is a finding from the start.
BuiltDrops ==
    {c.run : c \in {d \in Candidates :
        (d.via # "deterministic" \/ d.chain # << >>) /\ d.run \notin loop_runs}}

\* ensure_content_drop_finding
EnsureDrop(drops, run, drop) == IF drop = Unknown THEN drops ELSE drops \cup {run}

When(test, kind) == IF test THEN {kind} ELSE {}

ContentSupport(drops, run) ==
    When(run \in drops, "content_drop")
      \cup When(run \notin drops /\ Degraded(inp, run), "content_score")
      \cup When(run \in inp.flags, "content_flag")
      \cup When(run \in inp.signals, "deterministic_signal")
      \cup When(terminal_bad, "terminal_content")

Defect(kind, origin, run, support, attribution) ==
    [kind |-> kind, origin |-> origin, run |-> run, support |-> support,
     recovered |-> FALSE, unverified |-> FALSE, attribution |-> attribution]

contract_defect(run, attribution, marker) ==
    [Defect("contract", "Localized", run,
            {"contract_breach"} \cup When(inp.propagated, "breach_propagated"),
            attribution)
       EXCEPT !.unverified = marker /\ ~inp.propagated /\ ~inp.corrected]

content_defect(drops, run, recovered, attribution) ==
    [Defect("content", "Localized", run, ContentSupport(drops, run), attribution)
       EXCEPT !.recovered = recovered]

Breached(run) == inp.breach[run] # {}

\* The rule emit_cut_point and emit_multi share.
EmitsContent(run) ==
    terminal_bad \/ ~Breached(run) \/ via_of(run) \in {"content", "both"}

emit_external(drops, run) ==
    {Defect("content", "External", run,
            {"input_flawed"} \cup ContentSupport(drops, run), Unknown)}

emit_loop(run) == {Defect("loop", "Localized", run, {"loop_anomaly"}, Unknown)}

emit_multi(drops, culprits) ==
    {contract_defect(c, Unknown, ~terminal_bad) : c \in {d \in culprits : Breached(d)}}
      \cup {content_defect(drops, c, FALSE, Unknown) : c \in {d \in culprits : EmitsContent(d)}}

emit_verification(runs) ==
    {Defect("verification", "Localized", c, {"verifier_verdict"}, Unknown) : c \in runs}

emit_composition ==
    {Defect("content", "Unlocalized", Unknown, When(terminal_bad, "terminal_content"), Unknown)}

emit_terminal_unlocalized(run) ==
    (IF Breached(run) THEN {contract_defect(run, DETERMINISTIC_ATTRIBUTION, TRUE)} ELSE {})
      \cup emit_composition

emit_cut_point(drops, run, contractAttr, contentAttr) ==
    (IF Breached(run) THEN {contract_defect(run, contractAttr, ~EmitsContent(run))} ELSE {})
      \cup (IF EmitsContent(run) THEN {content_defect(drops, run, FALSE, contentAttr)} ELSE {})

emit_degraded_recovered(drops, run, contractAttr, contentAttr) ==
    IF Breached(run) THEN {contract_defect(run, contractAttr, TRUE)}
    ELSE {content_defect(drops, run, TRUE, contentAttr)}

\* emit_form: the form of the deliverable is traced to the first rewrite that
\* produced it, else to the design (no verifier looks at form).
emit_form ==
    LET order == graph_nodes(cond)
        makers == {n \in inp.nodes :
                     \E b \in inp.breach[n] : b[2] = inp.terminal.observed}
    IN  IF makers # {}
        THEN {Defect("form", "Localized", FirstIn(order, makers),
                     {"terminal_form", "contract_breach"}
                       \cup When(inp.propagated, "breach_propagated"), Unknown)}
        ELSE {Defect("form", "Design", Unknown, {"terminal_form", "detection_gap"}, Unknown)}

(***************************************************************************)
(* derive.py                                                               *)
(***************************************************************************)
derive_report_type(defects) ==
    LET primary == {d \in defects : d.kind \in {"content", "contract", "loop"}}
        localized(S) == {d \in S : d.origin = "Localized"}
        content == {d \in defects : d.kind = "content"}
        active == {d \in content : ~d.recovered}
        contract == {d \in defects : d.kind = "contract"}
        verification == {d \in defects : d.kind = "verification"}
    IN  IF primary = {} /\ verification = {} THEN "unclassified"
        ELSE IF \E d \in defects : d.origin = "External" THEN "root_cause_external"
        ELSE IF Cardinality({d.run : d \in localized(primary)}) >= 2 THEN "multi_culprit"
        ELSE IF \E d \in primary : d.kind = "loop" THEN "loop_detected"
        ELSE IF localized(active) # {} THEN "cut_point"
        ELSE IF content # {} /\ active = {} /\ contract = {} THEN "degraded_recovered"
        ELSE IF contract # {} /\ \E d \in active : d.origin = "Unlocalized"
        THEN "terminal_defect_unlocalized"
        ELSE IF contract # {} /\ active = {}
        THEN IF quality_unmeasured THEN "cut_point" ELSE "degraded_recovered"
        ELSE IF active # {} THEN "composition_failure"
        ELSE "verification_gap"

\* A near-miss with a breach that the worker saw in the deliverable.
derive_escalation_records(type) ==
    IF type = "degraded_recovered" /\ inp.propagated
    THEN "shipped_with_latent_defect" ELSE type

\* reconcile: the facts that two findings state differently.
reconcile ==
    LET lane == {n \in inp.verifiers : Succs(inp.edges, n) \subseteq inp.verifiers}
        froms == {b[1] : b \in UNION {inp.breach[n] : n \in inp.nodes}}
        asked == IF inp.terminal.request = Unknown THEN {} ELSE {inp.terminal.request}
    IN  When(terminal_ok /\ lane \cap inp.flawed # {}, "assessment_conflict")
          \cup When(Cardinality(froms \cup asked) > 1, "requirement_provenance")

(***************************************************************************)
(* State                                                                   *)
(***************************************************************************)
NoVerdict ==
    [row |-> "none", culprits |-> << >>, defects |-> {}, drops |-> {},
     confidence |-> 0, observation |-> Unknown, attribution |-> Unknown,
     tied |-> {}, cycle |-> {}, measured |-> {}, gaps |-> {}, type |-> "none",
     path |-> << >>, cost |-> 0,
     divergences |-> {}, manifestation |-> {}, hypotheses |-> {},
     candidacy |-> << >>, raised |-> FALSE]

NoCondensation == [topo |-> << >>]

Init ==
    /\ inp \in Inputs
    /\ cond = NoCondensation
    /\ candidates = << >>
    /\ verdict = NoVerdict
    /\ pc = "localize"

Localize ==
    /\ pc = "localize"
    /\ cond' = condense(inp.nodes, inp.edges)
    /\ candidates' = select_candidates(cond', inp)
    /\ pc' = "classify"
    /\ UNCHANGED <<inp, verdict>>

(***************************************************************************)
(* The cascade.  The first row that applies decides.                       *)
(***************************************************************************)
Runaway == anomalies(cond, inp)

content_flagged ==
    {n \in Scored : n \in inp.flags /\ n \notin inp.flawed /\ n \notin inp.verifiers}

one == candidates[1]

NearMiss ==
    /\ one.recovered
    /\ terminal_ok
    /\ ~IsCycle(cond, one.run) \/ one.member # Unknown

HardFaultBesideBadContent ==
    /\ one.recovered
    /\ terminal_bad
    /\ one.via = "deterministic"
    /\ ~IsCycle(cond, one.run)

EveryScoreHealthy ==
    /\ hidden_unscored = {}
    /\ \A n \in Scored : Healthy(inp, n)
    /\ ~HadSignificantDrop(cond, inp)

first_row ==
    IF quality_unmeasured /\ candidates = << >> /\ Runaway = {} THEN "nothing_measured"
    ELSE IF candidates = << >> /\ flawed_sources # {} THEN "external"
    ELSE IF Runaway # {} /\ (candidates = << >> \/ Runaway \cap RunsOf(candidates) # {})
    THEN "loop"
    ELSE IF Len(candidates) = 1 /\ NearMiss THEN "near_miss"
    ELSE IF Len(candidates) = 1 /\ HardFaultBesideBadContent THEN "unlocalized"
    ELSE IF Len(candidates) = 1 THEN "cut_point"
    ELSE IF Len(candidates) > 1 THEN "multi"
    ELSE IF terminal_bad /\ content_flagged # {} THEN "fabrication"
    ELSE IF terminal_bad /\ EveryScoreHealthy THEN "composition"
    ELSE "unclassified"

Classify ==
    /\ pc = "classify"
    /\ pc' = first_row
    /\ UNCHANGED <<inp, cond, candidates, verdict>>

Decide(name, v) ==
    /\ pc = name
    /\ verdict' = [v EXCEPT !.row = name]
    /\ pc' = "gaps"
    /\ UNCHANGED <<inp, cond, candidates>>

NothingMeasured == Decide("nothing_measured", NoVerdict)

Unclassified == Decide("unclassified", NoVerdict)

External ==
    LET run == FirstIn(cond.topo, flawed_sources)
        score == Max({0, inp.score[run]})
        c == [CandidateOf(cond, inp, run) EXCEPT
                 !.score = score, !.base = 100, !.drop = 100 - score]
    IN  Decide("external",
          [NoVerdict EXCEPT !.culprits = <<run>>,
                            !.defects = emit_external({}, run),
                            !.confidence = compute_confidence(c, FALSE, chain)])

\* _resolve_culprit: where one of several candidates broke.  The hard evidence
\* of a deterministic origin stays at the exit run.
Resolve(c) ==
    LET d == drill(c)
        moves == IsCycle(cond, c.run) /\ c.via = "content"
                   /\ (d.drop # Unknown \/ c.member # Unknown)
    IN  [culprit |-> IF moves THEN d.culprit ELSE c.run,
         drop |-> CASE moves -> d.drop
                    [] ~moves /\ c.run \in loop_runs /\ c.via # "deterministic" -> c.drop
                    [] OTHER -> Unknown,
         cycle |-> IF moves THEN cond.members[c.run] ELSE {},
         numbers |-> IF moves /\ d.culprit # c.run
                     THEN AtMember(c, d.culprit,
                                   IF d.drop = Unknown THEN c.drop ELSE d.drop)
                     ELSE c]

ResolvedDrops(cs) ==
    BuiltDrops \cup {r.culprit : r \in {Resolve(c) : c \in {d \in cs : Resolve(d).drop # Unknown}}}

\* The runs whose drop inside a cycle was measured (loop_drops).
MeasuredInCycle(cs) ==
    {r.culprit : r \in {Resolve(c) : c \in {d \in cs :
        Resolve(d).cycle # {} /\ Resolve(d).drop # Unknown}}}

Cycles(cs) == UNION {Resolve(c).cycle : c \in cs}

SumConfidence(seq) ==
    LET sum[i \in 0..Len(seq)] ==
          IF i = 0 THEN 0
          ELSE sum[i - 1] + compute_confidence(Resolve(seq[i]).numbers, TRUE, chain)
    IN  sum[Len(seq)]

\* Row 3, with the origins elsewhere that the loop does not absorb.
looped ==
    LET named == Runaway \cap RunsOf(candidates)
        s == FirstIn(cond.topo, IF named # {} THEN named ELSE Runaway)
        blamed == IF repeating(cond, inp, s) # {} THEN repeating(cond, inp, s)
                  ELSE cond.members[s]
        others == Select(candidates, {c \in Candidates : c.run # s})
        else == [i \in DOMAIN others |-> Resolve(others[i]).culprit]
        drops == ResolvedDrops(ToSet(others))
        own == IF s \in RunsOf(candidates)
               THEN compute_confidence(CHOOSE c \in Candidates : c.run = s, FALSE, chain)
               ELSE 10000
    IN  [NoVerdict EXCEPT
           !.culprits = ByTime(blamed)
                          \o Select(else, ToSet(else) \ blamed),
           !.drops = drops,
           !.cycle = Cycles(ToSet(others)),
           !.measured = MeasuredInCycle(ToSet(others)),
           !.defects = emit_loop(Min(blamed)) \cup emit_multi(drops, ToSet(else)),
           !.confidence = (own + SumConfidence(others)) \div (1 + Len(others))]

Loop == Decide("loop", looped)

\* What rows 4a, 4b and 4c compute alike of the one candidate c.
Measured(run, c) ==
    LET raw == compute_confidence(c, FALSE, chain)
        attribution == verdict_attribution(run, c, raw)
    IN  [NoVerdict EXCEPT
           !.culprits = <<run>>,
           !.attribution = attribution,
           !.observation = compute_observation_confidence(c, deterministic_defect(inp, run))]

\* Row 4a: degraded, but every successor recovered and the terminal is good.
missed ==
    LET run == IF one.member # Unknown THEN one.member ELSE one.run
        preds == MemberPreds(cond, inp, run)
        base == IF preds = {} THEN Unknown ELSE Max(preds)
        drop == DropFrom(base, inp.score[run])
        c == IF one.member = Unknown THEN one
             ELSE [AtMember(one, run, drop) EXCEPT !.base = base]
        drops == IF one.member = Unknown THEN BuiltDrops ELSE EnsureDrop(BuiltDrops, run, drop)
        m == Measured(run, c)
        raw == compute_confidence(c, FALSE, chain)
    IN  [m EXCEPT !.confidence = m.observation,
                  !.tied = c.tied,
                  !.cycle = IF one.member = Unknown THEN {} ELSE cond.members[one.run],
                  !.drops = drops,
                  !.defects = emit_degraded_recovered(drops, run, contract_attribution(c),
                                   content_attribution(c, raw, m.attribution))]

NearMissRow == Decide("near_miss", missed)

\* Row 4b: a hard fault is localized, the bad content is not.
UnlocalizedRow ==
    Decide("unlocalized",
      [Measured(one.run, one) EXCEPT
         !.confidence = report_type_cap("terminal_defect_unlocalized"),
         !.drops = BuiltDrops,
         !.defects = emit_terminal_unlocalized(one.run)])

\* Row 4c: the one candidate, at the member that its cycle was drilled to.
drilled_one ==
    LET d == drill(one)
        run == d.culprit
        inCycle == IsCycle(cond, one.run)
        moved == CASE inCycle /\ d.drop # Unknown ->
                        [AtMember(one, run, d.drop) EXCEPT !.baseAssumed = FALSE]
                   [] inCycle /\ d.drop = Unknown /\ one.via = "content" /\ one.chain = << >> ->
                        [one EXCEPT !.run = run,
                                    !.score = IF inp.score[run] = Unknown THEN @
                                              ELSE inp.score[run],
                                    !.thin = run \in inp.thin]
                   [] OTHER -> one
    IN  [moved EXCEPT !.tied = IF one.tied # {} THEN one.tied ELSE d.tied]

cut ==
    LET d == drill(one)
        run == d.culprit
        inCycle == IsCycle(cond, one.run)
        moved == inCycle /\ (d.drop # Unknown \/ (one.via = "content" /\ one.chain = << >>))
        content == one.via # "deterministic" \/ one.chain # << >>
        drilled == IF inCycle THEN EnsureDrop(BuiltDrops, run, d.drop) ELSE BuiltDrops
        drops == IF run = one.run /\ run \in loop_runs /\ content
                 THEN EnsureDrop(drilled, run, one.drop) ELSE drilled
        m == Measured(run, drilled_one)
        raw == compute_confidence(drilled_one, FALSE, chain)
    IN  [m EXCEPT !.confidence = m.attribution,
                  !.tied = drilled_one.tied,
                  !.cycle = IF moved THEN cond.members[one.run] ELSE {},
                  !.measured = When(inCycle /\ d.drop # Unknown, run),
                  !.drops = drops,
                  !.defects = emit_cut_point(drops, run, contract_attribution(drilled_one),
                                   content_attribution(drilled_one, raw, m.attribution))]

CutPointRow == Decide("cut_point", cut)

\* Row 5: several origins, each resolved like a lone one.
Multi ==
    LET culprits == [i \in DOMAIN candidates |-> Resolve(candidates[i]).culprit]
        drops == ResolvedDrops(Candidates)
    IN  Decide("multi",
          [NoVerdict EXCEPT
             !.culprits = culprits,
             !.drops = drops,
             !.cycle = Cycles(Candidates),
             !.measured = MeasuredInCycle(Candidates),
             !.defects = emit_multi(drops, ToSet(culprits)),
             !.confidence = SumConfidence(candidates) \div Len(candidates)])

\* Row 5b: a run admitted a content defect and the terminal confirms one.
Fabrication ==
    LET run == FirstIn(graph_nodes(cond), content_flagged)
    IN  Decide("fabrication",
          [NoVerdict EXCEPT
             !.culprits = <<run>>,
             !.defects = emit_cut_point({}, run, DETERMINISTIC_ATTRIBUTION, Unknown),
             !.confidence = CORROBORATED_FLAG])

\* Row 6: every run looks healthy and the outcome is bad.
Composition ==
    Decide("composition",
      [NoVerdict EXCEPT
         !.culprits = <<Min(sources(cond))>>,
         !.defects = emit_composition,
         !.confidence = report_type_cap("composition_failure")])

(***************************************************************************)
(* After the cascade                                                       *)
(***************************************************************************)
\* A verifier scored wrong, confirmed or contradicted by the terminal.
ScoredGaps ==
    {[run |-> n, basis |-> IF n \in inp.issuedFail /\ terminal_bad
                           THEN "verifier_flag_conflict" ELSE "verdict_scored_incorrect"] :
        n \in {v \in inp.verifiers \cap Scored :
                 /\ Degraded(inp, v)
                 /\ terminal_bad \/ (terminal_ok /\ v \in inp.issuedFail)}}

\* A verifier that let bad work pass, downstream of the culprits if there are.
PassedBad(culprits) ==
    LET below == UNION {Succs(Closure(inp.nodes, cond.graph), c) \ {c} : c \in culprits}
    IN  {[run |-> n, basis |-> "passed_bad_terminal"] :
           n \in {v \in inp.verifiers \cap Scored :
                    /\ terminal_bad
                    /\ Healthy(inp, v)
                    /\ v \notin inp.issuedFail
                    /\ below = {} \/ v \in below}}

VerificationGaps ==
    LET gaps == ScoredGaps \cup PassedBad(ToSet(verdict.culprits))
        asserted == {g.run : g \in {h \in gaps : h.basis # "verifier_flag_conflict"}}
        type == derive_report_type(verdict.defects)
        promoted == type \in {"composition_failure", "unclassified"} /\ asserted # {}
    IN  /\ pc = "gaps"
        /\ verdict' =
             IF promoted
             THEN [verdict EXCEPT
                     !.gaps = gaps,
                     !.culprits =
                        ByTime({g.run : g \in ScoredGaps} \cap asserted)
                          \o ByTime(asserted \ {g.run : g \in ScoredGaps}),
                     !.confidence = report_type_cap("verification_gap"),
                     !.defects = emit_verification(asserted),
                     !.type = derive_report_type(emit_verification(asserted))]
             ELSE [verdict EXCEPT !.gaps = gaps, !.type = type]
        /\ pc' = "escalate"
        /\ UNCHANGED <<inp, cond, candidates>>

\* Escalation and the form dimension of the terminal verdict.
Escalate ==
    /\ pc = "escalate"
    /\ verdict' = [verdict EXCEPT
         !.type = derive_escalation_records(@),
         !.defects = IF inp.terminal.formBad /\ (terminal_ok \/ terminal_bad)
                     THEN @ \cup emit_form ELSE @]
    /\ pc' = "finish"
    /\ UNCHANGED <<inp, cond, candidates>>

\* Where the failure surfaced: a sink, or the last producer before verifiers.
\* levels: the super-nodes one, two, ... hops above the sink, each once.
surfaced(sink) ==
    LET Above(levels, i) ==
          Append(levels, UNION {Preds(cond.dag, s) : s \in Last(levels)}
                           \ UNION ToSet(levels))
        levels == FoldLeft(Above, <<{sink}>>, cond.topo)
        first == {k \in DOMAIN levels : ~(levels[k] \subseteq inp.verifiers)}
    IN  IF sink \notin inp.verifiers \/ first = {} THEN sink
        ELSE Max(levels[Min(first)] \ inp.verifiers)

manifestation(type) ==
    IF terminal_ok \/ inp.terminal.verdict = "stale" \/ type = "degraded_recovered"
    THEN {} ELSE {surfaced(s) : s \in sinks(cond)}

\* A tie is shown with its shares, unless the shares would exceed the whole.
Hypotheses(v) ==
    IF /\ Cardinality(v.tied) > 1
       /\ v.attribution # Unknown
       /\ v.culprits # << >> /\ inp.score[v.culprits[1]] # Unknown
       /\ v.attribution * Cardinality(v.tied) <= 10000
    THEN v.tied ELSE {}

\* Producers whose healthy score the deliverable they produced refutes.
reality_conflicts(v) ==
    {m \in manifestation(v.type) \ ToSet(v.culprits) : terminal_bad /\ Healthy(inp, m)}

Below(runs) == UNION {Succs(Closure(cond.nodes, cond.graph), c) : c \in runs}

\* Producers that scored healthy on what a fabrication fed them.
cascade_participants(v) ==
    IF v.row # "fabrication" THEN {}
    ELSE {n \in Below(ToSet(v.culprits)) \ inp.verifiers : Healthy(inp, n)}

\* all_drops: the decline of a run the report shows, Unknown when it shows none.
drop_shown(n, v) ==
    LET preds == MemberPreds(cond, inp, n)
        raw == IF preds = {} \/ inp.score[n] = Unknown THEN Unknown
               ELSE Max(preds) - inp.score[n]
        own == {c.drop : c \in {d \in Candidates :
                  d.run = n /\ d.drop # Unknown /\ ~d.baseAssumed}}
    IN  CASE n \in v.measured -> Max({0, raw})
          [] n \notin v.measured /\ own # {} -> Max(own)
          [] n \notin v.measured /\ own = {} /\ raw > 20 -> raw
          [] OTHER -> Unknown

\* Why a culprit is the origin.
origin_candidacy(n, v) ==
    LET eroded == \E c \in Candidates : c.run = n /\ c.chain # << >>
    IN  CASE v.row = "fabrication" -> "origin_fabrication"
          [] v.row # "fabrication" /\ via_of(n) = "deterministic" -> "origin_deterministic"
          [] v.row # "fabrication" /\ via_of(n) # "deterministic" /\ eroded -> "origin_cumulative"
          [] OTHER -> IF drop_shown(n, v) # Unknown THEN "origin_drop"
                      ELSE IF MemberPreds(cond, inp, n) # {} THEN "origin_vs_predecessor"
                      ELSE IF Degraded(inp, n) THEN "origin_boundary"
                      ELSE "origin_by_classification"

\* Why a run that is no culprit, and was measured, is none.
bystander_candidacy(n, v, chains) ==
    LET paths == SelectSeq(chains, LAMBDA p : n \in ToSet(p))
    IN  CASE n \in v.cycle -> "loop_member"
          [] n \notin v.cycle /\ Degraded(inp, n) ->
               (CASE n \in Below(ToSet(v.culprits)) -> "inherited"
                  [] n \notin Below(ToSet(v.culprits)) /\ v.culprits # << >> -> "independent_low"
                  [] OTHER -> "below_not_origin")
          [] n \notin v.cycle /\ Healthy(inp, n) /\ paths # << >> ->
               IF paths[1][1] = n THEN "degradation_path_start" ELSE "degradation_path_member"
          [] OTHER ->
               IF terminal_bad /\ n \in inp.issuedFail THEN "whistleblower"
               ELSE IF n \in reality_conflicts(v) THEN "claims_conflict"
               ELSE IF n \in cascade_participants(v) THEN "cascade_participant"
               ELSE IF drop_shown(n, v) > 20 THEN "transient_low"
               ELSE "healthy"

\* The candidacy trace: why each run was or was not blamed.
candidacy(n, v, chains) ==
    LET named == n \in ToSet(v.culprits)
        gap(basis) == \E g \in v.gaps : g.run = n /\ g.basis = basis
    IN  CASE named /\ v.type = "composition_failure" -> "composition_suspect"
          [] inp.score[n] = Unknown /\ ~(named /\ via_of(n) = "deterministic")
               /\ ~(named /\ v.type = "composition_failure") ->
               IF n \in sources(cond) /\ inp.reason[n] = "payload_missing"
               THEN "structural_root" ELSE "unscored"
          [] OTHER ->
               IF gap("verdict_scored_incorrect") THEN "gap_verdict_scored_incorrect"
               ELSE IF gap("passed_bad_terminal") THEN "gap_passed_bad_terminal"
               ELSE IF named /\ v.type = "shipped_with_latent_defect" THEN "origin_escalated"
               ELSE IF named /\ v.type = "degraded_recovered" THEN "degraded_recovered"
               ELSE IF named THEN origin_candidacy(n, v)
               ELSE bystander_candidacy(n, v, chains)

\* validate_defects: a defect without a supporting finding is an error.
Unsupported(defects) == \E d \in defects : d.support = {}

Finish ==
    /\ pc = "finish"
    /\ LET v == verdict
           named == ToSet(v.culprits)
           thin == v.culprits # << >> /\ v.culprits[1] \in inp.thin
           capped == Min({v.confidence, report_type_cap(v.type)})
       IN  verdict' = [v EXCEPT
             !.confidence = IF thin /\ v.type = "cut_point"
                            THEN Min({capped, SINGLE_CHANNEL_CUT_POINT_CAP}) ELSE capped,
             !.path = IF v.culprits = << >> THEN << >>
                      ELSE propagation_path(cond, inp.score, flagged_bad, v.culprits[1]),
             !.cost = downstream_cost(cond, inp.cost, named),
             !.divergences = reconcile,
             !.manifestation = manifestation(v.type),
             !.hypotheses = Hypotheses(v),
             !.candidacy = LET chains == degradation_chains(cond, inp)
                           IN  [n \in cond.nodes |-> candidacy(n, v, chains)],
             !.raised = Unsupported(v.defects)]
    /\ pc' = "done"
    /\ UNCHANGED <<inp, cond, candidates>>

Next ==
    \/ Localize \/ Classify
    \/ NothingMeasured \/ External \/ Loop
    \/ NearMissRow \/ UnlocalizedRow \/ CutPointRow
    \/ Multi \/ Fabrication \/ Composition \/ Unclassified
    \/ VerificationGaps \/ Escalate \/ Finish

Spec == Init /\ [][Next]_vars

(***************************************************************************)
(* Properties                                                              *)
(***************************************************************************)
Kinds == {"content", "contract", "loop", "verification", "form"}
ReportTypes ==
    {"none", "unclassified", "root_cause_external", "multi_culprit", "loop_detected",
     "cut_point", "degraded_recovered", "shipped_with_latent_defect",
     "terminal_defect_unlocalized", "composition_failure", "verification_gap"}

\* The verdict is well formed in every pass: the report names runs of its own
\* trace, in defects of known kinds, with a confidence between 0 and 1.
TypeOK ==
    /\ ToSet(verdict.culprits) \subseteq inp.nodes
    /\ verdict.confidence \in 0..10000
    /\ verdict.type \in ReportTypes
    /\ \A d \in verdict.defects : d.kind \in Kinds /\ d.run \in inp.nodes \cup {Unknown}
    /\ \A i \in DOMAIN verdict.path : verdict.path[i] \in Supers(cond)

Done == pc = "done"

\* (propagation_path, path.py) Wherever the culprit sits, and whatever the
\* terminal verdict is, the path the report draws starts at the culprit's
\* super-node, follows edges of the trace, and ends where the trace ends.
PathReachesSink ==
    Done /\ verdict.culprits # << >> =>
        LET p == verdict.path
        IN  /\ p[1] = cond.exitOf[verdict.culprits[1]]
            /\ Last(p) \in sinks(cond)
            /\ \A i \in 1..(Len(p) - 1) : <<p[i], p[i + 1]>> \in cond.dag

DeclinesFrom(m, n) ==
    /\ inp.score[m] # Unknown /\ inp.score[n] # Unknown
    /\ inp.score[m] - inp.score[n] >= Min({CumStep, GapThreshold, MinDrop})

\* What there is against a run, in any channel.
EvidenceAgainst(n) ==
    \/ Degraded(inp, n)
    \/ deterministic_defect(inp, n)
    \/ n \in inp.flags \cup inp.flawed
    \/ n \in UNION {cond.members[s] : s \in Runaway}
    \/ \E g \in verdict.gaps : g.run = n
    \/ \E m \in inp.nodes :
          <<m, n>> \in cond.graph /\ DeclinesFrom(m, n)

\* A cycle is one step on the way: it gives what its exit scored, whichever
\* member feeds the next run, and takes in at one member what another is held to.
BelowInputOfCycle(n) ==
    \E s \in Preds(cond.dag, cond.exitOf[n]) : DeclinesFrom(s, n)

\* (find_blame) Nobody is accused without cause: a run a report localizes a
\* fault at has something of its own against it -- a low score, a drop from
\* what it was given, a failed check, a flag, a runaway cycle or a verdict it
\* got wrong -- even where the fault was traced through a cycle.  Into and out
\* of a cycle a drop is measured between exits, and without that excuse TLC
\* finds a run accused that improved on its input.  A cycle with hard evidence
\* is left out: there row 4c moves the culprit off the evidence, which
\* DefectsSupported is about.
AccusedWithCause ==
    Done => \A d \in verdict.defects :
              d.origin = "Localized" =>
                 \/ EvidenceAgainst(d.run) \/ BelowInputOfCycle(d.run)
                 \/ \E m \in cond.members[cond.exitOf[d.run]] : deterministic_defect(inp, m)

\* (cutpoint.py:_deterministic_origins, the rows of find_blame) Hard evidence
\* is not lost on the way to the report: a failed check or a contract violation
\* that began at a run, and that no flawed input excuses, puts the run or one
\* from the same cycle among the culprits, whatever the content channel says --
\* unless row 4b localized it and a verifier took its place: row 4b makes a
\* defect of a contract violation only, so beside a failed check its report
\* is one of composition, which a verification gap replaces.
Displaced(s) ==
    /\ verdict.row = "unlocalized" /\ verdict.type = "verification_gap"
    /\ inp.breach[s] = {}

HardFaultNamed ==
    Done =>
        \A s \in PrimaryFaults(cond, inp) :
            ToSet(verdict.culprits) \cap cond.members[s] # {} \/ Displaced(s)

\* (docs/architecture.md:175) "verifiers whose PASS was wrong while no producer
\* origin localised": a verification gap is the headline only where nothing
\* was localized at a producer.
GapOnlyWithoutOrigin ==
    Done /\ verdict.type = "verification_gap" => candidates = << >>

\* (_analyze, shadowing, and the drills of row 5) Of two culprits of one report
\* neither is below the other on content alone: a run that inherited its low
\* quality from a culprit is not named beside it.
CulpritsIndependent ==
    Done /\ verdict.row = "multi" =>
        \A i, j \in DOMAIN verdict.culprits :
            LET u == cond.exitOf[verdict.culprits[i]]
                w == cond.exitOf[verdict.culprits[j]]
            IN  w \in Descendants(cond, u) =>
                   deterministic_defect(inp, w) \/ deterministic_defect(inp, u)

\* What the thresholds let pass: a run that slid below the bar by less than a
\* break from inputs that were all above it, or a low run inside a cycle.
SlidBelow(s) ==
    \/ Degraded(inp, s) /\ InputsHealthy(cond, inp, s) /\ ~observed_drop(cond, inp, s)
    \/ IsCycle(cond, s) /\ \E m \in cond.members[s] : Degraded(inp, m)

\* (rows 5b, 6 and 7, and _collect_verification_gaps) A deliverable that the
\* terminal verdict calls bad is never answered with "nothing found" while
\* every run was measured and no judge excused its run, unless quality was lost
\* below the thresholds at some first run.
BadNeverSilent ==
    Done /\ terminal_bad /\ inp.nodes # {} /\ Scored = inp.nodes /\ inp.flawed = {}
         /\ verdict.type = "unclassified"
        => \E s \in Supers(cond) : SlidBelow(s)


\* (candidacy, blame.py:1895-1899) "An unscored node CAN be a culprit -- but only
\* through the deterministic channel", and for another "the verdict named the
\* agent while its candidacy row said it was never in the running".
NamedInTheRunning ==
    Done =>
        \A n \in ToSet(verdict.culprits) : verdict.candidacy[n] # "unscored"

\* (candidacy, blame.py:1923-1929) The line of an escalated origin "fires only for
\* a shipped CONTRACT breach, so the origin is deterministic": a run it speaks of
\* has hard evidence of its own.
EscalatedOriginIsHard ==
    Done =>
        \A n \in cond.nodes :
            verdict.candidacy[n] = "origin_escalated" => deterministic_defect(inp, n)

\* (validate_defects, blame.py:528 and cutpoint.py:731) "Drill only in the
\* CONTENT channel": the evidence of a hard fault is at the exit run of its
\* cycle, so every defect of a report has a finding to rest on, and the
\* validation at the end never raises.
DefectsSupported == Done => ~verdict.raised
=============================================================================
