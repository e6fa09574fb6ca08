----------------------------- MODULE NodeScoring -----------------------------
(***************************************************************************)
(* score_node (services/worker/worker/scoring.py): one run of a trace gets *)
(* a quality score, or the reason why it has none, and the signals of the  *)
(* checks.  The deterministic half runs before the judge is asked, because *)
(* its findings are part of the prompt; the answer of the judge, or the    *)
(* reason why there is none, arrives across an await; then the channels    *)
(* are blended.                                                            *)
(*                                                                         *)
(* Scores and weights are percentages.                                     *)
(***************************************************************************)
EXTENDS TraceChecks, FiniteSetsExt

CONSTANTS
  Measured,       \* the runs that may be scored, with their payloads
  Verdicts,       \* the JSON objects a judge may answer with
  Weight,         \* [schema, judge, heuristics]: SCORE_W_*
  MinWeight,      \* SCORE_MIN_WEIGHT
  MinArtifact,    \* MIN_ARTIFACT_BYTES
  Today           \* the day the runs started

VARIABLES
  node,           \* the run, its input and output, the contracts and the rules
  found,          \* what the deterministic half established
  answer,         \* what came of the judge
  score,          \* the NodeScore
  step            \* "measure", "judge", "blend", "scored"

nodeVars == <<node, found, answer, score, step>>

None == -1
NoAnswer == [score |-> None, flawed |-> "unknown", flags |-> {}, cause |-> "none"]

Unscored(reason, signals) ==
  [score |-> None, reason |-> reason, flawed |-> "unknown", violations |-> {},
   signals |-> signals, flags |-> Names(signals),
   schema |-> None, judge |-> None, heuristics |-> None]

NoScore == Unscored("pending", {})

-------------------------------------------------------------------------------
(* The contract a run was given: parameters it must carry through            *)

ContractKeys == {"file_type", "format", "lang"}

Values(params, key) == {p[2] : p \in {q \in params : q[1] = key}}
Keys(params) == {p[1] : p \in params}

\* As a plausible slip would have it: any of the values that came in.
first_contract_params(params, keys) ==
  {<<k, CHOOSE v \in Values(params, k) : TRUE>> : k \in Keys(params) \cap keys}

\* A key that came with two values is no contract.
unambiguous_contract_params(params, keys) ==
  {p \in params : p[1] \in keys /\ Cardinality(Values(params, p[1])) = 1}

\* A parameter is carried when it is found in JSON and has one value.
CarriedParams(payload, keys) ==
  unambiguous_contract_params(IF payload.json THEN payload.params ELSE {}, keys)

\* What instrumentation declares is the input side of the contract for its keys,
\* and widens the search on the output side.
contract_violations(n) ==
  LET declared == Keys(n.declared)
      given == n.declared \cup
               {p \in CarriedParams(n.in, ContractKeys) : p[1] \notin declared}
      kept == CarriedParams(n.out, ContractKeys \cup declared)
  IN {<<x[1][1], x[1][2], x[2][2]>> :
        x \in {y \in given \X kept : y[1][1] = y[2][1] /\ y[1][2] # y[2][2]}}

expected_lang(n) ==
  LET wanted == {p[2] : p \in CarriedParams(n.in, {"lang"})}
      told == {p[2] : p \in CarriedParams(n.out, {"lang"})}
  IN IF wanted # {} THEN CHOOSE v \in wanted : TRUE
     ELSE IF told # {} THEN CHOOSE v \in told : TRUE
     ELSE ""

-------------------------------------------------------------------------------
(* The deterministic half                                                    *)

\* Rules of this agent or of none, of this graph type or of none.
Applies(rule, n) == rule.agent \in {"", n.agent} /\ rule.graph \in {"", n.graph}

\* A section that the document needs is asked of the run that delivers the
\* document; of another run only by a rule that names it.
section_rules(n) ==
  {r \in n.rules : /\ r.kind = "required_section" /\ Applies(r, n)
                   /\ r.agent # "" \/ n.delivers}

sum_rules(n) == {r.tolerance : r \in {x \in n.rules : x.kind = "sum_invariant" /\ Applies(x, n)}}

tool_schemas(n) == SelectSeq(n.schemas, LAMBDA s : Applies(s, n))

\* Checks of the work itself: a verifier talks about the work of others.
content_signals(n) ==
  IF n.verifier THEN {}
  ELSE required_section(n.out, section_rules(n))
       \cup sum_invariant(n.out, sum_rules(n))
       \cup unit_inconsistency(n.in, n.out)
       \cup numeric_content_lost(n.in, n.out)
       \cup number_not_derivable(n.in, n.out)
       \cup temporal_invariant(n.out, Today)
       \cup language_mismatch(expected_lang(n), n.out)

deterministic_signals(n) ==
  LET calls == parse_tool_calls(n.calls)
  IN artifact_integrity(n.files, MinArtifact)
     \cup content_signals(n)
     \cup sensitive_data(n.out) \cup injection_signature(n.out)
     \cup loop_fingerprint(calls) \cup retry_storm(calls) \cup duplicate_side_effect(calls)
     \cup tool_args(calls, tool_schemas(n))
     \cup run_failed(n.status, n.status = "failed")

\* How much of the work a payload claims is in the payload.
classify_artifact_visibility(out) ==
  IF out.extracted THEN IF out.media THEN "partial" ELSE "visible"
  ELSE IF out.documents THEN "opaque"
  ELSE IF ~ out.media THEN "visible"
  ELSE IF out.embeds /\ out.prose THEN "partial"
  ELSE "opaque"

\* The first contract registered for the agent whose version pattern fits.
select_contract(n) ==
  SelectInSeq(n.contracts,
    LAMBDA c : /\ c.agent = n.agent
               /\ c.version = "" \/ n.version = "" \/ c.version = n.version)

evaluate_schema(n) ==
  LET c == select_contract(n)
  IN IF c = 0 THEN None
     ELSE IF n.out.json /\ n.contracts[c].schema \in n.out.valid THEN 100 ELSE 0

ClampPercent(x) == IF x < 0 THEN 0 ELSE IF x > 100 THEN 100 ELSE x

\* Only ever subtracts, and says nothing when no check fired.
evaluate_heuristics(n) ==
  LET repeated == IF n.out.repetition > 50
                    THEN IF n.out.repetition < 80 THEN 2 * (n.out.repetition - 50) ELSE 60
                    ELSE 0
      penalty == repeated
                 + (IF n.status = "failed" THEN 30 + 50
                    ELSE IF n.status = "degraded" THEN 20 ELSE 0)
                 + (IF n.tokensOdd THEN 20 ELSE 0)
  IN IF penalty = 0 THEN None ELSE ClampPercent(100 - penalty)

-------------------------------------------------------------------------------
(* The blend                                                                 *)

FlagCap ==
  [missing_required_content |-> 55, ignored_instruction |-> 55,
   factual_error |-> 45, unverifiable_artifact |-> 60]

\* A flag that admits a shortcoming caps the number of the judge.
capped(judge, flags) ==
  IF judge = None THEN None
  ELSE Min({judge} \cup {FlagCap[f] : f \in flags \cap DOMAIN FlagCap})

Channels == {"schema", "judge", "heuristics"}

\* As a plausible slip would have it: any channel will do.
composite_any(component) ==
  LET present == {k \in Channels : component[k] # None}
      WeightOf(ks) == MapThenSumSet(LAMBDA k : Weight[k], ks)
  IN IF present = {} THEN None
     ELSE MapThenSumSet(LAMBDA k : Weight[k] * component[k], present) \div WeightOf(present)

composite_score(component) ==
  LET present == {k \in Channels : component[k] # None}
      WeightOf(ks) == MapThenSumSet(LAMBDA k : Weight[k], ks)
  IN IF \/ WeightOf(present) = 0
        \/ component.judge = None /\ WeightOf(present) < MinWeight
       THEN None
       ELSE ClampPercent(MapThenSumSet(LAMBDA k : Weight[k] * component[k], present)
                         \div WeightOf(present))

-------------------------------------------------------------------------------

NodeInit ==
  /\ node \in Measured
  /\ found = [signals |-> {}, violations |-> {}, visibility |-> "visible",
              schema |-> None, heuristics |-> None]
  /\ answer = NoAnswer
  /\ score = NoScore
  /\ step = "measure"

\* Nothing to measure; and if the run itself says that it spoke, a defect.
NoOutput ==
  /\ step = "measure" /\ node.out.text # "text"
  /\ LET signals == empty_output(node.out, node.tokens)
     IN score' = Unscored(IF signals # {} THEN "empty_output" ELSE "payload_missing", signals)
  /\ step' = "scored"
  /\ UNCHANGED <<node, found, answer>>

\* An output without records is an observed absence, unless something failed.
reports_nothing(n) ==
  /\ n.status # "failed"
  /\ \A i \in DOMAIN n.calls : n.calls[i].status # "error"
  /\ zero_result_set(n.out, n.in) # {}

NoRecords ==
  /\ step = "measure" /\ node.out.text = "text" /\ reports_nothing(node)
  /\ score' = Unscored("zero_result_set", zero_result_set(node.out, node.in))
  /\ step' = "scored"
  /\ UNCHANGED <<node, found, answer>>

\* Node kinds that made no model call are not judged.
no_judge == node.kind \in {"deterministic", "tool"}

Measure ==
  /\ step = "measure" /\ node.out.text = "text" /\ ~ reports_nothing(node)
  /\ found' = [signals |-> deterministic_signals(node),
               violations |-> contract_violations(node),
               visibility |-> classify_artifact_visibility(node.out),
               schema |-> evaluate_schema(node), heuristics |-> evaluate_heuristics(node)]
  /\ step' = IF no_judge THEN "blend" ELSE "judge"
  /\ UNCHANGED <<node, answer, score>>

\* The judge answers (a number may be missing from its answer) ...
JudgeAnswers ==
  /\ step = "judge"
  /\ \E v \in Verdicts :
       answer' = [score |-> v.score, flawed |-> v.flawed, flags |-> v.flags, cause |-> "none"]
  /\ step' = "blend"
  /\ UNCHANGED <<node, found, score>>

\* ... or not: the retries ran out, no judge is configured, the budget is spent.
JudgeUnavailable ==
  /\ step = "judge"
  /\ \E why \in {"failed", "disabled", "budget"} : answer' = [NoAnswer EXCEPT !.cause = why]
  /\ step' = "blend"
  /\ UNCHANGED <<node, found, score>>

\* What nobody could look at is a flag of the score.
visibility_flags ==
  CASE found.visibility = "opaque" -> {"unverifiable_artifact"}
    [] found.visibility = "partial" -> {"uninspected_media"}
    [] OTHER -> {}

unscored_reason(value) ==
  IF value # None THEN "none"
  ELSE IF no_judge THEN "judge_skipped_deterministic_node"
  ELSE IF answer.cause = "budget" THEN "judge_budget_exhausted"
  ELSE "insufficient_components"

Blend ==
  /\ step = "blend"
  /\ LET admitted == answer.flags \cup visibility_flags
         component == [schema |-> found.schema, heuristics |-> found.heuristics,
                       judge |-> capped(answer.score, admitted)]
         value == composite_score(component)
     IN score' = [score |-> value, reason |-> unscored_reason(value),
                  flawed |-> answer.flawed, violations |-> found.violations,
                  signals |-> found.signals,
                  flags |-> admitted \cup Names(found.signals),
                  schema |-> component.schema, judge |-> component.judge,
                  heuristics |-> component.heuristics]
  /\ step' = "scored"
  /\ UNCHANGED <<node, found, answer>>

NodeNext ==
  \/ NoOutput \/ NoRecords \/ Measure
  \/ JudgeAnswers \/ JudgeUnavailable
  \/ Blend
  \/ step = "scored" /\ UNCHANGED nodeVars

NodeSpec == NodeInit /\ [][NodeNext]_nodeVars /\ WF_nodeVars(NodeNext)
-------------------------------------------------------------------------------

Scored == step = "scored"

\* A node that passes on one of the values it was given for a key rewrote nothing:
\* where branches with two languages meet, no choice among them is a breach, and
\* neither is silence (_unambiguous_contract_params; only a parameter declared
\* out of band can make it one).
MergerInnocent ==
  /\ Scored
  /\ node.declared = {}
  /\ \A k \in Keys(node.out.params) \cap Keys(node.in.params) :
       Values(node.out.params, k) \subseteq Values(node.in.params, k)
  => score.violations = {}

\* One story per call: the same call is never told both as a storm of failing
\* retries and as an effect that happened twice (retry_storm_signals against
\* duplicate_side_effect_signals); the second is the hard fact, and it needs
\* every attempt to have succeeded.
OneStoryPerCall ==
  ~ \E s, t \in score.signals :
      s.name = "retry_storm" /\ t.name = "duplicate_side_effect" /\ s.about = t.about

\* A number rests on the judge, or on a contract and a complaint together: no
\* single cheap channel is a verdict, with the weights and the floor as shipped
\* (composite_score: 35 + 15 is exactly the floor of 50).
OneChannelNoVerdict ==
  Scored /\ score.score # None
    => score.judge # None \/ (score.schema # None /\ score.heuristics # None)

\* A run that the trace records as failed reaches the engine as failed
\* (run_failed_signals: "the signal only refuses to let the fact disappear").
CrashNotSilent ==
  Scored /\ node.status = "failed" => "run_failed" \in Names(score.signals)
================================================================================
