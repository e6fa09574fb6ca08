----------------------------- MODULE ScoringProofs -----------------------------
(***************************************************************************)
(* NodeScoring for any runs, payloads, rules, contracts and answers of the *)
(* judge.  The checks are functions of the run, so most of the argument is *)
(* about them: what names their signals have, which of them can be raised  *)
(* about one call together, what two sides of a contract can disagree on.  *)
(* The invariant carries their results, unchanged, across the await.       *)
(*                                                                         *)
(* Then JudgeCalls, which is what that await waits for, for every number   *)
(* of nodes, permits, attempts and prices: the semaphore is respected, and *)
(* the bill never exceeds the cap by more than one reply per permit.  The  *)
(* invariant counts the requests in flight as if each had already cost the *)
(* dearest reply (Committed); a request only sets out while the ledger is  *)
(* below the cap, with a permit in hand.                                   *)
(***************************************************************************)
EXTENDS NodeScoring, JudgeCalls, FiniteSetTheorems, TLAPS

(* What the steps hand on. *)
Measuring == step \in {"judge", "blend"} =>
  /\ found.signals = deterministic_signals(node)
  /\ found.violations = contract_violations(node)

(* Where the signals and the violations of a score may come from. *)
Sources ==
  /\ \/ score.signals = {}
     \/ score.signals = empty_output(node.out, node.tokens)
     \/ score.signals = zero_result_set(node.out, node.in)
     \/ score.signals = deterministic_signals(node)
  /\ score.violations \in {{}, contract_violations(node)}

(* A number is the composite of the channels the score shows. *)
Blended == score.score # None =>
  score.score = composite_score([schema |-> score.schema, heuristics |-> score.heuristics,
                                 judge |-> score.judge])

ScoringInv == node \in Measured /\ Measuring /\ Sources /\ Blended

LEMMA Start == NodeInit => ScoringInv
  BY DEF NodeInit, ScoringInv, Measuring, Sources, Blended, NoScore, Unscored, Names

LEMMA ScoringStep == ScoringInv /\ [NodeNext]_nodeVars => ScoringInv'
<1> SUFFICES ASSUME ScoringInv, [NodeNext]_nodeVars
             PROVE  ScoringInv'
  OBVIOUS
<1> USE DEF ScoringInv
<1>1. CASE NoOutput
  BY <1>1 DEF NoOutput, Measuring, Sources, Blended, Unscored
<1>2. CASE NoRecords
  BY <1>2 DEF NoRecords, Measuring, Sources, Blended, Unscored
<1>3. CASE Measure
  BY <1>3 DEF Measure, Measuring, Sources, Blended
<1>4. CASE JudgeAnswers
  BY <1>4 DEF JudgeAnswers, Measuring, Sources, Blended
<1>5. CASE JudgeUnavailable
  BY <1>5 DEF JudgeUnavailable, Measuring, Sources, Blended
<1>6. CASE Blend
  BY <1>6 DEF Blend, Measuring, Sources, Blended
<1>7. CASE UNCHANGED nodeVars
  BY <1>7 DEF nodeVars, Measuring, Sources, Blended
<1> QED
  BY <1>1, <1>2, <1>3, <1>4, <1>5, <1>6, <1>7 DEF NodeNext

(* Whatever the judge does, a score rests on the checks of its own run.         *)
THEOREM Invariance == NodeSpec => []ScoringInv
  BY Start, ScoringStep, PTL DEF NodeSpec

-------------------------------------------------------------------------------
(* The checks of the calls.                                                     *)

LEMMA OtherNames ==
  ASSUME NEW n, NEW s \in deterministic_signals(n)
  PROVE  \/ s.name \notin {"retry_storm", "duplicate_side_effect"}
         \/ s \in retry_storm(parse_tool_calls(n.calls))
         \/ s \in duplicate_side_effect(parse_tool_calls(n.calls))
<1> DEFINE calls == parse_tool_calls(n.calls)
           Other(x) == x.name \notin {"retry_storm", "duplicate_side_effect"}
<1>1. ASSUME NEW files, NEW m, NEW x \in artifact_integrity(files, m)
      PROVE  Other(x)
  <2>1. PICK i \in DOMAIN files :
          \E why : x = Signal("artifact_integrity_fail", "fail", <<"file", i, why>>)
    BY <1>1, Zenon DEF artifact_integrity, Raise
  <2> QED
    BY <2>1 DEF Signal
<1>2. ASSUME NEW x \in content_signals(n)
      PROVE  Other(x)
  <2>1. \A y \in required_section(n.out, section_rules(n)) :
          \E about : y = Signal("missing_required_section", "fail", about)
    BY Zenon DEF required_section
  <2>2. \A y \in sum_invariant(n.out, sum_rules(n)) :
          \E about : y = Signal("numeric_invariant_breach", "fail", about)
    BY Zenon DEF sum_invariant
  <2>3. \A y \in temporal_invariant(n.out, Today) :
          \E about : y = Signal("temporal_invariant_breach", "warn", about)
    BY Zenon DEF temporal_invariant
  <2>4. \A y \in unit_inconsistency(n.in, n.out) :
          \E about : y = Signal("unit_inconsistency", "warn", about)
    BY Zenon DEF unit_inconsistency, Raise
  <2>5. \A y \in numeric_content_lost(n.in, n.out) \cup number_not_derivable(n.in, n.out) :
          \E name \in {"numeric_content_lost", "number_not_derivable"} :
            y = Signal(name, "fail", <<"output">>)
    BY DEF numeric_content_lost, number_not_derivable, Raise
  <2>6. \A y \in language_mismatch(expected_lang(n), n.out) :
          \E about : y = Signal("language_mismatch", "fail", about)
    BY Zenon DEF language_mismatch, Raise
  <2>7. \A name, severity, about : Signal(name, severity, about).name = name
    BY DEF Signal
  <2> QED
    BY <1>2, <2>1, <2>2, <2>3, <2>4, <2>5, <2>6, <2>7 DEF content_signals
<1>3. ASSUME NEW x \in sensitive_data(n.out) \cup injection_signature(n.out)
                       \cup loop_fingerprint(calls) \cup run_failed(n.status, n.status = "failed")
      PROVE  Other(x)
  BY <1>3 DEF sensitive_data, injection_signature, loop_fingerprint, run_failed, Raise, Signal
<1>4. ASSUME NEW schemas, NEW x \in tool_args(calls, schemas)
      PROVE  Other(x)
  <2>1. PICK tool : x = Signal("tool_args_invalid", "fail", <<"tool", tool>>)
    BY <1>4, Zenon DEF tool_args
  <2> QED
    BY <2>1 DEF Signal
<1> QED
  BY <1>1, <1>2, <1>3, <1>4 DEF deterministic_signals

(* A storm of failing retries has an error among its calls, an effect that     *)
(* happened twice has none: one key cannot have both.                          *)
LEMMA OneStory ==
  ASSUME NEW calls, NEW s \in retry_storm(calls), NEW t \in duplicate_side_effect(calls)
  PROVE  s.about # t.about
<1>1. PICK a \in CallKeys(calls) :
        /\ s = Signal("retry_storm", "warn", <<"calls", a>>)
        /\ \E i \in Group(calls, a) : calls[i].status = "error"
  BY DEF retry_storm
<1>2. PICK b \in CallKeys(calls) :
        /\ t = Signal("duplicate_side_effect", "fail", <<"calls", b>>)
        /\ \A i \in Group(calls, b) : calls[i].status = "ok"
  BY DEF duplicate_side_effect
<1>3. a # b
  BY <1>1, <1>2
<1> QED
  BY <1>1, <1>2, <1>3 DEF Signal

LEMMA StormsAndDuplicates ==
  ASSUME NEW n, NEW s \in deterministic_signals(n), NEW t \in deterministic_signals(n),
         s.name = "retry_storm", t.name = "duplicate_side_effect"
  PROVE  s.about # t.about
<1> DEFINE calls == parse_tool_calls(n.calls)
<1>1. /\ \A x \in retry_storm(calls) : x.name = "retry_storm"
      /\ \A x \in duplicate_side_effect(calls) : x.name = "duplicate_side_effect"
  BY DEF retry_storm, duplicate_side_effect, Signal
<1>2. s \in retry_storm(calls) /\ t \in duplicate_side_effect(calls)
  BY <1>1, OtherNames
<1> QED
  BY <1>2, OneStory

(* The same call is never both a storm of failing retries and an effect that   *)
(* happened twice (behavioral.py), in any score of any run.                    *)
THEOREM OneStoryOnly == NodeSpec => []OneStoryPerCall
<1>1. ScoringInv => OneStoryPerCall
  <2> SUFFICES ASSUME ScoringInv, NEW s \in score.signals, NEW t \in score.signals,
                      s.name = "retry_storm", t.name = "duplicate_side_effect"
               PROVE  s.about # t.about
    BY DEF OneStoryPerCall
  <2>1. \A x \in empty_output(node.out, node.tokens) : x.name = "empty_output"
    BY DEF empty_output, Raise, Originating, Signal
  <2>2. \A x \in zero_result_set(node.out, node.in) : x.name = "zero_result_set"
    BY DEF zero_result_set, Raise, Signal
  <2>3. score.signals = deterministic_signals(node)
    BY <2>1, <2>2 DEF ScoringInv, Sources
  <2> QED
    BY <2>3, StormsAndDuplicates
<1> QED
  BY Invariance, <1>1, PTL

-------------------------------------------------------------------------------
(* The contract.                                                                *)

(* A payload carries finitely many parameters. *)
FiniteParams == \A n \in Measured : IsFiniteSet(n.in.params)

(* What a contract demands came in with one value.                              *)
LEMMA OneValue ==
  ASSUME NEW params, IsFiniteSet(params), NEW keys,
         NEW p \in unambiguous_contract_params(params, keys)
  PROVE  p \in params /\ Values(params, p[1]) = {p[2]}
<1>1. p \in params /\ Cardinality(Values(params, p[1])) = 1
  BY DEF unambiguous_contract_params
<1>2. p[2] \in Values(params, p[1])
  BY <1>1 DEF Values
<1>3. IsFiniteSet(Values(params, p[1]))
  <2>1. IsFiniteSet({q \in params : q[1] = p[1]})
    BY FS_Subset
  <2> DEFINE value == [q \in {r \in params : r[1] = p[1]} |-> q[2]]
  <2>2. value \in Surjection({q \in params : q[1] = p[1]}, Values(params, p[1]))
    BY DEF Values, Surjection
  <2> QED
    BY <2>1, <2>2, FS_Surjection
<1> QED
  BY <1>1, <1>2, <1>3, FS_Singleton

(* No violation without declared parameters, where every key keeps one of its   *)
(* values.                                                                      *)
LEMMA NothingRewritten ==
  ASSUME NEW n \in Measured, FiniteParams, n.declared = {},
         \A k \in Keys(n.out.params) \cap Keys(n.in.params) :
           Values(n.out.params, k) \subseteq Values(n.in.params, k)
  PROVE  contract_violations(n) = {}
<1> DEFINE given == CarriedParams(n.in, ContractKeys)
           kept == CarriedParams(n.out, ContractKeys)
<1>1. Keys(n.declared) = {}
  BY DEF Keys
<1>2. ASSUME NEW g \in given, NEW k \in kept, g[1] = k[1]
      PROVE  g[2] = k[2]
  <2>1. given = unambiguous_contract_params(n.in.params, ContractKeys) \/ given = {}
    BY DEF CarriedParams, unambiguous_contract_params
  <2>2. g \in n.in.params /\ Values(n.in.params, g[1]) = {g[2]}
    BY <1>2, <2>1, OneValue DEF FiniteParams
  <2>3. k \in n.out.params
    BY <1>2 DEF CarriedParams, unambiguous_contract_params
  <2>4. /\ g[1] \in Keys(n.out.params) \cap Keys(n.in.params)
        /\ k[2] \in Values(n.out.params, g[1])
    BY <1>2, <2>2, <2>3 DEF Keys, Values
  <2> QED
    BY <2>2, <2>4
<1>3. contract_violations(n) =
        {<<x[1][1], x[1][2], x[2][2]>> :
           x \in {y \in given \X kept : y[1][1] = y[2][1] /\ y[1][2] # y[2][2]}}
  BY <1>1 DEF contract_violations
<1> QED
  BY <1>2, <1>3

(* A run that passes on one of the values it was given for a key, and only such *)
(* values, has broken no contract, whatever branches met in its input           *)
(* (_unambiguous_contract_params).                                              *)
THEOREM NoInventedBreach ==
  ASSUME FiniteParams
  PROVE  NodeSpec => []MergerInnocent
<1>1. ScoringInv => MergerInnocent
  BY NothingRewritten DEF MergerInnocent, ScoringInv, Sources
<1> QED
  BY Invariance, <1>1, PTL

-------------------------------------------------------------------------------
(* The blend.                                                                   *)

(* A sum over nothing is 0, a sum over one channel is its weight.               *)
LEMMA WeightOfNone == MapThenSumSet(LAMBDA x : Weight[x], {}) = 0
  BY DEF MapThenSumSet, MapThenFoldSet

LEMMA WeightOfOne ==
  ASSUME NEW k, Weight[k] \in Nat
  PROVE  MapThenSumSet(LAMBDA x : Weight[x], {k}) = Weight[k]
<1> DEFINE Body(f) == [s \in SUBSET {k} |->
                         IF s = {} THEN 0
                         ELSE Weight[CHOOSE x \in s : TRUE] + f[s \ {CHOOSE x \in s : TRUE}]]
           sum == [s \in SUBSET {k} |-> IF s = {} THEN 0 ELSE Weight[k]]
           iter == CHOOSE f : f = Body(f)
<1>1. (CHOOSE x \in {k} : TRUE) = k /\ {k} \ {k} = {}
  OBVIOUS
<1>2. sum = Body(sum)
  <2>1. ASSUME NEW s \in SUBSET {k}
        PROVE  sum[s] = Body(sum)[s]
    <3>1. CASE s = {}
      BY <3>1
    <3>2. CASE s = {k}
      BY <3>2, <1>1
    <3> QED
      BY <2>1, <3>1, <3>2
  <2> QED
    BY <2>1
<1>3. iter = Body(iter)
  <2> HIDE DEF Body, sum
  <2> QED
    BY <1>2
<1>4. Body(iter)[{}] = 0 /\ Body(iter)[{k}] = Weight[k] + iter[{}]
  BY <1>1
<1>5. iter[{k}] = Weight[k]
  <2> HIDE DEF Body, iter
  <2> QED
    BY <1>3, <1>4
<1>6. MapThenSumSet(LAMBDA x : Weight[x], {k}) = iter[{k}]
  BY DEF MapThenSumSet, MapThenFoldSet
<1> QED
  BY <1>5, <1>6

(* Neither cheap channel weighs as much as the floor: 35 and 15 under 50 as     *)
(* shipped (SCORE_W_SCHEMA, SCORE_W_HEURISTICS, SCORE_MIN_WEIGHT).              *)
CheapAlone ==
  /\ Weight["schema"] \in Nat /\ Weight["heuristics"] \in Nat /\ MinWeight \in Nat
  /\ Weight["schema"] < MinWeight /\ Weight["heuristics"] < MinWeight

LEMMA FloorHolds ==
  ASSUME CheapAlone, NEW component, component.judge = None,
         composite_score(component) # None
  PROVE  component.schema # None /\ component.heuristics # None
<1> DEFINE present == {k \in Channels : component[k] # None}
           weight == MapThenSumSet(LAMBDA k : Weight[k], present)
<1>1. weight # 0 /\ ~ weight < MinWeight
  BY DEF composite_score
<1>2. CASE present = {}
  BY <1>1, <1>2, WeightOfNone
<1>3. CASE present = {"schema"}
  BY <1>1, <1>3, WeightOfOne DEF CheapAlone
<1>4. CASE present = {"heuristics"}
  BY <1>1, <1>4, WeightOfOne DEF CheapAlone
<1>5. present \in {{}, {"schema"}, {"heuristics"}, {"schema", "heuristics"}}
  BY DEF Channels
<1>6. CASE present = {"schema", "heuristics"}
  BY <1>6
<1> QED
  BY <1>2, <1>3, <1>4, <1>5, <1>6

(* No single cheap channel is a verdict: a number without the judge rests on a  *)
(* contract and a complaint together (composite_score).                         *)
THEOREM TwoChannels ==
  ASSUME CheapAlone
  PROVE  NodeSpec => []OneChannelNoVerdict
<1>1. ScoringInv => OneChannelNoVerdict
  <2> SUFFICES ASSUME ScoringInv, score.score # None, score.judge = None
               PROVE  score.schema # None /\ score.heuristics # None
    BY DEF OneChannelNoVerdict
  <2> DEFINE component == [schema |-> score.schema, heuristics |-> score.heuristics,
                           judge |-> score.judge]
  <2>1. composite_score(component) # None /\ component.judge = None
    BY DEF ScoringInv, Blended
  <2> QED
    BY <2>1, FloorHolds
<1> QED
  BY Invariance, <1>1, PTL

--------------------------------------------------------------------------------
(* The judge's client: the cap and the semaphore.                              *)

(* JudgeSpend.cost_usd is None exactly while no call was priced. *)
NoneIsFree == priced = 0 => cost = 0

(* The inductive invariant. *)
JudgeInv ==
  /\ JudgeTypeOK
  /\ TriesLeft
  /\ PermitsHeld
  /\ Committed
  /\ NoneIsFree
  /\ BudgetReasonTrue

(* Holding and flying are finite, and who flies holds a permit. *)
LEMMA FlyingHold ==
  /\ IsFiniteSet(Holders) /\ IsFiniteSet(Flying)
  /\ Cardinality(Holders) \in Nat /\ Cardinality(Flying) \in Nat
  /\ Cardinality(Flying) <= Cardinality(Holders)
  <1>1. Holders \subseteq Callers /\ Flying \subseteq Holders
    BY DEF Holders, Flying
  <1>2. IsFiniteSet(Holders)
    BY <1>1, CallersFinite, FS_Subset
  <1>3. QED
    BY <1>1, <1>2, FS_Subset, FS_CardinalityType

(* What n requests in flight may cost. *)
LEMMA Products ==
  ASSUME NEW n \in Nat, NEW m \in Nat, NEW k \in Nat, n <= m
  PROVE  /\ n * k \in Nat /\ m * k \in Nat
         /\ n * k <= m * k
         /\ (n + 1) * k = n * k + k
  OBVIOUS

(* The bill of one reply: never less than nothing, never more than the      *)
(* dearest reply.                                                          *)
LEMMA RecordBill ==
  ASSUME cost \in Nat, priced \in Nat, unpriced \in Nat,
         NEW price \in Prices \cup {Unpriced}, record(price)
  PROVE  /\ cost' \in Nat /\ priced' \in Nat /\ unpriced' \in Nat
         /\ cost <= cost' /\ cost' <= cost + MaxPrice
         /\ priced <= priced'
  BY PricesMoney DEF record, Unpriced

(* A call that comes down leaves one fewer in the air, and no more permits  *)
(* are held than before (Lost and Reply).                                  *)
LEMMA Landing ==
  ASSUME JudgeTypeOK, NEW c \in Callers, call[c] = "flying",
         NEW s \in {"backoff", "answered", "failed"},
         call' = [call EXCEPT ![c] = s]
  PROVE  /\ Cardinality(Flying) = Cardinality(Flying') + 1
         /\ Cardinality(Flying') \in Nat
         /\ Cardinality(Holders') <= Cardinality(Holders)
         /\ Cardinality(Holders') \in Nat
  <1>1. c \in Flying /\ Flying' = Flying \ {c}
    BY DEF Flying, JudgeTypeOK
  <1>2. Holders' \in SUBSET Holders
    BY DEF Holders, JudgeTypeOK
  <1>3. Cardinality(Flying') = Cardinality(Flying) - 1 /\ IsFiniteSet(Flying')
    BY <1>1, FlyingHold, FS_RemoveElement
  <1>4. IsFiniteSet(Holders') /\ Cardinality(Holders') <= Cardinality(Holders)
    BY <1>2, FlyingHold, FS_Subset
  <1>5. QED
    BY <1>3, <1>4, FlyingHold, FS_CardinalityType

(* A request that is sent puts one more call in the air, and it has a       *)
(* permit (Ask below the cap).                                             *)
LEMMA TakeOff ==
  ASSUME JudgeTypeOK, PermitsHeld, NEW c \in Callers, call[c] \in Waiting,
         HasPermit(c), call' = [call EXCEPT ![c] = "flying"]
  PROVE  /\ Cardinality(Flying') = Cardinality(Flying) + 1
         /\ Cardinality(Flying') <= Permits
         /\ Cardinality(Flying') \in Nat
         /\ Cardinality(Holders') <= Permits
  <1>1. c \notin Flying /\ Flying' = Flying \cup {c}
    BY DEF Flying, JudgeTypeOK, Waiting
  <1>2. Cardinality(Flying') = Cardinality(Flying) + 1 /\ IsFiniteSet(Flying')
    BY <1>1, FlyingHold, FS_AddElement
  <1>3. Holders' = Holders \cup {c}
    BY DEF Holders, JudgeTypeOK, Waiting
  <1>4. IsFiniteSet(Holders')
        /\ Cardinality(Holders') = IF c \in Holders THEN Cardinality(Holders)
                                   ELSE Cardinality(Holders) + 1
    BY <1>3, FlyingHold, FS_AddElement
  <1>5. call[c] = "backoff" => c \in Holders
    BY DEF Holders
  <1>6. Cardinality(Holders') <= Permits
    BY <1>4, <1>5, FlyingHold, PermitsPositive DEF HasPermit, PermitsHeld
  <1>7. Flying' \in SUBSET Holders'
    BY DEF Flying, Holders
  <1>8. Cardinality(Flying') <= Cardinality(Holders')
    BY <1>4, <1>7, FS_Subset
  <1>9. QED
    BY <1>2, <1>4, <1>6, <1>8, FlyingHold, FS_CardinalityType, PermitsPositive

(* A request sets out only below the cap, so the ledger is at most Floor.   *)
LEMMA BelowCap ==
  ASSUME JudgeTypeOK, NoneIsFree, ~ spend_cap_reached, Cap # NoCap
  PROVE  cost <= Floor
  BY CapMoney DEF JudgeTypeOK, NoneIsFree, spend_cap_reached, Floor, NoCap

(* Initially nothing was asked and nothing was spent. *)
LEMMA InvInit == JudgeInit => JudgeInv
  <1> SUFFICES ASSUME JudgeInit PROVE JudgeInv
    OBVIOUS
  <1>1. Holders = {} /\ Flying = {}
    BY DEF JudgeInit, Holders, Flying
  <1>2. Cardinality(Holders) = 0 /\ Cardinality(Flying) = 0
    BY <1>1, FS_EmptySet
  <1>3. Committed
    <2>1. 0 * MaxPrice = 0 /\ 0 * MaxPrice <= Permits * MaxPrice
      BY PermitsPositive, PricesMoney, Products
    <2>2. Floor \in Nat
      BY CapMoney DEF Floor, NoCap
    <2>3. Permits * MaxPrice \in Nat
      BY PermitsPositive, PricesMoney, Products
    <2>4. cost = 0
      BY DEF JudgeInit
    <2>5. QED
      BY <1>2, <2>1, <2>2, <2>3, <2>4 DEF Committed
  <1>4. PermitsHeld
    BY <1>2, PermitsPositive DEF PermitsHeld
  <1>5. QED
    BY <1>3, <1>4, AttemptsPositive
       DEF JudgeInit, JudgeInv, JudgeTypeOK, TriesLeft, NoneIsFree, BudgetReasonTrue,
           Waiting, Ended

(* Refused at the cap, or sent: the ledger is not touched. *)
LEMMA AskKeeps ==
  ASSUME JudgeInv, NEW c \in Callers, Ask(c)
  PROVE  JudgeInv'
  <1> USE DEF JudgeInv
  <1>1. CASE spend_cap_reached
    <2>1. /\ call' = [call EXCEPT ![c] = "refused"]
          /\ UNCHANGED <<tries, cost, priced, unpriced>>
          /\ call[c] \in Waiting
      BY <1>1 DEF Ask
    <2>2. Flying' = Flying
      BY <2>1 DEF Flying, JudgeTypeOK, Waiting
    <2>3. Holders' \in SUBSET Holders
      BY <2>1 DEF Holders, JudgeTypeOK
    <2>4. Cardinality(Holders') <= Cardinality(Holders) /\ Cardinality(Holders') \in Nat
      BY <2>3, FlyingHold, FS_Subset, FS_CardinalityType
    <2>5. PermitsHeld'
      BY <2>4, FlyingHold, PermitsPositive DEF PermitsHeld
    <2>6. Committed'
      BY <2>1, <2>2 DEF Committed, Floor
    <2>7. JudgeTypeOK' /\ TriesLeft' /\ NoneIsFree'
      BY <2>1 DEF JudgeTypeOK, TriesLeft, NoneIsFree, Ended, Waiting
    <2>8. BudgetReasonTrue'
      BY <1>1, <2>1 DEF BudgetReasonTrue, spend_cap_reached
    <2>9. QED
      BY <2>5, <2>6, <2>7, <2>8
  <1>2. CASE ~ spend_cap_reached
    <2>1. /\ call' = [call EXCEPT ![c] = "flying"]
          /\ tries' = [tries EXCEPT ![c] = @ + 1]
          /\ UNCHANGED <<cost, priced, unpriced>>
          /\ call[c] \in Waiting /\ HasPermit(c)
      BY <1>2 DEF Ask
    <2>2. /\ Cardinality(Flying') = Cardinality(Flying) + 1
          /\ Cardinality(Flying') <= Permits /\ Cardinality(Flying') \in Nat
          /\ Cardinality(Holders') <= Permits
      BY <2>1, TakeOff
    <2>3. Committed'
      <3> SUFFICES ASSUME Cap # NoCap
                   PROVE  cost' + Cardinality(Flying') * MaxPrice <= Floor + Permits * MaxPrice
        BY DEF Committed, Floor
      <3>1. cost' <= Floor /\ cost' \in Nat /\ Floor \in Nat
        BY <1>2, <2>1, BelowCap, CapMoney DEF JudgeTypeOK, Floor, NoCap
      <3>2. /\ Cardinality(Flying') * MaxPrice <= Permits * MaxPrice
            /\ Cardinality(Flying') * MaxPrice \in Nat /\ Permits * MaxPrice \in Nat
        BY <2>2, PermitsPositive, PricesMoney, Products
      <3>3. QED
        BY <3>1, <3>2
    <2>4. tries[c] < Attempts /\ tries[c] \in 0 .. Attempts
      BY <2>1, AttemptsPositive DEF TriesLeft, JudgeTypeOK, Waiting
    <2>5. JudgeTypeOK' /\ TriesLeft' /\ NoneIsFree' /\ PermitsHeld'
      BY <2>1, <2>2, <2>4, AttemptsPositive
         DEF JudgeTypeOK, TriesLeft, NoneIsFree, PermitsHeld, Ended, Waiting
    <2>6. BudgetReasonTrue'
      BY <2>1 DEF BudgetReasonTrue, JudgeTypeOK
    <2>7. QED
      BY <2>3, <2>5, <2>6
  <1>3. QED
    BY <1>1, <1>2

(* A call that lands, billed for at most the dearest reply or not at all.   *)
LEMMA LandingKeeps ==
  ASSUME JudgeInv, NEW c \in Callers, call[c] = "flying",
         NEW s \in {"backoff", "answered", "failed"},
         call' = [call EXCEPT ![c] = s],
         s = "backoff" => tries[c] < Attempts,
         UNCHANGED tries,
         cost' \in Nat, priced' \in Nat, unpriced' \in Nat,
         cost <= cost', cost' <= cost + MaxPrice, priced <= priced', NoneIsFree'
  PROVE  JudgeInv'
  <1> USE DEF JudgeInv
  <1>1. /\ Cardinality(Flying) = Cardinality(Flying') + 1
        /\ Cardinality(Flying') \in Nat
        /\ Cardinality(Holders') <= Cardinality(Holders)
        /\ Cardinality(Holders') \in Nat
    BY Landing
  <1>2. Committed'
    <2> SUFFICES ASSUME Cap # NoCap
                 PROVE  cost' + Cardinality(Flying') * MaxPrice <= Floor + Permits * MaxPrice
      BY DEF Committed, Floor
    <2>1. cost + Cardinality(Flying) * MaxPrice <= Floor + Permits * MaxPrice
      BY DEF Committed
    <2>2. Cardinality(Flying) * MaxPrice = Cardinality(Flying') * MaxPrice + MaxPrice
      BY <1>1, PricesMoney, Products
    <2>3. /\ Cardinality(Flying') * MaxPrice \in Nat /\ Permits * MaxPrice \in Nat
          /\ Floor \in Nat /\ cost \in Nat /\ MaxPrice \in Nat
      BY <1>1, PermitsPositive, PricesMoney, Products, CapMoney
         DEF Floor, NoCap, JudgeTypeOK
    <2>4. QED
      BY <2>1, <2>2, <2>3
  <1>3. PermitsHeld'
    BY <1>1, FlyingHold, PermitsPositive DEF PermitsHeld
  <1>4. JudgeTypeOK' /\ TriesLeft'
    BY DEF JudgeTypeOK, TriesLeft, Ended, Waiting
  <1>5. BudgetReasonTrue'
    BY CapMoney DEF BudgetReasonTrue, JudgeTypeOK, NoCap
  <1>6. QED
    BY <1>2, <1>3, <1>4, <1>5

(* Every step of the specification keeps the invariant. *)
LEMMA InvStep == JudgeInv /\ [JudgeNext]_judgeVars => JudgeInv'
  <1> SUFFICES ASSUME JudgeInv, [JudgeNext]_judgeVars PROVE JudgeInv'
    OBVIOUS
  <1>1. ASSUME NEW c \in Callers, Ask(c) PROVE JudgeInv'
    BY <1>1, AskKeeps
  <1>2. ASSUME NEW c \in Callers, Lost(c) PROVE JudgeInv'
    <2>1. PICK s \in {"backoff", "failed"} :
            /\ call' = [call EXCEPT ![c] = s]
            /\ s = "backoff" => tries[c] < Attempts
      BY <1>2 DEF Lost, GiveUpOrRetry
    <2>2. call[c] = "flying" /\ UNCHANGED <<tries, cost, priced, unpriced>>
      BY <1>2 DEF Lost
    <2>3. /\ cost' \in Nat /\ priced' \in Nat /\ unpriced' \in Nat
          /\ cost <= cost' /\ cost' <= cost + MaxPrice /\ priced <= priced' /\ NoneIsFree'
      BY <2>2, PricesMoney DEF JudgeInv, JudgeTypeOK, NoneIsFree
    <2>4. s \in {"backoff", "answered", "failed"}
      OBVIOUS
    <2>5. QED
      BY <2>1, <2>2, <2>3, <2>4, LandingKeeps
  <1>3. ASSUME NEW c \in Callers, Reply(c) PROVE JudgeInv'
    <2>1. PICK price \in Prices \cup {Unpriced} : record(price)
      BY <1>3 DEF Reply
    <2>2. /\ cost' \in Nat /\ priced' \in Nat /\ unpriced' \in Nat
          /\ cost <= cost' /\ cost' <= cost + MaxPrice /\ priced <= priced'
      BY <2>1, RecordBill DEF JudgeInv, JudgeTypeOK
    <2>3. NoneIsFree'
      BY <2>1 DEF record, JudgeInv, JudgeTypeOK, NoneIsFree
    <2>4. PICK s \in {"backoff", "answered", "failed"} :
            /\ call' = [call EXCEPT ![c] = s]
            /\ s = "backoff" => tries[c] < Attempts
      BY <1>3 DEF Reply, GiveUpOrRetry
    <2>5. call[c] = "flying" /\ UNCHANGED tries
      BY <1>3 DEF Reply
    <2>6. QED
      BY <2>2, <2>3, <2>4, <2>5, LandingKeeps
  <1>4. CASE UNCHANGED judgeVars
    BY <1>4 DEF judgeVars, JudgeInv, JudgeTypeOK, TriesLeft, PermitsHeld, Committed,
         NoneIsFree, BudgetReasonTrue, Holders, Flying, Floor
  <1>5. QED
    BY <1>1, <1>2, <1>3, <1>4 DEF JudgeNext, Caller

(* The invariant holds of every behaviour. *)
THEOREM JudgeInvariance == JudgeSpec => []JudgeInv
  BY InvInit, InvStep, PTL DEF JudgeSpec

(* The bill of an analysis stays within the cap and one reply per permit,   *)
(* whatever replies, prices, losses and retries: _spend_cap_reached before  *)
(* the await and _record_spend after it are enough for that, and no more.   *)
THEOREM BillBounded == JudgeSpec => []SpendBounded
  <1>1. JudgeInv => SpendBounded
    <2> SUFFICES ASSUME JudgeInv, Cap # NoCap
                 PROVE  cost <= Floor + Permits * MaxPrice
      BY DEF SpendBounded
    <2>1. cost + Cardinality(Flying) * MaxPrice <= Floor + Permits * MaxPrice
      BY DEF JudgeInv, Committed
    <2>2. /\ Cardinality(Flying) * MaxPrice \in Nat /\ Permits * MaxPrice \in Nat
          /\ Floor \in Nat /\ cost \in Nat
      BY FlyingHold, PermitsPositive, PricesMoney, Products, CapMoney
         DEF Floor, NoCap, JudgeInv, JudgeTypeOK
    <2>3. QED
      BY <2>1, <2>2
  <1>2. QED
    BY JudgeInvariance, <1>1, PTL

(* A node left unjudged "for the budget" is one of an analysis that has     *)
(* spent its budget (judge_budget_exhausted against judge_unreachable).     *)
THEOREM BudgetReason == JudgeSpec => []BudgetReasonTrue
  <1>1. JudgeInv => BudgetReasonTrue
    BY DEF JudgeInv
  <1>2. QED
    BY JudgeInvariance, <1>1, PTL
================================================================================
