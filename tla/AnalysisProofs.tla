---------------------------- MODULE AnalysisProofs ----------------------------
(***************************************************************************)
(* BlameEngine, pass by pass, and Analysis, which runs it between its      *)
(* awaits, for any traces, settings and failures of awaits.  What a report *)
(* says of the deliverable leans on the terminal verdict alone             *)
(* (EngineInv), however the candidates came about; whom it names leans on  *)
(* the candidates (PlaceInv), of which RunGraphProofs says what they are.  *)
(***************************************************************************)
EXTENDS Analysis, RunGraphProofs, TLAPS

(* The rows of the cascade that only a bad deliverable can reach, and the      *)
(* types of report that say it is bad.                                         *)
BadRows == {"unlocalized", "fabrication", "composition"}
BadTypes == {"composition_failure", "terminal_defect_unlocalized"}

(* A defect is tied to a run or to the input, or the deliverable is bad.       *)
Anchored(d) ==
  \/ d.origin \in {"Localized", "External"}
  \/ d.origin = "Unlocalized" /\ terminal_bad
  \/ d.origin = "Design" /\ d.kind = "form"

(* Between the passes of find_blame.                                           *)
EngineInv ==
  /\ DOMAIN verdict = DOMAIN NoVerdict
  /\ pc \in BadRows \/ verdict.row \in BadRows => terminal_bad
  /\ \A d \in verdict.defects : Anchored(d)
  /\ verdict.type \in BadTypes => terminal_bad
  /\ terminal_ok \/ inp.terminal.verdict = "stale" => verdict.manifestation = {}

--------------------------------------------------------------------------------
(* The emitters of assemble.py.                                                *)

LEMMA ContractAnchored ==
  ASSUME NEW run, NEW attribution, NEW marker
  PROVE  Anchored(contract_defect(run, attribution, marker))
BY DEF Anchored, contract_defect, Defect

LEMMA ContentAnchored ==
  ASSUME NEW drops, NEW run, NEW recovered, NEW attribution
  PROVE  Anchored(content_defect(drops, run, recovered, attribution))
BY DEF Anchored, content_defect, Defect

LEMMA MultiAnchored ==
  ASSUME NEW drops, NEW culprits, NEW d \in emit_multi(drops, culprits)
  PROVE  Anchored(d)
<1>1. \/ \E c : d = contract_defect(c, Unknown, ~terminal_bad)
      \/ \E c : d = content_defect(drops, c, FALSE, Unknown)
  BY DEF emit_multi
<1> QED
  BY <1>1, ContractAnchored, ContentAnchored

LEMMA CutPointAnchored ==
  ASSUME NEW drops, NEW run, NEW a, NEW b, NEW d \in emit_cut_point(drops, run, a, b)
  PROVE  Anchored(d)
<1>1. \/ d = contract_defect(run, a, ~EmitsContent(run))
      \/ d = content_defect(drops, run, FALSE, b)
  BY DEF emit_cut_point
<1> QED
  BY <1>1, ContractAnchored, ContentAnchored

LEMMA RecoveredAnchored ==
  ASSUME NEW drops, NEW run, NEW a, NEW b, NEW d \in emit_degraded_recovered(drops, run, a, b)
  PROVE  Anchored(d)
<1>1. \/ d = contract_defect(run, a, TRUE)
      \/ d = content_defect(drops, run, TRUE, b)
  BY DEF emit_degraded_recovered
<1> QED
  BY <1>1, ContractAnchored, ContentAnchored

LEMMA ExternalAnchored ==
  ASSUME NEW drops, NEW run, NEW d \in emit_external(drops, run)
  PROVE  Anchored(d)
BY DEF emit_external, Anchored, Defect

LEMMA LoopAnchored ==
  ASSUME NEW run, NEW d \in emit_loop(run)
  PROVE  Anchored(d)
BY DEF emit_loop, Anchored, Defect

LEMMA VerificationAnchored ==
  ASSUME NEW runs, NEW d \in emit_verification(runs)
  PROVE  Anchored(d)
BY DEF emit_verification, Anchored, Defect

LEMMA FormAnchored ==
  ASSUME NEW d \in emit_form
  PROVE  Anchored(d)
BY DEF emit_form, Anchored, Defect

LEMMA CompositionAnchored ==
  ASSUME terminal_bad, NEW d \in emit_composition
  PROVE  Anchored(d)
BY DEF emit_composition, Anchored, Defect

LEMMA UnlocalizedAnchored ==
  ASSUME terminal_bad, NEW run, NEW d \in emit_terminal_unlocalized(run)
  PROVE  Anchored(d)
<1>1. \/ d = contract_defect(run, DETERMINISTIC_ATTRIBUTION, TRUE)
      \/ d \in emit_composition
  BY DEF emit_terminal_unlocalized
<1> QED
  BY <1>1, ContractAnchored, CompositionAnchored

(* derive_report_type says that the deliverable is bad only of defects without *)
(* an anchor.                                                                  *)
LEMMA TypeNeedsBad ==
  ASSUME NEW defects, \A d \in defects : Anchored(d),
         derive_report_type(defects) \in BadTypes
  PROVE  terminal_bad
<1> DEFINE content == {d \in defects : d.kind = "content"}
           active == {d \in content : ~d.recovered}
           local == {d \in active : d.origin = "Localized"}
<1>1. /\ ~ \E d \in defects : d.origin = "External"
      /\ local = {}
      /\ active # {}
  BY DEF derive_report_type, BadTypes
<1>2. PICK d \in active : TRUE
  BY <1>1
<1>3. d.origin \notin {"Localized", "External"} /\ d.kind = "content"
  BY <1>1, <1>2
<1> QED
  BY <1>2, <1>3 DEF Anchored

--------------------------------------------------------------------------------
(* find_blame, pass by pass.                                                   *)

LEMMA NothingYet ==
  ASSUME verdict = NoVerdict, pc \notin BadRows
  PROVE  EngineInv
BY DEF EngineInv, NoVerdict, BadRows, BadTypes

LEMMA FirstRowNeedsBad == first_row \in BadRows => terminal_bad
BY DEF first_row, BadRows, HardFaultBesideBadContent

(* What a row hands to the passes after it.                                    *)
RowInv(v, name) ==
  /\ DOMAIN v = DOMAIN NoVerdict
  /\ name \in BadRows => terminal_bad
  /\ \A d \in v.defects : Anchored(d)
  /\ v.type = "none" /\ v.manifestation = {}

LEMMA RowKeeps ==
  ASSUME NEW name, NEW v, Decide(name, v), RowInv(v, name)
  PROVE  EngineInv'
<1> DEFINE w == [v EXCEPT !.row = name]
<1>1. /\ DOMAIN w = DOMAIN NoVerdict
      /\ w.row = name /\ w.defects = v.defects
      /\ w.type = v.type /\ w.manifestation = v.manifestation
  BY DEF RowInv, NoVerdict
<1>2. verdict' = w /\ pc' = "gaps" /\ inp' = inp
  BY DEF Decide
<1> HIDE DEF w
<1>3. terminal_bad' = terminal_bad /\ \A d : Anchored(d)' <=> Anchored(d)
  BY <1>2 DEF terminal_bad, Anchored
<1> QED
  BY <1>1, <1>2, <1>3 DEF EngineInv, RowInv, BadRows, BadTypes

(* The rows start from NoVerdict and fill in what they found.                  *)
LEMMA MeasuredShape ==
  ASSUME NEW run, NEW c
  PROVE  /\ DOMAIN Measured(run, c) = DOMAIN NoVerdict
         /\ Measured(run, c).type = "none"
         /\ Measured(run, c).manifestation = {}
BY DEF Measured, NoVerdict

LEMMA RowStep ==
  ASSUME EngineInv,
         \/ NothingMeasured \/ External \/ Loop
         \/ NearMissRow \/ UnlocalizedRow \/ CutPointRow
         \/ Multi \/ Fabrication \/ Composition \/ Unclassified
  PROVE  EngineInv'
<1>1. CASE NothingMeasured
  <2>1. RowInv(NoVerdict, "nothing_measured")
    BY DEF RowInv, NoVerdict, BadRows
  <2> QED
    BY <1>1, <2>1, RowKeeps DEF NothingMeasured
<1>2. CASE Unclassified
  <2>1. RowInv(NoVerdict, "unclassified")
    BY DEF RowInv, NoVerdict, BadRows
  <2> QED
    BY <1>2, <2>1, RowKeeps DEF Unclassified
<1>3. CASE External
  <2>1. PICK run, confidence :
          Decide("external", [NoVerdict EXCEPT !.culprits = <<run>>,
                                !.defects = emit_external({}, run),
                                !.confidence = confidence])
    BY <1>3 DEF External
  <2>2. RowInv([NoVerdict EXCEPT !.culprits = <<run>>, !.defects = emit_external({}, run),
                                 !.confidence = confidence], "external")
    BY ExternalAnchored DEF RowInv, NoVerdict, BadRows
  <2> QED
    BY <2>1, <2>2, RowKeeps
<1>4. CASE Loop
  <2>1. /\ DOMAIN looped = DOMAIN NoVerdict
        /\ looped.type = "none" /\ looped.manifestation = {}
    BY DEF looped, NoVerdict
  <2>2. \E run, drops, culprits :
          looped.defects = emit_loop(run) \cup emit_multi(drops, culprits)
    BY DEF looped, NoVerdict
  <2>3. RowInv(looped, "loop")
    BY <2>1, <2>2, LoopAnchored, MultiAnchored DEF RowInv, BadRows
  <2> QED
    BY <1>4, <2>3, RowKeeps DEF Loop
<1>5. CASE NearMissRow
  <2>1. PICK run, c, confidence, tied, cycle, drops, a, b :
          Decide("near_miss", [Measured(run, c) EXCEPT
             !.confidence = confidence, !.tied = tied, !.cycle = cycle, !.drops = drops,
             !.defects = emit_degraded_recovered(drops, run, a, b)])
    BY <1>5, ZenonT(60) DEF NearMissRow, missed
  <2>2. RowInv([Measured(run, c) EXCEPT
             !.confidence = confidence, !.tied = tied, !.cycle = cycle, !.drops = drops,
             !.defects = emit_degraded_recovered(drops, run, a, b)], "near_miss")
    BY RecoveredAnchored, MeasuredShape DEF RowInv, NoVerdict, BadRows
  <2> QED
    BY <2>1, <2>2, RowKeeps
<1>6. CASE UnlocalizedRow
  <2>1. terminal_bad
    BY <1>6 DEF UnlocalizedRow, Decide, EngineInv, BadRows
  <2>2. PICK run, c, confidence, drops :
          Decide("unlocalized", [Measured(run, c) EXCEPT
             !.confidence = confidence, !.drops = drops,
             !.defects = emit_terminal_unlocalized(run)])
    BY <1>6 DEF UnlocalizedRow
  <2>3. RowInv([Measured(run, c) EXCEPT
             !.confidence = confidence, !.drops = drops,
             !.defects = emit_terminal_unlocalized(run)], "unlocalized")
    BY <2>1, UnlocalizedAnchored, MeasuredShape DEF RowInv, NoVerdict
  <2> QED
    BY <2>2, <2>3, RowKeeps
<1>7. CASE CutPointRow
  <2> DEFINE m == Measured(drill(one).culprit, drilled_one)
  <2>1. /\ DOMAIN m = DOMAIN NoVerdict
        /\ m.type = "none" /\ m.manifestation = {}
    BY MeasuredShape
  <2>2. /\ DOMAIN cut = DOMAIN m
        /\ cut.type = m.type /\ cut.manifestation = m.manifestation
    <3> HIDE DEF m
    <3> QED
      BY <2>1 DEF cut, m, NoVerdict
  <2>3. \E drops, run, a, b : cut.defects = emit_cut_point(drops, run, a, b)
    <3> HIDE DEF m
    <3> QED
      BY <2>1 DEF cut, m, NoVerdict
  <2> HIDE DEF m
  <2>4. RowInv(cut, "cut_point")
    BY <2>1, <2>2, <2>3, CutPointAnchored DEF RowInv, BadRows
  <2> QED
    BY <1>7, <2>4, RowKeeps DEF CutPointRow
<1>8. CASE Multi
  <2>1. PICK culprits, drops, cycle, measured, confidence :
          Decide("multi", [NoVerdict EXCEPT
             !.culprits = culprits, !.drops = drops, !.cycle = cycle, !.measured = measured,
             !.defects = emit_multi(drops, ToSet(culprits)),
             !.confidence = confidence])
    BY <1>8 DEF Multi
  <2>2. RowInv([NoVerdict EXCEPT
             !.culprits = culprits, !.drops = drops, !.cycle = cycle, !.measured = measured,
             !.defects = emit_multi(drops, ToSet(culprits)),
             !.confidence = confidence], "multi")
    BY MultiAnchored DEF RowInv, NoVerdict, BadRows
  <2> QED
    BY <2>1, <2>2, RowKeeps
<1>9. CASE Fabrication
  <2>1. terminal_bad
    BY <1>9 DEF Fabrication, Decide, EngineInv, BadRows
  <2>2. PICK run, a, b, confidence :
          Decide("fabrication", [NoVerdict EXCEPT
             !.culprits = <<run>>,
             !.defects = emit_cut_point({}, run, a, b), !.confidence = confidence])
    BY <1>9 DEF Fabrication
  <2>3. RowInv([NoVerdict EXCEPT
             !.culprits = <<run>>,
             !.defects = emit_cut_point({}, run, a, b), !.confidence = confidence], "fabrication")
    BY <2>1, CutPointAnchored DEF RowInv, NoVerdict
  <2> QED
    BY <2>2, <2>3, RowKeeps
<1>10. CASE Composition
  <2>1. terminal_bad
    BY <1>10 DEF Composition, Decide, EngineInv, BadRows
  <2>2. PICK run, confidence :
          Decide("composition", [NoVerdict EXCEPT
             !.culprits = <<run>>, !.defects = emit_composition,
             !.confidence = confidence])
    BY <1>10 DEF Composition
  <2>3. RowInv([NoVerdict EXCEPT
             !.culprits = <<run>>, !.defects = emit_composition,
             !.confidence = confidence], "composition")
    BY <2>1, CompositionAnchored DEF RowInv, NoVerdict
  <2> QED
    BY <2>2, <2>3, RowKeeps
<1> QED
  BY <1>1, <1>2, <1>3, <1>4, <1>5, <1>6, <1>7, <1>8, <1>9, <1>10

LEMMA InputStays == Next => inp' = inp
BY DEF Next, Localize, Classify, NothingMeasured, External, Loop, NearMissRow, UnlocalizedRow,
       CutPointRow, Multi, Fabrication, Composition, Unclassified, Decide,
       VerificationGaps, Escalate, Finish

LEMMA EngineStep ==
  ASSUME EngineInv, [Next]_vars
  PROVE  EngineInv'
<1>1. inp' = inp
  BY InputStays DEF vars
<1>2. /\ terminal_bad' = terminal_bad /\ terminal_ok' = terminal_ok
      /\ \A d : Anchored(d)' <=> Anchored(d)
  BY <1>1 DEF terminal_bad, terminal_ok, Anchored
<1>3. DOMAIN verdict = DOMAIN NoVerdict
  BY DEF EngineInv
<1>4. CASE Localize
  BY <1>1, <1>2, <1>4 DEF Localize, EngineInv, BadRows
<1>5. CASE Classify
  BY <1>1, <1>2, <1>5, FirstRowNeedsBad DEF Classify, EngineInv
<1>6. CASE \/ NothingMeasured \/ External \/ Loop
           \/ NearMissRow \/ UnlocalizedRow \/ CutPointRow
           \/ Multi \/ Fabrication \/ Composition \/ Unclassified
  BY <1>6, RowStep
<1>7. CASE VerificationGaps
  <2>1. PICK gaps, culprits, confidence, runs, type :
          /\ type = derive_report_type(emit_verification(runs))
          /\ \/ verdict' = [verdict EXCEPT !.gaps = gaps, !.culprits = culprits,
                              !.confidence = confidence,
                              !.defects = emit_verification(runs), !.type = type]
             \/ verdict' = [verdict EXCEPT !.gaps = gaps,
                              !.type = derive_report_type(verdict.defects)]
    BY <1>7 DEF VerificationGaps
  <2>2. type \in BadTypes => terminal_bad
    BY <2>1, TypeNeedsBad, VerificationAnchored
  <2>3. derive_report_type(verdict.defects) \in BadTypes => terminal_bad
    BY TypeNeedsBad DEF EngineInv
  <2>4. /\ DOMAIN verdict' = DOMAIN NoVerdict
        /\ verdict'.row = verdict.row /\ verdict'.manifestation = verdict.manifestation
        /\ \/ verdict'.defects = emit_verification(runs) /\ verdict'.type = type
           \/ verdict'.defects = verdict.defects
              /\ verdict'.type = derive_report_type(verdict.defects)
    BY <2>1, <1>3 DEF NoVerdict
  <2>5. pc' = "escalate"
    BY <1>7 DEF VerificationGaps
  <2> QED
    BY <1>1, <1>2, <2>2, <2>3, <2>4, <2>5, VerificationAnchored DEF EngineInv, BadRows
<1>8. CASE Escalate
  <2>1. /\ DOMAIN verdict' = DOMAIN NoVerdict
        /\ verdict'.row = verdict.row /\ verdict'.manifestation = verdict.manifestation
        /\ verdict'.type = derive_escalation_records(verdict.type)
        /\ verdict'.defects \subseteq verdict.defects \cup emit_form
    BY <1>3, <1>8 DEF Escalate, NoVerdict
  <2>2. verdict'.type \in BadTypes => verdict.type \in BadTypes
    BY <2>1 DEF derive_escalation_records, BadTypes
  <2>3. pc' = "finish"
    BY <1>8 DEF Escalate
  <2> QED
    BY <1>1, <1>2, <2>1, <2>2, <2>3, FormAnchored DEF EngineInv, BadRows
<1>9. CASE Finish
  <2>1. /\ DOMAIN verdict' = DOMAIN NoVerdict
        /\ verdict'.row = verdict.row /\ verdict'.defects = verdict.defects
        /\ verdict'.type = verdict.type
        /\ verdict'.manifestation = manifestation(verdict.type)
    BY <1>3, <1>9 DEF Finish, NoVerdict
  <2>2. terminal_ok \/ inp.terminal.verdict = "stale" => manifestation(verdict.type) = {}
    BY DEF manifestation
  <2>3. pc' = "done"
    BY <1>9 DEF Finish
  <2> QED
    BY <1>1, <1>2, <2>1, <2>2, <2>3 DEF EngineInv, BadRows
<1>10. CASE UNCHANGED vars
  BY <1>10 DEF vars, EngineInv, terminal_bad, terminal_ok, Anchored
<1> QED
  BY <1>4, <1>5, <1>6, <1>7, <1>8, <1>9, <1>10 DEF Next

(* (find_blame) For every trace: a row, a defect or a type that says the       *)
(* deliverable is bad needs a terminal verdict that calls it bad, and nothing  *)
(* is said to show where that verdict is good or stale.                        *)
THEOREM EngineInvariance == Spec => []EngineInv
<1>1. Init => EngineInv
  BY NothingYet DEF Init, BadRows
<1>2. EngineInv /\ [Next]_vars => EngineInv'
  BY EngineStep
<1> QED
  BY <1>1, <1>2, PTL DEF Spec

--------------------------------------------------------------------------------
(* blame.py: the helpers of find_blame on the candidates, and what the         *)
(* defects of a row make of the report.                                        *)

(* A super-node holds itself, its members are runs, and each is led back. *)
LEMMA MembersAre ==
  ASSUME NEW c, NEW t, Graphed(c, t), NEW s \in Supers(c)
  PROVE  /\ s \in c.members[s] /\ s \in t.nodes
         /\ c.members[s] \subseteq t.nodes
         /\ AreRuns(c.members[s])
         /\ \A m \in c.members[s] : c.exitOf[m] = s
<1>1. c.members[s] = {n \in c.nodes : c.exitOf[n] = s} /\ s \in c.nodes /\ c.exitOf[s] = s
  BY DEF Graphed, Condensation
<1>2. c.members[s] \subseteq t.nodes
  BY <1>1 DEF Graphed
<1>3. AreRuns(c.members[s])
  BY <1>2, FS_Subset DEF AreRuns, Graphed, IsTrace
<1> QED
  BY <1>1, <1>2, <1>3 DEF Graphed

(* A drill ends at a member of the cycle ..                                    *)
LEMMA Drilled ==
  ASSUME Graphed(cond, inp), NEW d, CandidateLike(d, cond, inp)
  PROVE  drill(d).culprit \in cond.members[d.run]
<1> DEFINE members == cond.members[d.run]
           scored == members \cap Scored
           worst == {m \in scored : \A x \in scored : inp.score[m] <= inp.score[x]}
<1>1. d.run \in members /\ AreRuns(members) /\ members \subseteq inp.nodes
  BY MembersAre DEF CandidateLike
<1>2. drill(d).culprit = CASE scored = {} \/ ~IsCycle(cond, d.run) -> d.run
                           [] d.member \in scored /\ IsCycle(cond, d.run) -> d.member
                           [] OTHER -> Min(worst)
  BY DEF drill
<1> HIDE DEF members
<1>3. ASSUME scored # {} PROVE Min(worst) \in members
  <2> DEFINE V == {inp.score[x] : x \in scored}
  <2>1. V \subseteq {Unknown} \cup 0..100
    BY <1>1 DEF Graphed, IsTrace
  <2>2. IsFiniteSet(V) /\ V \subseteq Int /\ V # {}
    <3>1. V # {}
      BY <1>3
    <3> HIDE DEF V
    <3> QED
      BY <2>1, <3>1, Scores
  <2>3. Min(V) \in V /\ \A y \in V : Min(V) <= y
    <3> HIDE DEF V
    <3> QED
      BY <2>2, MinIn
  <2>4. worst # {}
    <3>1. PICK x \in scored : inp.score[x] = Min(V)
      BY <2>3
    <3>2. \A y \in scored : Min(V) <= inp.score[y]
      BY <2>3
    <3>3. \A y \in scored : inp.score[x] <= inp.score[y]
      BY <3>1, <3>2
    <3> QED
      BY <3>3
  <2>5. worst \subseteq members
    OBVIOUS
  <2> HIDE DEF worst
  <2>6. IsFiniteSet(worst) /\ worst \subseteq Int
    <3>1. IsFiniteSet(worst)
      BY <1>1, <2>5, FS_Subset DEF AreRuns
    <3>2. members \subseteq Nat
      BY <1>1 DEF AreRuns
    <3> QED
      BY <2>5, <3>1, <3>2
  <2>7. Min(worst) \in worst
    BY <2>4, <2>6, MinIn
  <2> QED
    BY <2>5, <2>7
<1> HIDE DEF worst
<1> QED
  BY <1>1, <1>2, <1>3 DEF members

(* .. and so does the resolution of one of several candidates.                 *)
LEMMA Resolved ==
  ASSUME Graphed(cond, inp), NEW d, CandidateLike(d, cond, inp)
  PROVE  Resolve(d).culprit \in cond.members[d.run]
<1>1. drill(d).culprit \in cond.members[d.run] /\ d.run \in cond.members[d.run]
  BY Drilled, MembersAre DEF CandidateLike
<1>2. Resolve(d).culprit \in {drill(d).culprit, d.run}
  BY DEF Resolve
<1> QED
  BY <1>1, <1>2

--------------------------------------------------------------------------------
(* The defects that a producer is charged with, and the types of report that   *)
(* a verification gap may replace.                                             *)
Faults == {"content", "contract", "loop"}
Soft == {"composition_failure", "unclassified"}

(* Defects that no verifier displaces. *)
Firm(D) ==
  /\ \E d \in D : d.kind \in Faults
  /\ \A d \in D : d.kind = "content" => d.origin \in {"Localized", "External", "Unlocalized"}
  /\ \/ \E d \in D : d.kind = "contract"
     \/ \A d \in D : d.kind = "content" => d.origin # "Unlocalized"

(* The report of firm defects is never replaced.                               *)
LEMMA FirmType ==
  ASSUME NEW D, Firm(D)
  PROVE  derive_report_type(D) \notin Soft
<1> DEFINE primary == {d \in D : d.kind \in {"content", "contract", "loop"}}
           content == {d \in D : d.kind = "content"}
           active == {d \in content : ~d.recovered}
           contract == {d \in D : d.kind = "contract"}
           local == {d \in active : d.origin = "Localized"}
<1>1. primary # {}
  BY DEF Firm, Faults
<1> SUFFICES ASSUME derive_report_type(D) \in Soft PROVE FALSE
  OBVIOUS
<1>2. /\ ~ \E d \in D : d.origin = "External"
      /\ local = {}
      /\ ~(contract # {} /\ \E d \in active : d.origin = "Unlocalized")
      /\ ~(contract # {} /\ active = {})
      /\ active # {}
  BY <1>1 DEF derive_report_type, Soft
<1>3. PICK d \in active : TRUE
  BY <1>2
<1>4. d \in D /\ d.kind = "content" /\ d.origin = "Unlocalized"
  BY <1>2, <1>3 DEF Firm
<1>5. contract # {}
  BY <1>4 DEF Firm
<1> QED
  BY <1>2, <1>3, <1>4, <1>5

(* derive_report_type knows a type for all defects, and "unclassified" only    *)
(* for none that a producer is charged with.                                   *)
LEMMA NeverNone ==
  ASSUME NEW D
  PROVE  /\ derive_report_type(D) \in ReportTypes \ {"none"}
         /\ (\E d \in D : d.kind \in Faults) => derive_report_type(D) # "unclassified"
<1>1. derive_report_type(D) \in ReportTypes \ {"none"}
  <2> SUFFICES ASSUME derive_report_type(D) \notin ReportTypes \ {"none"} PROVE FALSE
    OBVIOUS
  <2> QED
    BY DEF derive_report_type, ReportTypes
<1>2. ASSUME \E d \in D : d.kind \in Faults PROVE derive_report_type(D) # "unclassified"
  <2>1. {d \in D : d.kind \in {"content", "contract", "loop"}} # {}
    BY <1>2 DEF Faults
  <2> SUFFICES ASSUME derive_report_type(D) = "unclassified" PROVE FALSE
    OBVIOUS
  <2> QED
    BY <2>1 DEF derive_report_type
<1> QED
  BY <1>1, <1>2

(* What a promotion makes of the report.                                       *)
LEMMA GapType ==
  ASSUME NEW runs, runs # {}
  PROVE  derive_report_type(emit_verification(runs)) = "verification_gap"
<1> DEFINE D == emit_verification(runs)
<1>1. D # {} /\ \A d \in D : d.kind = "verification" /\ d.origin = "Localized"
  <2>1. D = {Defect("verification", "Localized", r, {"verifier_verdict"}, Unknown) : r \in runs}
    BY DEF emit_verification
  <2>2. D # {}
    BY <2>1
  <2> QED
    BY <2>1, <2>2 DEF Defect
<1> HIDE DEF D
<1> DEFINE primary == {d \in D : d.kind \in {"content", "contract", "loop"}}
           local(S) == {d \in S : d.origin = "Localized"}
           content == {d \in D : d.kind = "content"}
           active == {d \in content : ~d.recovered}
           contract == {d \in D : d.kind = "contract"}
           verification == {d \in D : d.kind = "verification"}
           named == {d.run : d \in local(primary)}
<1>2. /\ primary = {} /\ content = {} /\ contract = {} /\ verification # {}
  BY <1>1
<1>3. active = {} /\ local(active) = {} /\ named = {}
  BY <1>2
<1>4. ~(Cardinality(named) >= 2)
  <2> HIDE DEF named
  <2>1. Cardinality({}) = 0
    BY FS_EmptySet
  <2> QED
    BY <1>3, <2>1
<1>5. derive_report_type(D) =
       IF primary = {} /\ verification = {} THEN "unclassified"
       ELSE IF \E d \in D : d.origin = "External" THEN "root_cause_external"
       ELSE IF Cardinality(named) >= 2 THEN "multi_culprit"
       ELSE IF \E d \in primary : d.kind = "loop" THEN "loop_detected"
       ELSE IF local(active) # {} THEN "cut_point"
       ELSE IF content # {} /\ active = {} /\ contract = {} THEN "degraded_recovered"
       ELSE IF contract # {} /\ \E d \in active : d.origin = "Unlocalized"
       THEN "terminal_defect_unlocalized"
       ELSE IF contract # {} /\ active = {}
       THEN IF quality_unmeasured THEN "cut_point" ELSE "degraded_recovered"
       ELSE IF active # {} THEN "composition_failure"
       ELSE "verification_gap"
  BY DEF derive_report_type
<1>6. (~ \E d \in D : d.origin = "External") /\ (~ \E d \in primary : d.kind = "loop")
  BY <1>1, <1>2
<1> HIDE DEF primary, local, content, active, contract, verification, named
<1> QED
  BY <1>2, <1>3, <1>4, <1>5, <1>6 DEF D

(* The defects of row 5 are firm ..                                            *)
LEMMA FirmMulti ==
  ASSUME NEW drops, NEW culprits, culprits # {}
  PROVE  Firm(emit_multi(drops, culprits))
<1> DEFINE D == emit_multi(drops, culprits)
           A == {contract_defect(c, Unknown, ~terminal_bad) : c \in {d \in culprits : Breached(d)}}
           B == {content_defect(drops, c, FALSE, Unknown) : c \in {d \in culprits : EmitsContent(d)}}
<1>1. D = A \cup B
  BY DEF emit_multi
<1>2. \A c \in culprits : Breached(c) \/ EmitsContent(c)
  BY DEF EmitsContent
<1>3. \A d \in A : d.kind = "contract"
  BY DEF contract_defect, Defect
<1>4. \A d \in B : d.kind = "content" /\ d.origin = "Localized"
  BY DEF content_defect, Defect
<1>5. A # {} \/ B # {}
  BY <1>2
<1> HIDE DEF A, B, D
<1>6. \E d \in D : d.kind \in Faults
  BY <1>1, <1>3, <1>4, <1>5 DEF Faults
<1>7. \A d \in D : d.kind = "content" => d.origin = "Localized"
  BY <1>1, <1>3, <1>4
<1>8. Firm(D)
  BY <1>6, <1>7 DEF Firm
<1> QED
  BY <1>8 DEF D

(* .. those of row 3 ..                                                        *)
LEMMA FirmLoop ==
  ASSUME NEW drops, NEW culprits, NEW run
  PROVE  Firm(emit_loop(run) \cup emit_multi(drops, culprits))
<1> DEFINE L == emit_loop(run)
           M == emit_multi(drops, culprits)
<1>1. L # {} /\ \A d \in L : d.kind = "loop"
  BY DEF emit_loop, Defect
<1>2. \A d \in M : d.kind = "content" => d.origin = "Localized"
  BY DEF emit_multi, contract_defect, content_defect, Defect
<1> HIDE DEF L, M
<1>3. Firm(L \cup M)
  BY <1>1, <1>2 DEF Firm, Faults
<1> QED
  BY <1>3 DEF L, M

(* .. of rows 4c and 5b ..                                                     *)
LEMMA FirmCut ==
  ASSUME NEW drops, NEW run, NEW a, NEW b
  PROVE  Firm(emit_cut_point(drops, run, a, b))
<1> DEFINE D == emit_cut_point(drops, run, a, b)
           x == contract_defect(run, a, ~EmitsContent(run))
           y == content_defect(drops, run, FALSE, b)
<1>1. x.kind = "contract" /\ y.kind = "content" /\ y.origin = "Localized"
  BY DEF contract_defect, content_defect, Defect
<1>2. D \in {{x}, {y}, {x, y}}
  BY DEF emit_cut_point, EmitsContent
<1> HIDE DEF D, x, y
<1>3. Firm(D)
  BY <1>1, <1>2 DEF Firm, Faults
<1> QED
  BY <1>3 DEF D

(* .. and of row 4a; those of row 4b with a contract violation:                *)
LEMMA FirmRecovered ==
  ASSUME NEW drops, NEW run, NEW a, NEW b
  PROVE  Firm(emit_degraded_recovered(drops, run, a, b))
<1> DEFINE D == emit_degraded_recovered(drops, run, a, b)
           x == contract_defect(run, a, TRUE)
           y == content_defect(drops, run, TRUE, b)
<1>1. x.kind = "contract" /\ y.kind = "content" /\ y.origin = "Localized"
  BY DEF contract_defect, content_defect, Defect
<1>2. D \in {{x}, {y}}
  BY DEF emit_degraded_recovered
<1> HIDE DEF D, x, y
<1>3. Firm(D)
  BY <1>1, <1>2 DEF Firm, Faults
<1> QED
  BY <1>3 DEF D

(* Row 4b makes a defect of a contract violation only, beside one that is      *)
(* nowhere.                                                                    *)
LEMMA UnlocalizedDefects ==
  ASSUME NEW run
  PROVE  /\ \E d \in emit_terminal_unlocalized(run) : d.kind \in Faults
         /\ Breached(run) => Firm(emit_terminal_unlocalized(run))
<1> DEFINE D == emit_terminal_unlocalized(run)
           x == contract_defect(run, DETERMINISTIC_ATTRIBUTION, TRUE)
           C == emit_composition
<1>1. x.kind = "contract" /\ C # {} /\ \A d \in C : d.kind = "content" /\ d.origin = "Unlocalized"
  BY DEF contract_defect, emit_composition, Defect
<1>2. D = (IF Breached(run) THEN {x} ELSE {}) \cup C
  BY DEF emit_terminal_unlocalized
<1> HIDE DEF D, x, C
<1>3. (\E d \in D : d.kind \in Faults) /\ (Breached(run) => Firm(D))
  BY <1>1, <1>2 DEF Firm, Faults
<1> QED
  BY <1>3 DEF D

(* The other rows charge somebody too.                                         *)
LEMMA OtherDefects ==
  ASSUME NEW run
  PROVE  /\ \E d \in emit_external({}, run) : d.kind \in Faults
         /\ \E d \in emit_composition : d.kind \in Faults
BY DEF emit_external, emit_composition, Defect, Faults

--------------------------------------------------------------------------------
(* The culprits of several candidates, in their order.                         *)
CulpritsOf(q) == [i \in DOMAIN q |-> Resolve(q[i]).culprit]

(* One of each cycle.                                                          *)
LEMMA CulpritList ==
  ASSUME NEW q, Listed(q)
  PROVE  /\ Listed(CulpritsOf(q))
         /\ ToSet(CulpritsOf(q)) = {Resolve(d).culprit : d \in ToSet(q)}
         /\ DOMAIN CulpritsOf(q) = DOMAIN q
<1> DEFINE n == Len(q)
           f == CulpritsOf(q)
<1>1. DOMAIN q = 1..n /\ n \in Nat /\ ToSet(q) = {q[i] : i \in 1..n}
  BY ListedDomain
<1>2. f = [i \in 1..n |-> Resolve(q[i]).culprit]
  BY <1>1 DEF CulpritsOf
<1> HIDE DEF n, f
<1>3. f = [i \in 1..n |-> f[i]] /\ {f[i] : i \in 1..n} = {Resolve(d).culprit : d \in ToSet(q)}
  BY <1>1, <1>2
<1>4. Listed(f) /\ ToSet(f) = {f[i] : i \in 1..n}
  BY <1>1, <1>3, ListedFun
<1> QED
  BY <1>1, <1>2, <1>3, <1>4 DEF f

(* What Localize leaves behind. *)
Found == Graphed(cond, inp) /\ IsSelection(candidates, cond, inp)

(* One of every origin's super-node is among the runs of q. *)
Accuses(q) == \A d \in Candidates : ToSet(q) \cap cond.members[d.run] # {}

(* The runs of a headline.                                                     *)
AreNamed(q) == Listed(q) /\ ToSet(q) \subseteq inp.nodes

(* No candidate rests on a contract violation.                                 *)
Undefended == \A d \in Candidates : ~Breached(d.run)

(* What a row of the cascade hands to the passes after it. *)
Made(v, name) ==
  /\ AreNamed(v.culprits)
  /\ name \notin {"nothing_measured", "unclassified"} => \E d \in v.defects : d.kind \in Faults
  /\ candidates # << >> =>
        /\ Accuses(v.culprits)
        /\ Firm(v.defects) \/ (name = "unlocalized" /\ Undefended)
  /\ name = "multi" =>
        /\ candidates # << >> /\ DOMAIN v.culprits = DOMAIN candidates
        /\ \A i \in DOMAIN candidates : v.culprits[i] \in cond.members[candidates[i].run]
        /\ Firm(v.defects)

(* The candidates as a set and as a list.                                      *)
LEMMA CandidatesAre ==
  ASSUME Found
  PROVE  /\ Candidates = ToSet(candidates) /\ Listed(candidates)
         /\ \A d \in Candidates : CandidateLike(d, cond, inp)
         /\ candidates = << >> <=> Candidates = {}
         /\ DOMAIN candidates = 1..Len(candidates) /\ Len(candidates) \in Nat
         /\ RunsOf(candidates) = {d.run : d \in Candidates}
<1>1. Candidates = ToSet(candidates)
  BY DEF Candidates, ToSet
<1>2. Listed(candidates) /\ \A d \in Candidates : CandidateLike(d, cond, inp)
  BY <1>1 DEF Found, IsSelection
<1>3. RunsOf(candidates) = {d.run : d \in Candidates}
  BY <1>1, RunsOfSet
<1> QED
  BY <1>1, <1>2, <1>3, ListedEmpty, ListedDomain

(* With one candidate, that is all of them.                                    *)
LEMMA Single ==
  ASSUME Found, Len(candidates) = 1
  PROVE  /\ Candidates = {one} /\ CandidateLike(one, cond, inp) /\ candidates # << >>
<1>1. DOMAIN candidates = 1..1
  BY CandidatesAre
<1>2. Candidates = {one}
  BY <1>1 DEF Candidates, one
<1> QED
  BY <1>2, CandidatesAre

(* A headline of one run ..                                                    *)
LEMMA OneRun ==
  ASSUME NEW run \in inp.nodes
  PROVE  AreNamed(<<run>>) /\ ToSet(<<run>>) = {run}
<1>1. <<run>> \in Seq({run}) /\ ToSet(<<run>>) = {run}
  BY DEF ToSet
<1> QED
  BY <1>1, ListedIn DEF AreNamed

(* .. and one that accuses the one candidate.                                  *)
LEMMA OneCulprit ==
  ASSUME Found, Len(candidates) = 1, NEW run \in cond.members[one.run]
  PROVE  AreNamed(<<run>>) /\ Accuses(<<run>>)
<1>1. Candidates = {one} /\ CandidateLike(one, cond, inp)
  BY Single
<1>2. run \in inp.nodes
  BY <1>1, MembersAre DEF Found, CandidateLike
<1> QED
  BY <1>1, <1>2, OneRun DEF Accuses

--------------------------------------------------------------------------------
(* blame.py: what each row of the cascade hands on.                            *)

(* What the choice of the row says. *)
LEMMA RowChosen ==
  ASSUME Found
  PROVE  /\ first_row \in {"nothing_measured", "external", "fabrication", "composition",
                           "unclassified"} => candidates = << >>
         /\ first_row = "external" => flawed_sources # {}
         /\ first_row = "loop" => Runaway # {}
                 /\ (candidates # << >> => Runaway \cap RunsOf(candidates) # {})
         /\ first_row \in {"near_miss", "unlocalized", "cut_point"} => Len(candidates) = 1
         /\ first_row = "multi" => candidates # << >> /\ Len(candidates) > 1
         /\ first_row = "fabrication" => content_flagged # {}
         /\ first_row = "composition" => ~quality_unmeasured
<1>1. Len(candidates) \in Nat /\ (Len(candidates) = 0 => candidates = << >>)
  <2>1. Len(candidates) \in Nat /\ DOMAIN candidates = 1..Len(candidates)
    BY CandidatesAre
  <2>2. ASSUME Len(candidates) = 0 PROVE candidates = << >>
    <3>1. Candidates = {}
      BY <2>1, <2>2 DEF Candidates
    <3> QED
      BY <3>1, CandidatesAre
  <2> QED
    BY <2>1, <2>2
<1>2. Len(<< >>) = 0
  OBVIOUS
<1>3. candidates # << >> => Len(candidates) = 1 \/ Len(candidates) > 1
  BY <1>1
<1> DEFINE row == first_row
<1>4. row = IF quality_unmeasured /\ candidates = << >> /\ Runaway = {} THEN "nothing_measured"
    ELSE IF candidates = << >> /\ flawed_sources # {} THEN "external"
    ELSE IF Runaway # {} /\ (candidates = << >> \/ Runaway \cap RunsOf(candidates) # {})
    THEN "loop"
    ELSE IF Len(candidates) = 1 /\ NearMiss THEN "near_miss"
    ELSE IF Len(candidates) = 1 /\ HardFaultBesideBadContent THEN "unlocalized"
    ELSE IF Len(candidates) = 1 THEN "cut_point"
    ELSE IF Len(candidates) > 1 THEN "multi"
    ELSE IF terminal_bad /\ content_flagged # {} THEN "fabrication"
    ELSE IF terminal_bad /\ EveryScoreHealthy THEN "composition"
    ELSE "unclassified"
  BY DEF first_row
<1> HIDE DEF row
<1>5. row \in {"nothing_measured", "external", "fabrication", "composition", "unclassified"}
        => candidates = << >>
  BY <1>3, <1>4
<1>6. row = "external" => flawed_sources # {}
  BY <1>4
<1>7. row = "loop" => Runaway # {} /\ (candidates # << >> => Runaway \cap RunsOf(candidates) # {})
  BY <1>4
<1>8. row \in {"near_miss", "unlocalized", "cut_point"} => Len(candidates) = 1
  BY <1>4
<1>9. row = "multi" => Len(candidates) > 1
  BY <1>4
<1>10. row = "fabrication" => content_flagged # {}
  BY <1>4
<1>11. row = "composition" => ~quality_unmeasured
  BY <1>4, <1>5
<1>12. Len(candidates) > 1 => candidates # << >>
  BY <1>1, <1>2
<1> QED
  BY <1>5, <1>6, <1>7, <1>8, <1>9, <1>10, <1>11, <1>12 DEF row

(* Row 5 hands on what Made says.                                              *)
LEMMA MultiMade ==
  ASSUME Found, candidates # << >>, NEW v,
         v.culprits = CulpritsOf(candidates),
         NEW drops, v.defects = emit_multi(drops, ToSet(CulpritsOf(candidates)))
  PROVE  Made(v, "multi")
<1> DEFINE q == CulpritsOf(candidates)
<1>1. /\ Candidates = ToSet(candidates) /\ Listed(candidates) /\ Candidates # {}
      /\ \A d \in Candidates : CandidateLike(d, cond, inp)
  BY CandidatesAre
<1>2. /\ Listed(q) /\ ToSet(q) = {Resolve(d).culprit : d \in Candidates}
      /\ DOMAIN q = DOMAIN candidates
  BY <1>1, CulpritList
<1>3. \A d \in Candidates : /\ Resolve(d).culprit \in cond.members[d.run]
                            /\ cond.members[d.run] \subseteq inp.nodes
  BY <1>1, Resolved, MembersAre DEF Found, CandidateLike
<1>4. \A i \in DOMAIN candidates : q[i] \in cond.members[candidates[i].run]
  <2> SUFFICES ASSUME NEW i \in DOMAIN candidates PROVE q[i] \in cond.members[candidates[i].run]
    OBVIOUS
  <2>1. candidates[i] \in Candidates
    BY DEF Candidates
  <2>2. q[i] = Resolve(candidates[i]).culprit
    BY DEF CulpritsOf
  <2> QED
    BY <2>1, <2>2, <1>3
<1> HIDE DEF q
<1>5. AreNamed(q) /\ Accuses(q) /\ ToSet(q) # {}
  BY <1>1, <1>2, <1>3 DEF AreNamed, Accuses
<1>6. Firm(v.defects)
  BY <1>5, FirmMulti DEF q
<1>7. \E d \in v.defects : d.kind \in Faults
  BY <1>6 DEF Firm
<1>8. v.culprits = q
  BY DEF q
<1> QED
  BY <1>2, <1>4, <1>5, <1>6, <1>7, <1>8 DEF Made

(* A row for one candidate.                                                    *)
LEMMA SingleMade ==
  ASSUME Found, Len(candidates) = 1, NEW v, NEW name,
         NEW run \in cond.members[one.run], v.culprits = <<run>>,
         \E d \in v.defects : d.kind \in Faults,
         Firm(v.defects) \/ (name = "unlocalized" /\ Undefended), name # "multi"
  PROVE  Made(v, name)
BY OneCulprit DEF Made

(* A row that only a trace without an origin reaches. *)
LEMMA AloneMade ==
  ASSUME candidates = << >>, NEW v, NEW name, AreNamed(v.culprits), name # "multi",
         name \notin {"nothing_measured", "unclassified"} => \E d \in v.defects : d.kind \in Faults
  PROVE  Made(v, name)
BY DEF Made

(* The super-nodes are runs of the trace, and every run is a member of its     *)
(* own.                                                                        *)
LEMMA SupersOf ==
  ASSUME Found
  PROVE  /\ Supers(cond) \subseteq inp.nodes /\ AreRuns(Supers(cond)) /\ AreRuns(inp.nodes)
         /\ Listed(cond.topo) /\ ToSet(cond.topo) = Supers(cond)
         /\ \A n \in inp.nodes : cond.exitOf[n] \in Supers(cond) /\ n \in cond.members[cond.exitOf[n]]
<1>1. PICK L : Ordered(L, cond)
  BY DEF Found, Graphed
<1>2. Condensation(cond) /\ cond.nodes = inp.nodes
  BY DEF Found, Graphed
<1>3. Listed(cond.topo) /\ ToSet(cond.topo) = Supers(cond)
  BY <1>1, <1>2, Topo, ListedIn
<1> QED
  BY <1>2, <1>3 DEF Condensation

(* The attempts of a runaway cycle are members of it.                          *)
LEMMA Repeated ==
  ASSUME NEW c, NEW t, NEW s
  PROVE  repeating(c, t, s) \subseteq c.members[s]
<1> DEFINE agents == {t.attemptOf[m] : m \in c.members[s]} \ {NoAgent}
           attempts(a) == {m \in c.members[s] : t.attemptOf[m] = a}
           most == Max({0} \cup {Cardinality(attempts(a)) : a \in agents})
           busiest == {a \in agents : Cardinality(attempts(a)) = most}
<1>1. repeating(c, t, s) = IF busiest = {} THEN {} ELSE attempts(Max(busiest))
  BY DEF repeating
<1>2. \A a : attempts(a) \subseteq c.members[s]
  OBVIOUS
<1> HIDE DEF busiest, attempts
<1> QED
  BY <1>1, <1>2

(* Row 3 names the cycle that ran away and all origins elsewhere.              *)
LEMMA LoopMade ==
  ASSUME Found, Runaway # {},
         candidates # << >> => Runaway \cap RunsOf(candidates) # {}
  PROVE  Made(looped, "loop")
<1> DEFINE named == Runaway \cap RunsOf(candidates)
           S == IF named # {} THEN named ELSE Runaway
           s == FirstIn(cond.topo, S)
           again == repeating(cond, inp, s)
           blamed == IF again # {} THEN again ELSE cond.members[s]
           others == Select(candidates, {c \in Candidates : c.run # s})
           else == CulpritsOf(others)
           culprits == ByTime(blamed) \o Select(else, ToSet(else) \ blamed)
<1>1. Runaway \subseteq Supers(cond)
  BY DEF Runaway, anomalies
<1>2. s \in S /\ s \in Supers(cond)
  <2>1. S \subseteq Supers(cond) /\ S # {}
    BY <1>1
  <2> HIDE DEF S
  <2> QED
    BY <2>1, SupersOf, ListedFirst
<1>3. looped.culprits = culprits
  BY DEF looped, NoVerdict, CulpritsOf
<1>4. \E drops : looped.defects = emit_loop(Min(blamed)) \cup emit_multi(drops, ToSet(else))
  BY DEF looped, NoVerdict, CulpritsOf
<1>5. Firm(looped.defects)
  BY <1>4, FirmLoop
<1>6. candidates # << >> => s \in RunsOf(candidates)
  BY <1>2
<1> HIDE DEF s, S, named
<1>7. s \in cond.members[s] /\ cond.members[s] \subseteq inp.nodes /\ AreRuns(cond.members[s])
  BY <1>2, MembersAre DEF Found
<1>8. blamed \subseteq cond.members[s] /\ blamed # {}
  BY <1>7, Repeated
<1> HIDE DEF blamed
<1>9. AreRuns(blamed)
  <2>1. IsFiniteSet(blamed)
    BY <1>7, <1>8, FS_Subset DEF AreRuns
  <2> QED
    BY <2>1, <1>7, <1>8 DEF AreRuns
<1>10. Listed(ByTime(blamed)) /\ ToSet(ByTime(blamed)) = blamed
  BY <1>9, ByTimeSet
<1>11. /\ Candidates = ToSet(candidates) /\ Listed(candidates)
       /\ \A d \in Candidates : CandidateLike(d, cond, inp)
       /\ RunsOf(candidates) = {d.run : d \in Candidates}
  BY CandidatesAre
<1>12. Listed(others) /\ ToSet(others) = {c \in Candidates : c.run # s}
  <2> DEFINE X == {c \in Candidates : c.run # s}
  <2>1. X \subseteq ToSet(candidates)
    BY <1>11
  <2> HIDE DEF X
  <2>2. Listed(Select(candidates, X)) /\ ToSet(Select(candidates, X)) = ToSet(candidates) \cap X
    BY <1>11, ListedSelect
  <2> QED
    BY <2>1, <2>2 DEF X
<1> HIDE DEF others
<1>13. Listed(else) /\ ToSet(else) = {Resolve(d).culprit : d \in ToSet(others)}
  BY <1>12, CulpritList
<1>14. \A d \in Candidates : /\ Resolve(d).culprit \in cond.members[d.run]
                             /\ cond.members[d.run] \subseteq inp.nodes
  BY <1>11, Resolved, MembersAre DEF Found, CandidateLike
<1> HIDE DEF else
<1>15. Listed(culprits) /\ ToSet(culprits) = blamed \cup ToSet(else)
  <2> DEFINE Y == ToSet(else) \ blamed
             r == Select(else, Y)
  <2>1. Listed(r) /\ ToSet(r) = Y
    <3>1. Y \subseteq ToSet(else)
      OBVIOUS
    <3> HIDE DEF Y
    <3>2. Listed(Select(else, Y)) /\ ToSet(Select(else, Y)) = ToSet(else) \cap Y
      BY <1>13, ListedSelect
    <3> QED
      BY <3>1, <3>2
  <2> HIDE DEF r
  <2>2. Listed(ByTime(blamed) \o r) /\ ToSet(ByTime(blamed) \o r) = blamed \cup Y
    BY <1>10, <2>1, ListedConcat
  <2> USE DEF r
  <2> QED
    BY <2>2
<1>16. ToSet(else) \subseteq inp.nodes
  BY <1>12, <1>13, <1>14
<1> HIDE DEF culprits
<1>17. AreNamed(culprits)
  BY <1>7, <1>8, <1>15, <1>16 DEF AreNamed
<1>18. Accuses(culprits)
  <2> SUFFICES ASSUME NEW d \in Candidates PROVE ToSet(culprits) \cap cond.members[d.run] # {}
    BY DEF Accuses
  <2>1. CASE d.run = s
    BY <2>1, <1>8, <1>15
  <2>2. CASE d.run # s
    <3>1. Resolve(d).culprit \in ToSet(else)
      BY <2>2, <1>12, <1>13
    <3> QED
      BY <3>1, <1>14, <1>15
  <2> QED
    BY <2>1, <2>2
<1>19. \E d \in looped.defects : d.kind \in Faults
  BY <1>5 DEF Firm
<1> QED
  BY <1>3, <1>5, <1>17, <1>18, <1>19 DEF Made

(* The raw runs in order of report are the runs. *)
LEMMA GraphNodes ==
  ASSUME Found
  PROVE  Listed(graph_nodes(cond)) /\ ToSet(graph_nodes(cond)) = inp.nodes
<1> DEFINE topo == cond.topo
           N == Len(topo)
           X == inp.nodes
           D == {q \in Seq(X) : TRUE}
           Part(i) == ByTime(cond.members[topo[i]])
           Round(F) == [i \in 0..N |-> IF i = 0 THEN << >>
                                       ELSE F[i - 1] \o ByTime(cond.members[cond.topo[i]])]
           runs == CHOOSE F : F = Round(F)
           g == [p \in Seq(X) \X (1..N) |-> p[1] \o Part(p[2])]
           start == << >>
<1>1. /\ N \in Nat /\ DOMAIN topo = 1..N
      /\ \A i \in 1..N : topo[i] \in Supers(cond)
      /\ \A s \in Supers(cond) : \E i \in 1..N : topo[i] = s
  <2>1. Listed(topo) /\ ToSet(topo) = Supers(cond)
    BY SupersOf
  <2> HIDE DEF topo
  <2>2. N \in Nat /\ DOMAIN topo = 1..N /\ ToSet(topo) = {topo[i] : i \in 1..N}
    BY <2>1, ListedDomain
  <2> QED
    BY <2>1, <2>2
<1>2. ASSUME NEW i \in 1..N
      PROVE  Part(i) \in Seq(X) /\ ToSet(Part(i)) = cond.members[topo[i]]
  <2>1. AreRuns(cond.members[topo[i]]) /\ cond.members[topo[i]] \subseteq X
    BY <1>1, MembersAre DEF Found
  <2>2. Listed(Part(i)) /\ ToSet(Part(i)) = cond.members[topo[i]]
    BY <2>1, ByTimeSet
  <2> HIDE DEF Part, X
  <2> QED
    BY <2>1, <2>2, ListedSeq
<1>3. runs = Round(runs)
  <2>1. g \in [Seq(X) \X (1..N) -> Seq(X)] /\ start \in Seq(X)
    <3>1. \A p \in Seq(X) \X (1..N) : p[1] \o Part(p[2]) \in Seq(X)
      <4> SUFFICES ASSUME NEW q \in Seq(X), NEW i \in 1..N PROVE q \o Part(i) \in Seq(X)
        OBVIOUS
      <4>1. Part(i) \in Seq(X)
        BY <1>2
      <4> HIDE DEF Part, X, N
      <4> QED
        BY <4>1
    <3> HIDE DEF Part, X, N
    <3> QED
      BY <3>1
  <2>2. PICK f : IsRun(f, Seq(X), N, start, g)
    <3> DEFINE S == Seq(X)
    <3> HIDE DEF S, N, g, start
    <3>1. g \in [S \X (1..N) -> S] /\ start \in S
      BY <2>1 DEF S
    <3>2. \E f : IsRun(f, S, N, start, g)
      BY <1>1, <3>1, Rounds
    <3> QED
      BY <3>2 DEF S
  <2>3. f \in [0..N -> Seq(X)] /\ f[0] = start /\ \A i \in 1..N : f[i] = g[<<f[i - 1], i>>]
    BY <2>2 DEF IsRun
  <2>4. ASSUME NEW i \in 1..N PROVE f[i] = f[i - 1] \o Part(i)
    <3>1. i - 1 \in 0..N
      BY <1>1
    <3>2. f[i - 1] \in Seq(X)
      BY <3>1, <2>3
    <3>3. <<f[i - 1], i>> \in Seq(X) \X (1..N)
      BY <3>2
    <3>4. f[i] = g[<<f[i - 1], i>>]
      BY <2>3
    <3> HIDE DEF N, Part, X
    <3> QED
      BY <3>3, <3>4
  <2>5. f = Round(f)
    <3>1. DOMAIN f = 0..N /\ f = [i \in 0..N |-> f[i]]
      BY <2>3
    <3>2. ASSUME NEW i \in 0..N
          PROVE  f[i] = IF i = 0 THEN << >> ELSE f[i - 1] \o Part(i)
      <4>1. i = 0 \/ i \in 1..N
        BY <1>1
      <4> HIDE DEF Part
      <4> QED
        BY <4>1, <2>3, <2>4
    <3> QED
      BY <3>1, <3>2
  <2> HIDE DEF Round
  <2> QED
    BY <2>5
<1>4. runs[0] = << >> /\ \A i \in 1..N : runs[i] = runs[i - 1] \o Part(i)
  <2>1. \A i \in 0..N : Round(runs)[i] = IF i = 0 THEN << >> ELSE runs[i - 1] \o Part(i)
    OBVIOUS
  <2>2. (\A i \in 1..N : i \in 0..N /\ i # 0) /\ 0 \in 0..N
    BY <1>1
  <2> HIDE DEF runs, Round, Part
  <2> QED
    BY <1>3, <2>1, <2>2
<1>5. graph_nodes(cond) = runs[N]
  BY DEF graph_nodes
<1> HIDE DEF runs, Part, X, topo
<1> DEFINE Upto(k) == UNION {cond.members[topo[j]] : j \in 1..k}
           T == {k \in Nat : k <= N => runs[k] \in Seq(X) /\ ToSet(runs[k]) = Upto(k)}
<1>6. 0 \in T
  <2>1. << >> \in Seq(X) /\ ToSet(<< >>) = {}
    BY DEF ToSet
  <2>2. Upto(0) = {}
    OBVIOUS
  <2> HIDE DEF Upto
  <2> QED
    BY <2>1, <2>2, <1>4
<1>7. ASSUME NEW k \in Nat, k \in T PROVE k + 1 \in T
  <2> SUFFICES ASSUME k + 1 <= N
               PROVE  runs[k + 1] \in Seq(X) /\ ToSet(runs[k + 1]) = Upto(k + 1)
    OBVIOUS
  <2>1. k + 1 \in 1..N /\ (k + 1) - 1 = k /\ k <= N
    BY <1>1
  <2>2. runs[k] \in Seq(X) /\ ToSet(runs[k]) = Upto(k) /\ runs[k + 1] = runs[k] \o Part(k + 1)
    BY <2>1, <1>4, <1>7
  <2>3. Part(k + 1) \in Seq(X) /\ ToSet(Part(k + 1)) = cond.members[topo[k + 1]]
    BY <2>1, <1>2
  <2>4. Upto(k + 1) = Upto(k) \cup cond.members[topo[k + 1]]
    BY <2>1
  <2> HIDE DEF Upto
  <2>5. Listed(runs[k]) /\ Listed(Part(k + 1))
    BY <2>2, <2>3, ListedIn
  <2>6. Listed(runs[k + 1]) /\ ToSet(runs[k + 1]) = Upto(k + 1)
    <3> DEFINE a == runs[k]
               b == Part(k + 1)
    <3>1. runs[k + 1] = a \o b /\ Listed(a) /\ Listed(b)
      BY <2>2, <2>5
    <3> HIDE DEF a, b
    <3>2. Listed(a \o b) /\ ToSet(a \o b) = ToSet(a) \cup ToSet(b)
      BY <3>1, ListedConcat
    <3> USE DEF a, b
    <3> QED
      BY <3>1, <3>2, <2>2, <2>3, <2>4
  <2>7. runs[k + 1] \in Seq(X)
    BY <2>2, <2>3
  <2> QED
    BY <2>6, <2>7
<1> HIDE DEF T
<1>8. Nat \subseteq T
  BY <1>6, <1>7, NatSetInduction
<1>9. runs[N] \in Seq(X) /\ ToSet(runs[N]) = Upto(N)
  <2>1. N \in T /\ N <= N
    BY <1>1, <1>8
  <2> HIDE DEF Upto, N
  <2> QED
    BY <2>1 DEF T
<1>10. Upto(N) = X
  <2>1. \A i \in 1..N : cond.members[topo[i]] \subseteq X
    BY <1>1, MembersAre DEF Found, X
  <2>2. ASSUME NEW n \in X PROVE \E i \in 1..N : n \in cond.members[topo[i]]
    <3>1. cond.exitOf[n] \in Supers(cond) /\ n \in cond.members[cond.exitOf[n]]
      BY <2>2, SupersOf DEF X
    <3> QED
      BY <3>1, <1>1
  <2> QED
    BY <2>1, <2>2
<1> QED
  BY <1>5, <1>9, <1>10, ListedIn DEF X

(* The rows that find nothing are only for traces without an origin.           *)
LEMMA NothingMade ==
  ASSUME candidates = << >>, NEW name \in {"nothing_measured", "unclassified"}
  PROVE  Made(NoVerdict, name)
<1>1. NoVerdict.culprits = << >> /\ AreNamed(<< >>)
  BY ListedEmpty DEF NoVerdict, AreNamed
<1> QED
  BY <1>1, AloneMade

(* The row of a flawed source.                                                 *)
LEMMA ExternalMade ==
  ASSUME Found, candidates = << >>, flawed_sources # {}, NEW v,
         LET run == FirstIn(cond.topo, flawed_sources)
         IN  v.culprits = <<run>> /\ v.defects = emit_external({}, run)
  PROVE  Made(v, "external")
<1> DEFINE S == flawed_sources
           run == FirstIn(cond.topo, S)
<1>1. S \subseteq Supers(cond) /\ S # {}
  BY DEF flawed_sources, sources
<1>2. v.culprits = <<run>> /\ v.defects = emit_external({}, run)
  OBVIOUS
<1>3. run \in inp.nodes
  <2> HIDE DEF S
  <2> QED
    BY <1>1, SupersOf, ListedFirst
<1> HIDE DEF run
<1>4. AreNamed(v.culprits) /\ \E d \in v.defects : d.kind \in Faults
  BY <1>2, <1>3, OneRun, OtherDefects
<1> QED
  BY <1>4, AloneMade

(* Row 5b.                                                                     *)
LEMMA FabricationMade ==
  ASSUME Found, candidates = << >>, content_flagged # {}, NEW v, NEW a, NEW b,
         LET run == FirstIn(graph_nodes(cond), content_flagged)
         IN  v.culprits = <<run>> /\ v.defects = emit_cut_point({}, run, a, b)
  PROVE  Made(v, "fabrication")
<1> DEFINE S == content_flagged
           q == graph_nodes(cond)
           run == FirstIn(q, S)
<1>1. S \subseteq inp.nodes /\ S # {}
  BY DEF content_flagged, Scored
<1>2. v.culprits = <<run>> /\ v.defects = emit_cut_point({}, run, a, b)
  OBVIOUS
<1>3. Listed(q) /\ ToSet(q) = inp.nodes
  BY GraphNodes
<1>4. run \in inp.nodes
  <2> HIDE DEF S, q
  <2> QED
    BY <1>1, <1>3, ListedFirst
<1> HIDE DEF run
<1>5. AreNamed(v.culprits) /\ \E d \in v.defects : d.kind \in Faults
  BY <1>2, <1>4, OneRun, FirmCut DEF Firm
<1> QED
  BY <1>5, AloneMade

(* Row 6.                                                                      *)
LEMMA CompositionMade ==
  ASSUME Found, candidates = << >>, ~quality_unmeasured, NEW v,
         v.culprits = <<Min(sources(cond))>>, v.defects = emit_composition
  PROVE  Made(v, "composition")
<1> DEFINE S == sources(cond)
           X == Supers(cond)
           E == cond.dag
<1>1. X # {} /\ AreRuns(X) /\ X \subseteq inp.nodes
  <2>1. PICK n \in inp.nodes : TRUE
    BY DEF quality_unmeasured
  <2> QED
    BY <2>1, SupersOf
<1>2. E \subseteq X \X X
  BY DagEdges DEF Found, Graphed
<1>3. PICK L : Ordered(L, cond)
  BY DEF Found, Graphed
<1>4. E \subseteq L /\ (\A x \in X : <<x, x>> \notin L)
      /\ \A x, y, z \in X : <<x, y>> \in L /\ <<y, z>> \in L => <<x, z>> \in L
  BY <1>3 DEF Ordered, Transitive
<1>5. \A s \in X : Preds(E, s) = {} => s \in S
  BY DEF sources
<1>6. S \subseteq X
  BY DEF sources
<1> HIDE DEF X, E, S
<1>7. PICK x \in X : \A y \in X : <<y, x>> \notin L
  <2>1. IsFiniteSet(X) /\ X # {}
    BY <1>1 DEF AreRuns
  <2>2. \A x \in X : <<x, x>> \notin L
    BY <1>4
  <2>3. \A x, y, z \in X : <<x, y>> \in L /\ <<y, z>> \in L => <<x, z>> \in L
    BY <1>4
  <2> QED
    BY <2>1, <2>2, <2>3, Minimal
<1>8. Preds(E, x) = {}
  <2>1. \A p : p \in Preds(E, x) => <<p, x>> \in E /\ p \in X
    BY <1>2, Neighbours
  <2> QED
    BY <2>1, <1>4, <1>7
<1>9. S # {} /\ IsFiniteSet(S) /\ S \subseteq Int
  <2>1. IsFiniteSet(S)
    BY <1>1, <1>6, FS_Subset DEF AreRuns
  <2> QED
    BY <2>1, <1>1, <1>5, <1>6, <1>7, <1>8 DEF AreRuns
<1>10. Min(S) \in inp.nodes
  BY <1>1, <1>6, <1>9, MinIn
<1>11. AreNamed(v.culprits) /\ \E d \in v.defects : d.kind \in Faults
  BY <1>10, OneRun, OtherDefects DEF S
<1> QED
  BY <1>11, AloneMade

(* What rows 4a, 4b and 4c have in common.                                     *)
LEMMA MeasuredCulprit ==
  ASSUME NEW run, NEW c
  PROVE  Measured(run, c).culprits = <<run>> /\ DOMAIN Measured(run, c) = DOMAIN NoVerdict
BY DEF Measured, NoVerdict

(* Row 4a.                                                                     *)
LEMMA NearMissMade ==
  ASSUME Found, Len(candidates) = 1
  PROVE  Made(missed, "near_miss")
<1> DEFINE run == IF one.member # Unknown THEN one.member ELSE one.run
<1>1. run \in cond.members[one.run]
  BY Single, MembersAre DEF Found, CandidateLike
<1>2. \E c, confidence, tied, cycle, drops, a, b :
        missed = [Measured(run, c) EXCEPT
             !.confidence = confidence, !.tied = tied, !.cycle = cycle, !.drops = drops,
             !.defects = emit_degraded_recovered(drops, run, a, b)]
  BY ZenonT(60) DEF missed
<1> HIDE DEF run
<1>3. missed.culprits = <<run>>
      /\ \E drops, a, b : missed.defects = emit_degraded_recovered(drops, run, a, b)
  BY <1>2, MeasuredCulprit DEF NoVerdict
<1>4. Firm(missed.defects) /\ \E d \in missed.defects : d.kind \in Faults
  BY <1>3, FirmRecovered DEF Firm
<1> QED
  BY <1>1, <1>3, <1>4, SingleMade

(* Row 4c.                                                                     *)
LEMMA CutMade ==
  ASSUME Found, Len(candidates) = 1
  PROVE  Made(cut, "cut_point")
<1> DEFINE run == drill(one).culprit
           m == Measured(run, drilled_one)
<1>1. run \in cond.members[one.run]
  BY Single, Drilled DEF Found
<1>2. m.culprits = <<run>> /\ DOMAIN m = DOMAIN NoVerdict
  BY MeasuredCulprit
<1>3. cut.culprits = m.culprits
  <2> HIDE DEF m
  <2> QED
    BY <1>2 DEF cut, m, NoVerdict
<1>4. \E drops, a, b : cut.defects = emit_cut_point(drops, run, a, b)
  <2> HIDE DEF m
  <2> QED
    BY <1>2 DEF cut, m, NoVerdict
<1> HIDE DEF run, m
<1>5. Firm(cut.defects) /\ \E d \in cut.defects : d.kind \in Faults
  BY <1>4, FirmCut DEF Firm
<1> QED
  BY <1>1, <1>2, <1>3, <1>5, SingleMade

(* Row 4b: the one origin is named, and the report may be replaced only        *)
(* where no contract violation speaks against it.                              *)
LEMMA UnlocalizedMade ==
  ASSUME Found, Len(candidates) = 1, NEW v,
         v.culprits = <<one.run>>, v.defects = emit_terminal_unlocalized(one.run)
  PROVE  Made(v, "unlocalized")
<1>1. one.run \in cond.members[one.run] /\ Candidates = {one}
  BY Single, MembersAre DEF Found, CandidateLike
<1>2. \E d \in v.defects : d.kind \in Faults
  BY UnlocalizedDefects
<1>3. Firm(v.defects) \/ Undefended
  BY <1>1, UnlocalizedDefects DEF Undefended
<1> QED
  BY <1>1, <1>2, <1>3, SingleMade

--------------------------------------------------------------------------------
(* The passes after Localize.                                                  *)

(* The passes that are rows, and those after the headline is settled.          *)
Rows == {"nothing_measured", "external", "loop", "near_miss", "unlocalized", "cut_point",
         "multi", "fabrication", "composition", "unclassified"}
Told == {"escalate", "finish", "done"}

(* Of a report with several culprits, one for each origin, in their order. *)
OneEach ==
  verdict.row = "multi" =>
    /\ candidates # << >> /\ DOMAIN verdict.culprits = DOMAIN candidates
    /\ \A i \in DOMAIN candidates : verdict.culprits[i] \in cond.members[candidates[i].run]

(* After the verification gaps. *)
Reported ==
  /\ AreNamed(verdict.culprits)
  /\ verdict.type \in ReportTypes \ {"none"}
  /\ verdict.type = "unclassified" => verdict.row \in {"nothing_measured", "unclassified"}
  /\ \A d \in Candidates :
        ToSet(verdict.culprits) \cap cond.members[d.run] # {} \/ Displaced(d.run)
  /\ OneEach

(* The invariant of the passes: the candidates are those of the trace, the     *)
(* row is the first that applies, and from the row on the headline accounts    *)
(* for every candidate.                                                        *)
PlaceInv ==
  /\ IsTrace(inp)
  /\ pc \notin {"idle", "localize"} => Found
  /\ pc \in Rows => pc = first_row
  /\ pc \in Told \cup {"gaps"} => verdict.row = first_row
  /\ pc = "gaps" => Made(verdict, verdict.row)
  /\ pc \in Told => Reported

(* The choice of the row depends on the trace and the candidates alone.        *)
LEMMA FoundStays ==
  ASSUME UNCHANGED <<inp, cond, candidates>>
  PROVE  /\ first_row' = first_row
         /\ Found' <=> Found
         /\ Candidates' = Candidates
         /\ Undefended' <=> Undefended
<1>1. inp' = inp /\ cond' = cond /\ candidates' = candidates
  OBVIOUS
<1>2. Scored' = Scored /\ Runaway' = Runaway /\ one' = one
      /\ terminal_bad' = terminal_bad /\ terminal_ok' = terminal_ok
      /\ (quality_unmeasured' <=> quality_unmeasured) /\ flawed_sources' = flawed_sources
  BY <1>1 DEF Scored, Runaway, one, terminal_bad, terminal_ok, quality_unmeasured, flawed_sources
<1>3. (NearMiss' <=> NearMiss) /\ (HardFaultBesideBadContent' <=> HardFaultBesideBadContent)
      /\ content_flagged' = content_flagged
  BY <1>1, <1>2 DEF NearMiss, HardFaultBesideBadContent, content_flagged
<1>4. hidden_unscored' = hidden_unscored
  BY <1>1, <1>2 DEF hidden_unscored
<1>5. EveryScoreHealthy' <=> EveryScoreHealthy
  BY <1>1, <1>2, <1>4 DEF EveryScoreHealthy
<1>6. first_row' = first_row
  BY <1>1, <1>2, <1>3, <1>5 DEF first_row
<1>7. Found' <=> Found
  BY <1>1 DEF Found
<1>8. Candidates' = Candidates
  BY <1>1 DEF Candidates
<1>9. Undefended' <=> Undefended
  BY <1>1, <1>8 DEF Undefended, Breached
<1> QED
  BY <1>6, <1>7, <1>8, <1>9

(* A row that makes what Made says keeps the invariant.                        *)
LEMMA RowPlaces ==
  ASSUME PlaceInv, NEW name \in Rows, NEW v, Decide(name, v), DOMAIN v = DOMAIN NoVerdict,
         pc = name => Made(v, name)
  PROVE  PlaceInv'
<1>1. pc = name /\ verdict' = [v EXCEPT !.row = name] /\ pc' = "gaps"
      /\ UNCHANGED <<inp, cond, candidates>>
  BY DEF Decide
<1>2. pc \notin {"idle", "localize"} /\ "gaps" \notin Rows /\ "gaps" \notin Told
  BY <1>1 DEF Rows, Told
<1> DEFINE w == [v EXCEPT !.row = name]
<1>3. w.row = name /\ w.culprits = v.culprits /\ w.defects = v.defects
  BY DEF NoVerdict
<1>4. verdict' = w
  BY <1>1
<1> HIDE DEF w
<1>5. Made(verdict, verdict.row)'
  <2>1. Made(v, name)
    BY <1>1
  <2>2. inp' = inp /\ cond' = cond /\ candidates' = candidates
    BY <1>1
  <2> QED
    BY <1>3, <1>4, <2>1, <2>2, FoundStays
    DEF Made, AreNamed, Accuses, Firm, Faults
<1>6. (verdict.row)' = first_row'
  BY <1>1, <1>2, <1>3, <1>4, FoundStays DEF PlaceInv
<1>7. Found' /\ IsTrace(inp)'
  BY <1>1, <1>2, FoundStays DEF PlaceInv
<1> QED
  BY <1>1, <1>2, <1>5, <1>6, <1>7 DEF PlaceInv

(* Every row does.                                                             *)
LEMMA RowsPlace ==
  ASSUME PlaceInv,
         \/ NothingMeasured \/ External \/ Loop
         \/ NearMissRow \/ UnlocalizedRow \/ CutPointRow
         \/ Multi \/ Fabrication \/ Composition \/ Unclassified
  PROVE  PlaceInv'
<1>0. \A name \in Rows : pc = name => Found /\ first_row = name
  BY DEF PlaceInv, Rows
<1>1. CASE NothingMeasured
  <2>1. pc = "nothing_measured" => Made(NoVerdict, "nothing_measured")
    BY <1>0, RowChosen, NothingMade DEF Rows
  <2> QED
    BY <1>1, <2>1, RowPlaces DEF NothingMeasured, Rows
<1>2. CASE Unclassified
  <2>1. pc = "unclassified" => Made(NoVerdict, "unclassified")
    BY <1>0, RowChosen, NothingMade DEF Rows
  <2> QED
    BY <1>2, <2>1, RowPlaces DEF Unclassified, Rows
<1>3. CASE External
  <2> DEFINE run == FirstIn(cond.topo, flawed_sources)
  <2>1. PICK confidence :
          Decide("external", [NoVerdict EXCEPT !.culprits = <<run>>,
                                !.defects = emit_external({}, run),
                                !.confidence = confidence])
    BY <1>3 DEF External
  <2> DEFINE v == [NoVerdict EXCEPT !.culprits = <<run>>, !.defects = emit_external({}, run),
                                    !.confidence = confidence]
  <2>2. /\ v.culprits = <<run>> /\ v.defects = emit_external({}, run)
        /\ DOMAIN v = DOMAIN NoVerdict
    BY DEF NoVerdict
  <2>3. Decide("external", v)
    BY <2>1
  <2> HIDE DEF v
  <2>4. pc = "external" => Made(v, "external")
    BY <1>0, <2>2, RowChosen, ExternalMade DEF Rows
  <2> QED
    BY <2>2, <2>3, <2>4, RowPlaces DEF Rows
<1>4. CASE Loop
  <2>1. pc = "loop" => Made(looped, "loop")
    BY <1>0, RowChosen, LoopMade DEF Rows
  <2>2. DOMAIN looped = DOMAIN NoVerdict
    BY DEF looped, NoVerdict
  <2> QED
    BY <1>4, <2>1, <2>2, RowPlaces DEF Loop, Rows
<1>5. CASE NearMissRow
  <2>1. pc = "near_miss" => Made(missed, "near_miss")
    BY <1>0, RowChosen, NearMissMade DEF Rows
  <2>2. \E run, c, confidence, tied, cycle, drops, a, b :
          missed = [Measured(run, c) EXCEPT
             !.confidence = confidence, !.tied = tied, !.cycle = cycle, !.drops = drops,
             !.defects = emit_degraded_recovered(drops, run, a, b)]
    BY ZenonT(60) DEF missed
  <2>3. DOMAIN missed = DOMAIN NoVerdict
    BY <2>2, MeasuredCulprit DEF NoVerdict
  <2> QED
    BY <1>5, <2>1, <2>3, RowPlaces DEF NearMissRow, Rows
<1>6. CASE UnlocalizedRow
  <2> DEFINE m == Measured(one.run, one)
             v == [m EXCEPT
                !.confidence = report_type_cap("terminal_defect_unlocalized"),
                !.drops = BuiltDrops,
                !.defects = emit_terminal_unlocalized(one.run)]
  <2>1. m.culprits = <<one.run>> /\ DOMAIN m = DOMAIN NoVerdict
    BY MeasuredCulprit
  <2>2. Decide("unlocalized", v)
    BY <1>6 DEF UnlocalizedRow
  <2> HIDE DEF m
  <2>3. /\ v.culprits = <<one.run>> /\ v.defects = emit_terminal_unlocalized(one.run)
        /\ DOMAIN v = DOMAIN NoVerdict
    BY <2>1 DEF NoVerdict
  <2> HIDE DEF v
  <2>4. pc = "unlocalized" => Made(v, "unlocalized")
    BY <1>0, <2>3, RowChosen, UnlocalizedMade DEF Rows
  <2> QED
    BY <2>2, <2>3, <2>4, RowPlaces DEF Rows
<1>7. CASE CutPointRow
  <2>1. pc = "cut_point" => Made(cut, "cut_point")
    BY <1>0, RowChosen, CutMade DEF Rows
  <2> DEFINE m == Measured(drill(one).culprit, drilled_one)
  <2>2. DOMAIN m = DOMAIN NoVerdict
    BY MeasuredCulprit
  <2>3. DOMAIN cut = DOMAIN NoVerdict
    <3> HIDE DEF m
    <3> QED
      BY <2>2 DEF cut, m, NoVerdict
  <2> QED
    BY <1>7, <2>1, <2>3, RowPlaces DEF CutPointRow, Rows
<1>8. CASE Multi
  <2>1. PICK drops, cycle, measured, confidence :
          Decide("multi", [NoVerdict EXCEPT
             !.culprits = CulpritsOf(candidates), !.drops = drops, !.cycle = cycle,
             !.measured = measured,
             !.defects = emit_multi(drops, ToSet(CulpritsOf(candidates))),
             !.confidence = confidence])
    BY <1>8 DEF Multi, CulpritsOf
  <2> DEFINE v == [NoVerdict EXCEPT
             !.culprits = CulpritsOf(candidates), !.drops = drops, !.cycle = cycle,
             !.measured = measured,
             !.defects = emit_multi(drops, ToSet(CulpritsOf(candidates))),
             !.confidence = confidence]
  <2>2. /\ v.culprits = CulpritsOf(candidates)
        /\ v.defects = emit_multi(drops, ToSet(CulpritsOf(candidates)))
        /\ DOMAIN v = DOMAIN NoVerdict
    BY DEF NoVerdict
  <2>3. Decide("multi", v)
    BY <2>1
  <2> HIDE DEF v
  <2>4. pc = "multi" => Made(v, "multi")
    BY <1>0, <2>2, RowChosen, MultiMade DEF Rows
  <2> QED
    BY <2>2, <2>3, <2>4, RowPlaces DEF Rows
<1>9. CASE Fabrication
  <2> DEFINE run == FirstIn(graph_nodes(cond), content_flagged)
  <2>1. PICK a, b, confidence :
          Decide("fabrication", [NoVerdict EXCEPT
             !.culprits = <<run>>,
             !.defects = emit_cut_point({}, run, a, b), !.confidence = confidence])
    BY <1>9 DEF Fabrication
  <2> DEFINE v == [NoVerdict EXCEPT !.culprits = <<run>>,
             !.defects = emit_cut_point({}, run, a, b), !.confidence = confidence]
  <2>2. /\ v.culprits = <<run>> /\ v.defects = emit_cut_point({}, run, a, b)
        /\ DOMAIN v = DOMAIN NoVerdict
    BY DEF NoVerdict
  <2>3. Decide("fabrication", v)
    BY <2>1
  <2> HIDE DEF v
  <2>4. pc = "fabrication" => Made(v, "fabrication")
    BY <1>0, <2>2, RowChosen, FabricationMade DEF Rows
  <2> QED
    BY <2>2, <2>3, <2>4, RowPlaces DEF Rows
<1>10. CASE Composition
  <2>1. PICK confidence :
          Decide("composition", [NoVerdict EXCEPT
             !.culprits = <<Min(sources(cond))>>, !.defects = emit_composition,
             !.confidence = confidence])
    BY <1>10 DEF Composition
  <2> DEFINE v == [NoVerdict EXCEPT
             !.culprits = <<Min(sources(cond))>>, !.defects = emit_composition,
             !.confidence = confidence]
  <2>2. /\ v.culprits = <<Min(sources(cond))>> /\ v.defects = emit_composition
        /\ DOMAIN v = DOMAIN NoVerdict
    BY DEF NoVerdict
  <2>3. Decide("composition", v)
    BY <2>1
  <2> HIDE DEF v
  <2>4. pc = "composition" => Made(v, "composition")
    BY <1>0, <2>2, RowChosen, CompositionMade DEF Rows
  <2> QED
    BY <2>2, <2>3, <2>4, RowPlaces DEF Rows
<1> QED
  BY <1>1, <1>2, <1>3, <1>4, <1>5, <1>6, <1>7, <1>8, <1>9, <1>10

(* The cascade ends in a row.                                                  *)
LEMMA FirstRowIs == first_row \in Rows
BY DEF first_row, Rows

(* The runs with a gap are verifiers of the trace. *)
LEMMA GapRuns ==
  ASSUME NEW g \in ScoredGaps \cup PassedBad(ToSet(verdict.culprits))
  PROVE  g.run \in inp.nodes
<1>1. CASE g \in ScoredGaps
  BY <1>1 DEF ScoredGaps, Scored
<1>2. CASE g \in PassedBad(ToSet(verdict.culprits))
  <2>1. PICK n \in Scored : g = [run |-> n, basis |-> "passed_bad_terminal"]
    BY <1>2 DEF PassedBad
  <2> QED
    BY <2>1 DEF Scored
<1> QED
  BY <1>1, <1>2

(* A headline of verifiers.                                                    *)
LEMMA NamedByTime ==
  ASSUME AreRuns(inp.nodes), NEW A, NEW B, A \subseteq inp.nodes, B \subseteq inp.nodes
  PROVE  AreNamed(ByTime(A) \o ByTime(B))
<1>1. AreRuns(A) /\ AreRuns(B)
  BY FS_Subset DEF AreRuns
<1>2. Listed(ByTime(A)) /\ ToSet(ByTime(A)) = A /\ Listed(ByTime(B)) /\ ToSet(ByTime(B)) = B
  BY <1>1, ByTimeSet
<1> DEFINE a == ByTime(A)
           b == ByTime(B)
<1>3. Listed(a) /\ ToSet(a) = A /\ Listed(b) /\ ToSet(b) = B
  BY <1>2
<1> HIDE DEF a, b
<1>4. Listed(a \o b) /\ ToSet(a \o b) = A \cup B
  BY <1>3, ListedConcat
<1> QED
  BY <1>4 DEF AreNamed, a, b

(* A verification gap displaces a headline only where no defect is firm.       *)
LEMMA GapsPlace ==
  ASSUME PlaceInv, DOMAIN verdict = DOMAIN NoVerdict, VerificationGaps
  PROVE  PlaceInv'
<1> DEFINE gaps == ScoredGaps \cup PassedBad(ToSet(verdict.culprits))
           asserted == {g.run : g \in {h \in gaps : h.basis # "verifier_flag_conflict"}}
           wrong == {g.run : g \in ScoredGaps}
           type == derive_report_type(verdict.defects)
           promoted == type \in {"composition_failure", "unclassified"} /\ asserted # {}
           vp == [verdict EXCEPT
                     !.gaps = gaps,
                     !.culprits = ByTime(wrong \cap asserted) \o ByTime(asserted \ wrong),
                     !.confidence = report_type_cap("verification_gap"),
                     !.defects = emit_verification(asserted),
                     !.type = derive_report_type(emit_verification(asserted))]
           vn == [verdict EXCEPT !.gaps = gaps, !.type = type]
<1>1. pc = "gaps" /\ pc' = "escalate" /\ inp' = inp /\ cond' = cond /\ candidates' = candidates
      /\ verdict' = IF promoted THEN vp ELSE vn
  BY DEF VerificationGaps
<1>2. Found /\ Made(verdict, verdict.row) /\ verdict.row = first_row /\ IsTrace(inp)
  BY <1>1 DEF PlaceInv, Told
<1>3. asserted \subseteq inp.nodes
  BY GapRuns
<1>4. /\ vp.row = verdict.row /\ vp.type = derive_report_type(emit_verification(asserted))
      /\ vp.culprits = ByTime(wrong \cap asserted) \o ByTime(asserted \ wrong)
      /\ vn.row = verdict.row /\ vn.type = type /\ vn.culprits = verdict.culprits
  BY DEF NoVerdict
<1> HIDE DEF gaps, asserted, wrong, vp, vn
<1>5. ASSUME promoted
      PROVE  /\ AreNamed(vp.culprits) /\ vp.type = "verification_gap"
             /\ verdict.row # "multi"
             /\ candidates # << >> => verdict.row = "unlocalized" /\ Undefended
  <2>1. vp.type = "verification_gap"
    BY <1>4, <1>5, GapType
  <2>2. AreNamed(vp.culprits)
    <3>1. AreRuns(inp.nodes)
      BY <1>2, SupersOf
    <3> QED
      BY <1>3, <1>4, <3>1, NamedByTime
  <2>3. ~Firm(verdict.defects)
    BY <1>5, FirmType DEF Soft
  <2> QED
    BY <1>2, <2>1, <2>2, <2>3 DEF Made
<1>6. \A d \in Candidates : candidates # << >>
  BY DEF Candidates
<1> DEFINE Reports(v) ==
      /\ AreNamed(v.culprits)
      /\ v.type \in ReportTypes \ {"none"} /\ v.row = verdict.row
      /\ v.type = "unclassified" => v.row \in {"nothing_measured", "unclassified"}
      /\ \A d \in Candidates :
            \/ ToSet(v.culprits) \cap cond.members[d.run] # {}
            \/ v.row = "unlocalized" /\ v.type = "verification_gap" /\ inp.breach[d.run] = {}
      /\ v.row = "multi" =>
            /\ candidates # << >> /\ DOMAIN v.culprits = DOMAIN candidates
            /\ \A i \in DOMAIN candidates : v.culprits[i] \in cond.members[candidates[i].run]
<1>7. ASSUME promoted PROVE Reports(vp)
  BY <1>4, <1>5, <1>6, <1>7 DEF Undefended, Breached, ReportTypes
<1>8. ASSUME ~promoted PROVE Reports(vn)
  <2>1. type \in ReportTypes \ {"none"} /\ ((\E d \in verdict.defects : d.kind \in Faults) => type # "unclassified")
    BY NeverNone
  <2> HIDE DEF type
  <2>2. type = "unclassified" => verdict.row \in {"nothing_measured", "unclassified"}
    BY <1>2, <2>1 DEF Made
  <2>3. AreNamed(verdict.culprits)
    BY <1>2 DEF Made
  <2>4. \A d \in Candidates : ToSet(verdict.culprits) \cap cond.members[d.run] # {}
    BY <1>2, <1>6 DEF Made, Accuses
  <2>5. verdict.row = "multi" =>
            /\ candidates # << >> /\ DOMAIN verdict.culprits = DOMAIN candidates
            /\ \A i \in DOMAIN candidates : verdict.culprits[i] \in cond.members[candidates[i].run]
    BY <1>2 DEF Made
  <2> QED
    BY <1>4, <2>1, <2>2, <2>3, <2>4, <2>5
<1>9. Reports(verdict')
  <2> HIDE DEF Reports, promoted
  <2> QED
    BY <1>1, <1>7, <1>8
<1> HIDE DEF type, promoted
<1>10. Reported'
  BY <1>1, <1>9 DEF Reported, OneEach, AreNamed, Candidates, Displaced
<1>11. (verdict.row)' = first_row' /\ Found' /\ IsTrace(inp)'
  BY <1>1, <1>2, <1>9, FoundStays
<1> QED
  BY <1>1, <1>10, <1>11 DEF PlaceInv, Rows, Told

(* Every pass keeps the invariant.                                             *)
LEMMA PlaceStep ==
  ASSUME PlaceInv, DOMAIN verdict = DOMAIN NoVerdict, [Next]_vars
  PROVE  PlaceInv'
<1>1. CASE Localize
  <2>1. Found'
    <3>1. inp' = inp /\ cond' = condense(inp.nodes, inp.edges)
          /\ candidates' = select_candidates(cond', inp)
      BY <1>1 DEF Localize
    <3>2. Graphed(cond', inp)
      BY <3>1, CondensedTrace DEF PlaceInv
    <3> QED
      BY <3>1, <3>2, Selection DEF Found
  <2>2. IsTrace(inp)' /\ pc' = "classify"
    BY <1>1 DEF Localize, PlaceInv
  <2> QED
    BY <2>1, <2>2 DEF PlaceInv, Rows, Told
<1>2. CASE Classify
  <2>1. pc = "classify" /\ pc' = first_row /\ inp' = inp /\ cond' = cond /\ candidates' = candidates
    BY <1>2 DEF Classify
  <2>2. Found /\ IsTrace(inp)
    BY <2>1 DEF PlaceInv
  <2>3. Found' /\ IsTrace(inp)' /\ first_row' = first_row
    BY <2>1, <2>2, FoundStays
  <2>4. pc' \in Rows /\ pc' \notin Told /\ pc' # "gaps"
    BY <2>1, FirstRowIs DEF Rows, Told
  <2> QED
    BY <2>1, <2>3, <2>4 DEF PlaceInv
<1>3. CASE \/ NothingMeasured \/ External \/ Loop
           \/ NearMissRow \/ UnlocalizedRow \/ CutPointRow
           \/ Multi \/ Fabrication \/ Composition \/ Unclassified
  BY <1>3, RowsPlace
<1>4. CASE VerificationGaps
  BY <1>4, GapsPlace
<1>5. CASE Escalate
  <2>1. /\ pc = "escalate" /\ pc' = "finish" /\ inp' = inp /\ cond' = cond /\ candidates' = candidates
        /\ verdict'.culprits = verdict.culprits /\ verdict'.row = verdict.row
        /\ verdict'.type = derive_escalation_records(verdict.type)
    BY <1>5 DEF Escalate, NoVerdict
  <2>2. /\ verdict.type \in ReportTypes \ {"none"} => verdict'.type \in ReportTypes \ {"none"}
        /\ verdict'.type = "unclassified" => verdict.type = "unclassified"
        /\ verdict.type = "verification_gap" => verdict'.type = "verification_gap"
    BY <2>1 DEF derive_escalation_records, ReportTypes
  <2>3. Found /\ IsTrace(inp) /\ verdict.row = first_row /\ Reported
    BY <2>1 DEF PlaceInv, Told
  <2>4. Found' /\ IsTrace(inp)' /\ first_row' = first_row /\ Candidates' = Candidates
    BY <2>1, <2>3, FoundStays
  <2>5. Reported'
    BY <2>1, <2>2, <2>3, <2>4 DEF Reported, OneEach, AreNamed, Displaced
  <2> QED
    BY <2>1, <2>3, <2>4, <2>5 DEF PlaceInv, Rows, Told
<1>6. CASE Finish
  <2>1. /\ pc = "finish" /\ pc' = "done" /\ inp' = inp /\ cond' = cond /\ candidates' = candidates
        /\ verdict'.culprits = verdict.culprits /\ verdict'.row = verdict.row
        /\ verdict'.type = verdict.type
    BY <1>6 DEF Finish, NoVerdict
  <2>3. Found /\ IsTrace(inp) /\ verdict.row = first_row /\ Reported
    BY <2>1 DEF PlaceInv, Told
  <2>4. Found' /\ IsTrace(inp)' /\ first_row' = first_row /\ Candidates' = Candidates
    BY <2>1, <2>3, FoundStays
  <2>5. Reported'
    BY <2>1, <2>3, <2>4 DEF Reported, OneEach, AreNamed, Displaced
  <2> QED
    BY <2>1, <2>3, <2>4, <2>5 DEF PlaceInv, Rows, Told
<1>7. CASE UNCHANGED vars
  <2>1. pc' = pc /\ inp' = inp /\ cond' = cond /\ candidates' = candidates /\ verdict' = verdict
    BY <1>7 DEF vars
  <2>2. (Found' <=> Found) /\ first_row' = first_row /\ Candidates' = Candidates
        /\ (Undefended' <=> Undefended)
    BY <2>1, FoundStays
  <2>3. Reported' <=> Reported
    BY <2>1, <2>2 DEF Reported, OneEach, AreNamed, Displaced
  <2>4. Made(verdict, verdict.row)' <=> Made(verdict, verdict.row)
    BY <2>1, <2>2 DEF Made, AreNamed, Accuses, Firm, Faults
  <2> QED
    BY <2>1, <2>2, <2>3, <2>4 DEF PlaceInv
<1> QED
  BY <1>1, <1>2, <1>3, <1>4, <1>5, <1>6, <1>7 DEF Next

(* For every trace and all settings: every pass of find_blame hands on a       *)
(* headline that accounts for all candidates, by the first row that applies,   *)
(* in a report of a known type.                                                *)
THEOREM EngineFinds == Spec => [](EngineInv /\ PlaceInv)
<1>1. Init => EngineInv /\ PlaceInv
  <2> SUFFICES ASSUME Init PROVE EngineInv /\ PlaceInv
    OBVIOUS
  <2>1. EngineInv
    BY NothingYet DEF Init, BadRows
  <2>2. pc = "localize" /\ inp \in Inputs
    BY DEF Init
  <2> QED
    BY <2>1, <2>2, InputsAssumption DEF PlaceInv, Rows, Told
<1>2. EngineInv /\ PlaceInv /\ [Next]_vars => (EngineInv /\ PlaceInv)'
  BY EngineStep, PlaceStep DEF EngineInv
<1> QED
  BY <1>1, <1>2, PTL DEF Spec

--------------------------------------------------------------------------------
(* What the passes promise.                                                    *)

(* The invariant names every primary fault ..                                  *)
LEMMA NamedAtEnd ==
  ASSUME PlaceInv
  PROVE  HardFaultNamed
<1> SUFFICES ASSUME Done, NEW s \in PrimaryFaults(cond, inp)
             PROVE  ToSet(verdict.culprits) \cap cond.members[s] # {} \/ Displaced(s)
  BY DEF HardFaultNamed
<1>1. Found /\ Reported
  BY DEF PlaceInv, Told, Done
<1>2. s \in RunsOf(candidates)
  BY <1>1 DEF Found, IsSelection
<1>3. PICK d \in Candidates : d.run = s
  BY <1>1, <1>2, CandidatesAre
<1> QED
  BY <1>1, <1>3 DEF Reported

(* .. names no two culprits of which one only inherited ..                     *)
LEMMA IndependentAtEnd ==
  ASSUME PlaceInv
  PROVE  CulpritsIndependent
<1> DEFINE U(i) == cond.exitOf[verdict.culprits[i]]
<1> SUFFICES ASSUME Done, verdict.row = "multi",
                    NEW i \in DOMAIN verdict.culprits, NEW j \in DOMAIN verdict.culprits,
                    U(j) \in Descendants(cond, U(i))
             PROVE  deterministic_defect(inp, U(j)) \/ deterministic_defect(inp, U(i))
  BY DEF CulpritsIndependent
<1>1. Found /\ OneEach
  BY DEF PlaceInv, Told, Done, Reported
<1>2. Graphed(cond, inp)
  BY <1>1 DEF Found
<1>3. ASSUME NEW k \in DOMAIN verdict.culprits
      PROVE  candidates[k] \in Candidates /\ U(k) = candidates[k].run
  <2>1. k \in DOMAIN candidates /\ verdict.culprits[k] \in cond.members[candidates[k].run]
    BY <1>1 DEF OneEach
  <2>2. candidates[k] \in Candidates
    BY <2>1 DEF Candidates
  <2>3. candidates[k].run \in Supers(cond)
    BY <1>1, <2>2, CandidatesAre DEF CandidateLike
  <2> QED
    BY <1>2, <2>1, <2>2, <2>3, MembersAre
<1>4. U(i) \in Ancestors(cond, U(j))
  BY <1>2, AncestorsOf
<1>5. {candidates[i].run, candidates[j].run} \cap HardFaults(cond, inp) # {}
  <2>1. candidates[i] \in ToSet(candidates) /\ candidates[j] \in ToSet(candidates)
    BY <1>1, <1>3, CandidatesAre
  <2> QED
    BY <1>1, <1>3, <1>4, <2>1 DEF Found, IsSelection
<1> QED
  BY <1>3, <1>5 DEF HardFaults

(* (A super-node with two members is a cycle.)                                 *)
LEMMA TwoMembers ==
  ASSUME NEW c, NEW s, IsFiniteSet(c.members[s]),
         NEW m \in c.members[s], NEW n \in c.members[s], m # n
  PROVE  IsCycle(c, s)
<1> DEFINE M == c.members[s]
           O == {m}
<1>1. IsFiniteSet(O) /\ Cardinality(O) = 1 /\ n \notin O
  BY FS_Singleton
<1>2. IsFiniteSet(O \cup {n}) /\ Cardinality(O \cup {n}) = 2
  <2> HIDE DEF O
  <2>1. /\ IsFiniteSet(O \cup {n})
        /\ Cardinality(O \cup {n}) = IF n \in O THEN Cardinality(O) ELSE Cardinality(O) + 1
    BY <1>1, FS_AddElement
  <2> QED
    BY <1>1, <2>1
<1>3. O \cup {n} \subseteq M
  OBVIOUS
<1> HIDE DEF M, O
<1>4. Cardinality(O \cup {n}) <= Cardinality(M) /\ Cardinality(M) \in Nat
  BY <1>3, FS_Subset, FS_CardinalityType DEF M
<1> QED
  BY <1>2, <1>4 DEF IsCycle, M

(* Where every run was measured and no flawed input excuses one, a degraded *)
(* super-node that gives no candidate has one above it, or itself, that slid *)
(* below the bar. *)
LEMMA SlidSomewhere ==
  ASSUME Found, Scored = inp.nodes, inp.flawed = {}, candidates = << >>,
         NEW n \in inp.nodes, ~Healthy(inp, n)
  PROVE  \E s \in Supers(cond) : SlidBelow(s)
<1>0. Graphed(cond, inp) /\ IsTrace(inp)
  BY DEF Found, Graphed
<1>1. \A m \in inp.nodes : inp.score[m] \in 0..100 /\ inp.score[m] # Unknown
  BY <1>0 DEF Scored, IsTrace, Unknown
<1>2. \A m \in inp.nodes : Degraded(inp, m) <=> ~Healthy(inp, m)
  <2> TAKE m \in inp.nodes
  <2>1. inp.score[m] \in 0..100 /\ Threshold \in 1..99
    BY <1>1, ConfigAssumption
  <2>2. ASSUME NEW v \in 0..100, NEW k \in 1..99
        PROVE  v \in 0..(k - 1) <=> ~(v >= k)
    OBVIOUS
  <2> QED
    BY <2>1, <2>2 DEF Degraded, Healthy
<1>3. /\ Supers(cond) \subseteq inp.nodes /\ AreRuns(Supers(cond))
      /\ cond.exitOf[n] \in Supers(cond) /\ n \in cond.members[cond.exitOf[n]]
  BY SupersOf
<1> DEFINE e == cond.exitOf[n]
           D == {s \in Supers(cond) : Degraded(inp, s)}
<1>4. CASE IsCycle(cond, e)
  BY <1>2, <1>3, <1>4 DEF SlidBelow
<1>5. CASE ~IsCycle(cond, e)
  <2>1. e \in cond.members[e] /\ IsFiniteSet(cond.members[e])
    BY <1>0, <1>3, MembersAre DEF AreRuns
  <2>2. n = e
    BY <1>3, <1>5, <2>1, TwoMembers
  <2>3. D # {} /\ IsFiniteSet(D)
    <3>1. n \in D
      BY <1>2, <1>3, <2>2
    <3>2. IsFiniteSet(D)
      <4>1. D \subseteq Supers(cond) /\ IsFiniteSet(Supers(cond))
        BY <1>3 DEF AreRuns
      <4> HIDE DEF D
      <4> QED
        BY <4>1, FS_Subset
    <3> QED
      BY <3>1, <3>2
  <2>4. PICK L : Ordered(L, cond)
    BY <1>0 DEF Graphed
  <2>5. \A x \in D : <<x, x>> \notin L
    BY <2>4 DEF Ordered
  <2>6. \A x, y, z \in D : <<x, y>> \in L /\ <<y, z>> \in L => <<x, z>> \in L
    BY <2>4 DEF Ordered, Transitive
  <2>7. PICK s \in D : \A y \in D : <<y, s>> \notin L
    <3> HIDE DEF D
    <3> QED
      BY <2>3, <2>5, <2>6, Minimal
  <2>8. s \in Supers(cond) /\ Degraded(inp, s) /\ s \in inp.nodes
    BY <1>3, <2>7
  <2>9. s \in Accountable(cond, inp)
    BY <1>1, <2>8 DEF Accountable, cleared_by_flawed_input
  <2>10. DropOrigins(cond, inp) \cup Boundaries(cond, inp) = {}
    BY DEF Found, IsSelection
  <2>11. ~observed_drop(cond, inp, s) /\ KnownPreds(cond, inp, s) # {}
    BY <2>8, <2>9, <2>10 DEF DropOrigins, Boundaries
  <2>12. ASSUME NEW p \in Preds(cond.dag, s)
         PROVE  p \in inp.nodes /\ Healthy(inp, p)
    <3>1. <<p, s>> \in cond.dag /\ cond.dag \subseteq Supers(cond) \X Supers(cond)
      <4>1. cond.dag \subseteq Supers(cond) \X Supers(cond)
        BY <1>0 DEF Graphed, Condensation
      <4> QED
        BY <4>1 DEF Preds
    <3>2. <<p, s>> \in L /\ p \in Supers(cond)
      BY <2>4, <3>1 DEF Ordered
    <3>3. p \notin D
      BY <2>7, <3>2
    <3> QED
      BY <1>2, <1>3, <3>2, <3>3
  <2>13. InputsHealthy(cond, inp, s)
    <3> DEFINE K == KnownPreds(cond, inp, s)
    <3>1. K \subseteq {Unknown} \cup 0..100 /\ \A v \in K : v >= Threshold
      BY <1>1, <2>12 DEF KnownPreds, Known, Healthy
    <3>2. K # {}
      BY <2>11
    <3>3. Min(K) \in K
      <4> HIDE DEF K
      <4> QED
        BY <3>1, <3>2, Scores, MinIn
    <3> QED
      BY <3>1, <3>2, <3>3 DEF InputsHealthy
  <2> QED
    BY <2>8, <2>11, <2>13 DEF SlidBelow
<1> QED
  BY <1>4, <1>5

(* .. and leaves a bad deliverable unexplained only for what slid below the    *)
(* thresholds.                                                                 *)
LEMMA NotSilentAtEnd ==
  ASSUME PlaceInv
  PROVE  BadNeverSilent
<1> SUFFICES ASSUME Done, terminal_bad, inp.nodes # {}, Scored = inp.nodes, inp.flawed = {},
                    verdict.type = "unclassified"
             PROVE  \E s \in Supers(cond) : SlidBelow(s)
  BY DEF BadNeverSilent
<1>1. Found /\ first_row \in {"nothing_measured", "unclassified"}
  BY DEF PlaceInv, Told, Done, Reported
<1>2. candidates = << >>
  BY <1>1, RowChosen
<1>3. ~quality_unmeasured
  BY DEF quality_unmeasured, Scored
<1>4. first_row = "unclassified"
  BY <1>1, <1>3 DEF first_row
<1>5. ~EveryScoreHealthy
  BY <1>4 DEF first_row
<1>6. hidden_unscored = {}
  BY DEF hidden_unscored
<1>7. ~HadSignificantDrop(cond, inp)
  <2>1. DropOrigins(cond, inp) \cup InternalOrigins(cond, inp) = {}
    BY <1>1, <1>2 DEF Found, IsSelection
  <2>2. \A s \in Supers(cond) : inp.score[s] # Unknown => s \in Accountable(cond, inp)
    BY DEF Accountable, cleared_by_flawed_input
  <2> QED
    BY <2>1, <2>2 DEF HadSignificantDrop, DropOrigins
<1>8. PICK n \in Scored : ~Healthy(inp, n)
  BY <1>5, <1>6, <1>7 DEF EveryScoreHealthy
<1> QED
  BY <1>1, <1>2, <1>8, SlidSomewhere

(* (cutpoint.py:_deterministic_origins, the rows of find_blame) For every      *)
(* trace: a failed check or a contract violation that began at a run, and      *)
(* that no flawed input excuses, puts the run or one from the same cycle       *)
(* among the culprits, unless row 4b localized it and a verifier took its      *)
(* place.                                                                      *)
THEOREM HardFaultsAreNamed == Spec => []HardFaultNamed
BY EngineFinds, NamedAtEnd, PTL

(* (_analyze, the shadowing, and the drills of row 5) For every trace: of      *)
(* two culprits of one report neither is below the other, unless there is      *)
(* hard evidence at one of the two cycles.                                     *)
THEOREM CulpritsAreIndependent == Spec => []CulpritsIndependent
BY EngineFinds, IndependentAtEnd, PTL

(* (rows 5b, 6 and 7, _collect_verification_gaps) For every trace, all of      *)
(* whose runs were measured and none excused: a bad deliverable is answered    *)
(* with "unclassified" only where quality was lost below the thresholds at     *)
(* some first run.                                                             *)
THEOREM BadIsNeverSilent == Spec => []BadNeverSilent
BY EngineFinds, NotSilentAtEnd, PTL

(* The path of a report is drawn from its first culprit.                       *)
PathTrue ==
  pc = "done" /\ verdict.culprits # << >> =>
    verdict.path = propagation_path(cond, inp.score, flagged_bad, verdict.culprits[1])

(* Every pass keeps that.                                                      *)
LEMMA PathStep ==
  ASSUME EngineInv, PathTrue, [Next]_vars
  PROVE  PathTrue'
<1>1. CASE Finish
  <2>1. /\ verdict'.culprits = verdict.culprits
        /\ verdict'.path = IF verdict.culprits = << >> THEN << >>
                           ELSE propagation_path(cond, inp.score, flagged_bad, verdict.culprits[1])
    BY <1>1 DEF Finish, EngineInv, NoVerdict
  <2>2. cond' = cond /\ inp' = inp
    BY <1>1 DEF Finish
  <2>3. flagged_bad' = flagged_bad
    BY <2>2 DEF flagged_bad
  <2> QED
    BY <2>1, <2>2, <2>3 DEF PathTrue
<1>2. CASE Next /\ ~Finish
  <2>1. pc' # "done"
    BY <1>2 DEF Next, Localize, Classify, first_row, NothingMeasured, External, Loop,
         NearMissRow, UnlocalizedRow, CutPointRow, Multi, Fabrication, Composition,
         Unclassified, Decide, VerificationGaps, Escalate
  <2> QED
    BY <2>1 DEF PathTrue
<1>3. CASE UNCHANGED vars
  BY <1>3 DEF vars, PathTrue, flagged_bad
<1> QED
  BY <1>1, <1>2, <1>3

(* And such a path leads to a sink.                                            *)
LEMMA PathIsWay ==
  ASSUME PlaceInv, PathTrue, Done, verdict.culprits # << >>
  PROVE  \E v \in sinks(cond) :
            IsWay(verdict.path, cond, cond.exitOf[verdict.culprits[1]], v)
<1> DEFINE p == verdict.path
           n == verdict.culprits[1]
<1>1. Graphed(cond, inp) /\ AreNamed(verdict.culprits)
  BY DEF PlaceInv, Told, Done, Reported, Found
<1>2. n \in cond.nodes
  <2>1. Listed(verdict.culprits) /\ ToSet(verdict.culprits) \subseteq inp.nodes /\ cond.nodes = inp.nodes
    BY <1>1 DEF AreNamed, Graphed
  <2>2. DOMAIN verdict.culprits = 1..Len(verdict.culprits) /\ Len(verdict.culprits) \in Nat
    BY <2>1, ListedDomain
  <2>3. Len(verdict.culprits) # 0
    BY <2>1, <2>2 DEF Listed
  <2>4. 1 \in DOMAIN verdict.culprits
    BY <2>2, <2>3
  <2> QED
    BY <2>1, <2>4 DEF ToSet
<1>3. p = propagation_path(cond, inp.score, flagged_bad, n) /\ flagged_bad \in BOOLEAN
  BY DEF PathTrue, Done, flagged_bad
<1>4. PICK v \in sinks(cond) :
         IsWay(propagation_path(cond, inp.score, flagged_bad, n), cond, cond.exitOf[n], v)
  BY <1>1, <1>2, <1>3, PathLeads
<1> QED
  BY <1>3, <1>4

(* Which is what the report promises of it.                                    *)
LEMMA PathAtEnd ==
  ASSUME PlaceInv, PathTrue
  PROVE  PathReachesSink
<1> SUFFICES ASSUME Done, verdict.culprits # << >>
             PROVE  LET p == verdict.path
                    IN  /\ p[1] = cond.exitOf[verdict.culprits[1]]
                        /\ Last(p) \in sinks(cond)
                        /\ \A i \in 1..(Len(p) - 1) : <<p[i], p[i + 1]>> \in cond.dag
  BY DEF PathReachesSink
<1> DEFINE p == verdict.path
           n == verdict.culprits[1]
<1>1. PICK v \in sinks(cond) : IsWay(p, cond, cond.exitOf[n], v)
  BY PathIsWay
<1> HIDE DEF p, n
<1>2. p[1] = cond.exitOf[n] /\ p[Len(p)] = v /\ \A i \in 1..(Len(p) - 1) : <<p[i], p[i + 1]>> \in cond.dag
  BY <1>1 DEF IsWay
<1>3. Last(p) = v
  BY <1>2 DEF Last
<1> QED
  BY <1>1, <1>2, <1>3 DEF p, n

(* (propagation_path, _best_path) For every trace: the path of a report        *)
(* leads over edges from the super-node of its first culprit to a sink,        *)
(* whatever the ties between equally short paths.                              *)
THEOREM PathsReachSinks == Spec => []PathReachesSink
<1>1. Init => PathTrue
  BY DEF Init, PathTrue
<1>2. EngineInv /\ PathTrue /\ [Next]_vars => PathTrue'
  BY PathStep
<1>3. PlaceInv /\ PathTrue => PathReachesSink
  BY PathAtEnd
<1> QED
  BY <1>1, <1>2, <1>3, EngineFinds, PTL DEF Spec

--------------------------------------------------------------------------------
(* Nobody is accused without cause.                                            *)

(* What there is against a run before the verdicts of the verifiers are        *)
(* looked at.                                                                  *)
Against(n) ==
  \/ Degraded(inp, n)
  \/ n \in inp.flags \cup inp.flawed
  \/ n \in UNION {cond.members[s] : s \in Runaway}
  \/ \E m \in inp.nodes : <<m, n>> \in cond.graph /\ DeclinesFrom(m, n)
  \/ BelowInputOfCycle(n)
  \/ deterministic_defect(inp, n)
  \/ \E m \in cond.members[cond.exitOf[n]] : deterministic_defect(inp, m)

(* Hard evidence at the exit of a cycle speaks against each of its members.    *)
LEMMA HardAgainst ==
  ASSUME Found, NEW s \in HardFaults(cond, inp), NEW n \in cond.members[s]
  PROVE  Against(n)
<1>1. s \in Supers(cond) /\ deterministic_defect(inp, s)
  BY DEF HardFaults
<1>2. s \in cond.members[s] /\ cond.exitOf[n] = s
  BY <1>1, MembersAre DEF Found
<1> QED
  BY <1>1, <1>2 DEF Against

(* What speaks against the exit of a cycle speaks against a member that        *)
(* scored no better.                                                           *)
LEMMA ExitAgainst ==
  ASSUME Found, NEW s \in Supers(cond), NEW n \in cond.members[s],
         inp.score[s] # Unknown, inp.score[n] # Unknown, inp.score[n] <= inp.score[s],
         Degraded(inp, s) \/ \E p \in Preds(cond.dag, s) : Falls(inp, p, s)
  PROVE  Against(n)
<1>0. Graphed(cond, inp)
  BY DEF Found
<1>1. s \in inp.nodes /\ n \in inp.nodes /\ cond.exitOf[n] = s
  BY <1>0, MembersAre
<1>2. inp.score[s] \in 0..100 /\ inp.score[n] \in 0..100
  BY <1>0, <1>1 DEF Graphed, IsTrace
<1>3. CASE Degraded(inp, s)
  <2>1. Threshold \in 1..99
    BY ConfigAssumption
  <2>2. Degraded(inp, n)
    BY <1>2, <1>3, <2>1 DEF Degraded
  <2> QED
    BY <2>2 DEF Against
<1>4. CASE \E p \in Preds(cond.dag, s) : Falls(inp, p, s)
  <2>1. PICK p \in Preds(cond.dag, s) : Falls(inp, p, s)
    BY <1>4
  <2> DEFINE least == Min({CumStep, GapThreshold, MinDrop})
             x == inp.score[p]
             y == inp.score[s]
             z == inp.score[n]
  <2>2. p \in inp.nodes
    <3>1. cond.dag \subseteq Supers(cond) \X Supers(cond) /\ Supers(cond) \subseteq inp.nodes
      BY <1>0, DagEdges, SupersOf DEF Graphed
    <3> DEFINE A == Supers(cond)
               E == cond.dag
    <3>2. E \subseteq A \X A /\ p \in Preds(E, s)
      BY <3>1
    <3> HIDE DEF A, E
    <3>3. p \in A
      BY <3>2, Neighbours
    <3> QED
      BY <3>1, <3>3 DEF A
  <2>3. x \in Int /\ y \in Int /\ z \in Int /\ least \in Int
    <3>1. x \in {Unknown} \cup 0..100
      BY <1>0, <2>2 DEF Graphed, IsTrace
    <3>2. least \in Int
      BY LeastDrop
    <3> HIDE DEF least
    <3> QED
      BY <1>2, <3>1, <3>2, Scores
  <2>4. x - y >= least /\ z <= y /\ x # Unknown
    BY <2>1 DEF Falls
  <2> HIDE DEF x, y, z, least
  <2>5. x - z >= least
    BY <2>3, <2>4
  <2>6. DeclinesFrom(p, n)
    BY <2>4, <2>5 DEF DeclinesFrom, x, z, least
  <2>7. BelowInputOfCycle(n)
    BY <1>1, <2>6 DEF BelowInputOfCycle
  <2> QED
    BY <2>7 DEF Against
<1> QED
  BY <1>3, <1>4

(* What speaks against a member that an origin inside a cycle names.           *)
LEMMA MemberAgainst ==
  ASSUME Found, NEW n \in inp.nodes,
         Degraded(inp, n) \/ \E p \in Preds(cond.graph, n) : Falls(inp, p, n)
  PROVE  Against(n)
<1>1. CASE Degraded(inp, n)
  BY <1>1 DEF Against
<1>2. CASE \E p \in Preds(cond.graph, n) : Falls(inp, p, n)
  <2>1. PICK p \in Preds(cond.graph, n) : Falls(inp, p, n)
    BY <1>2
  <2> DEFINE A == inp.nodes
             E == cond.graph
  <2>2. E \subseteq A \X A /\ p \in Preds(E, n)
    BY DEF Found, Graphed, Condensation
  <2> HIDE DEF A, E
  <2>3. p \in A /\ <<p, n>> \in E
    BY <2>2, Neighbours
  <2>4. DeclinesFrom(p, n)
    BY <2>1 DEF Falls, DeclinesFrom
  <2> QED
    BY <2>3, <2>4 DEF Against, A, E
<1> QED
  BY <1>1, <1>2

(* The worst of the scored members scored no better than a scored exit.        *)
LEMMA WorstScore ==
  ASSUME Found, NEW s \in Supers(cond), inp.score[s] # Unknown,
         NEW worst,
         worst = {m \in cond.members[s] \cap Scored :
                    \A x \in cond.members[s] \cap Scored : inp.score[m] <= inp.score[x]}
  PROVE  /\ Min(worst) \in cond.members[s] /\ inp.score[Min(worst)] # Unknown
         /\ inp.score[Min(worst)] <= inp.score[s]
<1> DEFINE members == cond.members[s]
           scored == members \cap Scored
           V == {inp.score[x] : x \in scored}
<1>1. s \in members /\ AreRuns(members) /\ members \subseteq inp.nodes /\ s \in Scored
  BY MembersAre DEF Found, Scored
<1>2. V \subseteq {Unknown} \cup 0..100 /\ V # {}
  BY <1>1 DEF Found, Graphed, IsTrace
<1>3. Min(V) \in V /\ \A y \in V : Min(V) <= y
  <2> HIDE DEF V
  <2> QED
    BY <1>2, Scores, MinIn
<1>4. worst # {}
  <2>1. PICK x \in scored : inp.score[x] = Min(V)
    BY <1>3
  <2>2. \A y \in scored : inp.score[x] <= inp.score[y]
    BY <1>3, <2>1
  <2> QED
    BY <2>1, <2>2
<1>5. worst \subseteq scored /\ \A m \in worst : inp.score[m] <= inp.score[s]
  BY <1>1
<1>6. IsFiniteSet(worst) /\ worst \subseteq Int
  <2>1. worst \subseteq members /\ IsFiniteSet(members) /\ members \subseteq Nat
    BY <1>1, <1>5 DEF AreRuns
  <2> HIDE DEF members, scored
  <2>2. IsFiniteSet(worst)
    BY <2>1, FS_Subset
  <2>3. ASSUME NEW m \in worst PROVE m \in Int
    <3>1. m \in members
      BY <2>1
    <3>2. m \in Nat
      BY <2>1, <3>1
    <3> QED
      BY <3>2
  <2> QED
    BY <2>2, <2>3
<1>7. Min(worst) \in worst
  BY <1>4, <1>6, MinIn
<1> QED
  BY <1>5, <1>7 DEF Scored

(* Whichever run a row names for a candidate, there is something against it:   *)
(* the culprit that _drill_into_loop finds, the one that _resolve_culprit      *)
(* finds, and the run of a near miss.                                          *)
LEMMA CandidateAgainst ==
  ASSUME Found, NEW d, CandidateLike(d, cond, inp)
  PROVE  /\ Against(drill(d).culprit) /\ Against(Resolve(d).culprit)
         /\ Against(IF d.member # Unknown THEN d.member ELSE d.run)
<1> DEFINE s == d.run
           r == drill(d).culprit
           w == Resolve(d).culprit
           n == IF d.member # Unknown THEN d.member ELSE s
           worst == {m \in cond.members[s] \cap Scored :
                       \A x \in cond.members[s] \cap Scored : inp.score[m] <= inp.score[x]}
<1>1. s \in Supers(cond) /\ s \in cond.members[s] /\ cond.members[s] \subseteq inp.nodes
  BY MembersAre DEF Found, CandidateLike
<1>2. r \in cond.members[s] /\ w \in cond.members[s] /\ n \in cond.members[s]
  BY <1>1, Drilled, Resolved DEF Found, CandidateLike
<1>3. CASE d.via # "content"
  <2>1. s \in HardFaults(cond, inp)
    BY <1>3 DEF CandidateLike
  <2> HIDE DEF r, w, n, s
  <2>2. Against(r) /\ Against(w) /\ Against(n)
    BY <1>2, <2>1, HardAgainst
  <2> QED
    BY <2>2 DEF r, w, n, s
<1>4. CASE d.via = "content"
  <2>1. r = CASE cond.members[s] \cap Scored = {} \/ ~IsCycle(cond, s) -> s
              [] d.member \in cond.members[s] \cap Scored /\ IsCycle(cond, s) -> d.member
              [] OTHER -> Min(worst)
    BY DEF drill
  <2>2. w = IF IsCycle(cond, s) /\ d.via = "content"
                 /\ (drill(d).drop # Unknown \/ d.member # Unknown)
            THEN r ELSE s
    BY DEF Resolve
  <2>3. Unknown \notin inp.nodes
    BY DEF Found, Graphed, IsTrace, Unknown
  <2>4. Grounded(d, cond, inp)
    BY <1>4 DEF CandidateLike
  <2>5. CASE /\ d.member = Unknown /\ inp.score[s] # Unknown
             /\ Degraded(inp, s) \/ \E p \in Preds(cond.dag, s) : Falls(inp, p, s)
    <3>1. \A x \in cond.members[s] :
            inp.score[x] # Unknown /\ inp.score[x] <= inp.score[s] => Against(x)
      BY <1>1, <2>5, ExitAgainst
    <3>2. Against(s)
      <4>1. inp.score[s] <= inp.score[s]
        <5>1. inp.score[s] \in 0..100
          BY <1>1, <2>5 DEF Found, Graphed, IsTrace
        <5> QED
          BY <5>1
      <4> QED
        BY <1>1, <2>5, <3>1, <4>1
    <3>3. Against(Min(worst))
      <4> HIDE DEF worst
      <4>1. /\ Min(worst) \in cond.members[s] /\ inp.score[Min(worst)] # Unknown
            /\ inp.score[Min(worst)] <= inp.score[s]
        BY <1>1, <2>5, WorstScore DEF worst
      <4> QED
        BY <3>1, <4>1
    <3>4. d.member \notin cond.members[s]
      BY <1>1, <2>3, <2>5
    <3> HIDE DEF worst, r, w, s
    <3>5. r \in {s, Min(worst)}
      BY <2>1, <3>4
    <3>6. w \in {s, r} /\ n = s
      BY <2>2, <2>5
    <3> HIDE DEF n
    <3>7. Against(r) /\ Against(w) /\ Against(n)
      BY <3>2, <3>3, <3>5, <3>6
    <3> QED
      BY <3>7 DEF r, w, n, s
  <2>6. CASE /\ d.member \in cond.members[s] /\ IsCycle(cond, s) /\ inp.score[d.member] # Unknown
             /\ \/ Degraded(inp, d.member)
                \/ \E p \in Preds(cond.graph, d.member) : Falls(inp, p, d.member)
    <3>1. d.member \in inp.nodes /\ d.member # Unknown /\ d.member \in Scored
      BY <1>1, <2>3, <2>6 DEF Scored
    <3>2. Against(d.member)
      BY <2>6, <3>1, MemberAgainst
    <3> HIDE DEF worst, r, w, s
    <3>3. r = d.member
      BY <2>1, <2>6, <3>1
    <3>4. w = r /\ n = d.member
      BY <1>4, <2>2, <2>6, <3>1
    <3> HIDE DEF n
    <3>5. Against(r) /\ Against(w) /\ Against(n)
      BY <3>2, <3>3, <3>4
    <3> QED
      BY <3>5 DEF r, w, n, s
  <2> QED
    BY <2>4, <2>5, <2>6 DEF Grounded
<1> QED
  BY <1>3, <1>4

(* Every fault that the defects localize is localized at such a run.           *)
Caused(defects) == \A d \in defects : d.origin = "Localized" => Against(d.run)

(* The invariant of the defects: after the verification gaps the verdict of    *)
(* a verifier may be all there is against it.                                  *)
CauseInv ==
  /\ pc = "gaps" => Caused(verdict.defects)
  /\ pc \in Told =>
       \A d \in verdict.defects :
          d.origin = "Localized" => Against(d.run) \/ \E g \in verdict.gaps : g.run = d.run

(* A defect made for a run is about that run.                                  *)
NamesRun(d, run) == d.run = run

LEMMA ContractRun ==
  ASSUME NEW run, NEW attribution, NEW marker
  PROVE  NamesRun(contract_defect(run, attribution, marker), run)
BY DEF contract_defect, Defect, NamesRun

LEMMA ContentRun ==
  ASSUME NEW drops, NEW run, NEW recovered, NEW attribution
  PROVE  NamesRun(content_defect(drops, run, recovered, attribution), run)
BY DEF content_defect, Defect, NamesRun

(* The defects of several culprits ..                                          *)
LEMMA CausedMulti ==
  ASSUME NEW drops, NEW culprits, \A n \in culprits : Against(n)
  PROVE  Caused(emit_multi(drops, culprits))
<1> SUFFICES ASSUME NEW d \in emit_multi(drops, culprits) PROVE Against(d.run)
  BY DEF Caused
<1>1. \/ \E c \in culprits : d = contract_defect(c, Unknown, ~terminal_bad)
      \/ \E c \in culprits : d = content_defect(drops, c, FALSE, Unknown)
  BY DEF emit_multi
<1>2. \E c \in culprits : NamesRun(d, c)
  BY <1>1, ContractRun, ContentRun
<1> QED
  BY <1>2 DEF NamesRun

(* .. of one ..                                                                *)
LEMMA CausedOne ==
  ASSUME NEW drops, NEW run, NEW a, NEW b, Against(run)
  PROVE  /\ Caused(emit_cut_point(drops, run, a, b))
         /\ Caused(emit_degraded_recovered(drops, run, a, b))
<1>1. ASSUME NEW d \in emit_cut_point(drops, run, a, b) PROVE NamesRun(d, run)
  <2>1. \/ d = contract_defect(run, a, ~EmitsContent(run))
        \/ d = content_defect(drops, run, FALSE, b)
    BY DEF emit_cut_point
  <2> QED
    BY <2>1, ContractRun, ContentRun
<1>2. ASSUME NEW d \in emit_degraded_recovered(drops, run, a, b) PROVE NamesRun(d, run)
  <2>1. d \in {contract_defect(run, a, TRUE), content_defect(drops, run, TRUE, b)}
    BY DEF emit_degraded_recovered
  <2> QED
    BY <2>1, ContractRun, ContentRun
<1> QED
  BY <1>1, <1>2 DEF Caused, NamesRun

(* .. of the origin of row 4b, which is accused of a contract violation only   *)
(* ..                                                                          *)
LEMMA CausedUnlocalized ==
  ASSUME NEW run
  PROVE  Caused(emit_terminal_unlocalized(run))
<1> DEFINE x == contract_defect(run, DETERMINISTIC_ATTRIBUTION, TRUE)
<1> SUFFICES ASSUME NEW d \in emit_terminal_unlocalized(run), d.origin = "Localized"
             PROVE  Against(d.run)
  BY DEF Caused
<1>1. NamesRun(x, run)
  BY ContractRun
<1>2. \A e \in emit_composition : e.origin = "Unlocalized"
  BY DEF emit_composition, Defect
<1>3. Breached(run) /\ d = x
  BY <1>2 DEF emit_terminal_unlocalized
<1>4. Against(run)
  BY <1>3 DEF Against, Breached, deterministic_defect
<1> HIDE DEF x
<1> QED
  BY <1>1, <1>3, <1>4 DEF NamesRun

(* .. and those that localize nothing.                                         *)
LEMMA CausedElse ==
  ASSUME NEW run
  PROVE  Caused(emit_external({}, run)) /\ Caused(emit_composition) /\ Caused({})
BY DEF Caused, emit_external, emit_composition, Defect

(* Row 3 makes a defect of a run in a runaway cycle, and of the origins        *)
(* elsewhere.                                                                  *)
LEMMA LoopDefects ==
  ASSUME Found, Runaway # {},
         candidates # << >> => Runaway \cap RunsOf(candidates) # {}
  PROVE  \E s \in Runaway : \E x \in cond.members[s] : \E drops, S :
            /\ looped.defects = emit_loop(x) \cup emit_multi(drops, S)
            /\ \A n \in S : \E d \in Candidates : n = Resolve(d).culprit
<1> DEFINE named == Runaway \cap RunsOf(candidates)
           S == IF named # {} THEN named ELSE Runaway
           s == FirstIn(cond.topo, S)
           again == repeating(cond, inp, s)
           blamed == IF again # {} THEN again ELSE cond.members[s]
           others == Select(candidates, {c \in Candidates : c.run # s})
           else == CulpritsOf(others)
<1>1. Runaway \subseteq Supers(cond)
  BY DEF Runaway, anomalies
<1>2. s \in Runaway /\ s \in Supers(cond)
  <2>1. S \subseteq Supers(cond) /\ S # {} /\ S \subseteq Runaway
    BY <1>1
  <2> HIDE DEF S
  <2> QED
    BY <2>1, SupersOf, ListedFirst
<1>3. PICK drops : looped.defects = emit_loop(Min(blamed)) \cup emit_multi(drops, ToSet(else))
  BY DEF looped, NoVerdict, CulpritsOf
<1> HIDE DEF s, S, named
<1>4. s \in cond.members[s] /\ AreRuns(cond.members[s])
  BY <1>2, MembersAre DEF Found
<1>5. blamed \subseteq cond.members[s] /\ blamed # {}
  BY <1>4, Repeated
<1> HIDE DEF blamed
<1>6. Min(blamed) \in cond.members[s]
  <2>1. IsFiniteSet(blamed)
    BY <1>4, <1>5, FS_Subset DEF AreRuns
  <2>2. cond.members[s] \subseteq Nat
    BY <1>4 DEF AreRuns
  <2>3. blamed \subseteq Int
    BY <2>2, <1>5
  <2>4. Min(blamed) \in blamed
    BY <2>1, <2>3, <1>5, MinIn
  <2> QED
    BY <2>4, <1>5
<1>7. /\ Candidates = ToSet(candidates) /\ Listed(candidates)
      /\ \A d \in Candidates : CandidateLike(d, cond, inp)
  BY CandidatesAre
<1>8. Listed(others) /\ ToSet(others) \subseteq Candidates
  <2> DEFINE X == {c \in Candidates : c.run # s}
  <2>1. X \subseteq Candidates
    OBVIOUS
  <2> HIDE DEF X
  <2>2. Listed(Select(candidates, X)) /\ ToSet(Select(candidates, X)) = ToSet(candidates) \cap X
    BY <1>7, ListedSelect
  <2> QED
    BY <2>1, <2>2 DEF X
<1> HIDE DEF others
<1>9. ToSet(else) = {Resolve(d).culprit : d \in ToSet(others)}
  BY <1>8, CulpritList
<1>10. \A n \in ToSet(else) : \E d \in Candidates : n = Resolve(d).culprit
  <2> TAKE n \in ToSet(else)
  <2> HIDE DEF else
  <2>1. PICK d \in ToSet(others) : n = Resolve(d).culprit
    BY <1>9
  <2> QED
    BY <2>1, <1>8
<1> HIDE DEF else
<1> QED
  BY <1>2, <1>3, <1>6, <1>10

(* It accuses attempts in that cycle, and the origins.                         *)
LEMMA CausedLoop ==
  ASSUME Found, Runaway # {},
         candidates # << >> => Runaway \cap RunsOf(candidates) # {}
  PROVE  Caused(looped.defects)
<1>1. PICK s \in Runaway : \E x \in cond.members[s] : \E drops, S :
         /\ looped.defects = emit_loop(x) \cup emit_multi(drops, S)
         /\ \A n \in S : \E d \in Candidates : n = Resolve(d).culprit
  BY LoopDefects
<1>2. PICK x \in cond.members[s] : \E drops, S :
         /\ looped.defects = emit_loop(x) \cup emit_multi(drops, S)
         /\ \A n \in S : \E d \in Candidates : n = Resolve(d).culprit
  BY <1>1
<1>3. PICK drops, S :
         /\ looped.defects = emit_loop(x) \cup emit_multi(drops, S)
         /\ \A n \in S : \E d \in Candidates : n = Resolve(d).culprit
  BY <1>2
<1>4. Against(x)
  BY DEF Against
<1>5. \A d \in emit_loop(x) : d.run = x
  BY DEF emit_loop, Defect
<1>6. \A n \in S : Against(n)
  BY <1>3, CandidatesAre, CandidateAgainst
<1>7. Caused(emit_multi(drops, S))
  BY <1>6, CausedMulti
<1> QED
  BY <1>3, <1>4, <1>5, <1>7 DEF Caused

(* Rows 4a and 4c.                                                             *)
LEMMA CausedSingle ==
  ASSUME Found, Len(candidates) = 1
  PROVE  Caused(missed.defects) /\ Caused(cut.defects)
<1> DEFINE n == IF one.member # Unknown THEN one.member ELSE one.run
           r == drill(one).culprit
           m == Measured(r, drilled_one)
<1>1. Against(n) /\ Against(r)
  BY Single, CandidateAgainst
<1>2. \E c, confidence, tied, cycle, drops, a, b :
        missed = [Measured(n, c) EXCEPT
             !.confidence = confidence, !.tied = tied, !.cycle = cycle, !.drops = drops,
             !.defects = emit_degraded_recovered(drops, n, a, b)]
  BY ZenonT(60) DEF missed
<1>3. DOMAIN m = DOMAIN NoVerdict
  BY MeasuredCulprit
<1>4. \E drops, a, b : cut.defects = emit_cut_point(drops, r, a, b)
  <2> HIDE DEF m
  <2> QED
    BY <1>3 DEF cut, m, NoVerdict
<1> HIDE DEF n, r, m
<1>5. \E drops, a, b : missed.defects = emit_degraded_recovered(drops, n, a, b)
  BY <1>2, MeasuredCulprit DEF NoVerdict
<1> QED
  BY <1>1, <1>4, <1>5, CausedOne

(* A row whose defects have a cause keeps the invariant.                       *)
LEMMA CausedRows ==
  ASSUME NEW name \in Rows, NEW v, Decide(name, v), DOMAIN v = DOMAIN NoVerdict,
         Caused(v.defects)
  PROVE  CauseInv'
<1>1. inp' = inp /\ cond' = cond /\ pc' = "gaps" /\ verdict' = [v EXCEPT !.row = name]
  BY DEF Decide
<1> DEFINE w == [v EXCEPT !.row = name]
<1>2. w.defects = v.defects
  BY DEF NoVerdict, Rows
<1>3. verdict' = w
  BY <1>1
<1> HIDE DEF w
<1>4. \A n : Against(n)' <=> Against(n)
  BY <1>1 DEF Against, BelowInputOfCycle, DeclinesFrom, Runaway
<1>5. \A d \in v.defects : d.origin = "Localized" => Against(d.run)
  BY DEF Caused
<1>6. Caused(verdict.defects)'
  BY <1>2, <1>3, <1>4, <1>5 DEF Caused
<1> QED
  BY <1>1, <1>6 DEF CauseInv, Told

(* The defects of every row have one.                                          *)
LEMMA RowsCaused ==
  ASSUME PlaceInv,
         \/ NothingMeasured \/ External \/ Loop
         \/ NearMissRow \/ UnlocalizedRow \/ CutPointRow
         \/ Multi \/ Fabrication \/ Composition \/ Unclassified
  PROVE  CauseInv'
<1>0. \A name \in Rows : pc = name => Found /\ first_row = name
  BY DEF PlaceInv, Rows
<1>1. CASE NothingMeasured \/ Unclassified
  <2>1. NoVerdict.defects = {}
    BY DEF NoVerdict
  <2> QED
    BY <1>1, <2>1, CausedElse, CausedRows DEF NothingMeasured, Unclassified, Rows
<1>2. CASE External
  <2> DEFINE run == FirstIn(cond.topo, flawed_sources)
  <2>1. PICK confidence :
          Decide("external", [NoVerdict EXCEPT !.culprits = <<run>>,
                                !.defects = emit_external({}, run),
                                !.confidence = confidence])
    BY <1>2 DEF External
  <2> DEFINE v == [NoVerdict EXCEPT !.culprits = <<run>>, !.defects = emit_external({}, run),
                                    !.confidence = confidence]
  <2>2. v.defects = emit_external({}, run) /\ DOMAIN v = DOMAIN NoVerdict
    BY DEF NoVerdict
  <2>3. Decide("external", v)
    BY <2>1
  <2> HIDE DEF v
  <2> QED
    BY <2>2, <2>3, CausedElse, CausedRows DEF Rows
<1>3. CASE Loop
  <2>1. Decide("loop", looped) /\ pc = "loop"
    BY <1>3 DEF Loop, Decide
  <2>2. Caused(looped.defects)
    BY <1>0, <2>1, RowChosen, CausedLoop DEF Rows
  <2>3. DOMAIN looped = DOMAIN NoVerdict
    BY DEF looped, NoVerdict
  <2> QED
    BY <2>1, <2>2, <2>3, CausedRows DEF Rows
<1>4. CASE NearMissRow
  <2>1. Decide("near_miss", missed) /\ pc = "near_miss"
    BY <1>4 DEF NearMissRow, Decide
  <2>2. Caused(missed.defects)
    BY <1>0, <2>1, RowChosen, CausedSingle DEF Rows
  <2>3. \E run, c, confidence, tied, cycle, drops, a, b :
          missed = [Measured(run, c) EXCEPT
             !.confidence = confidence, !.tied = tied, !.cycle = cycle, !.drops = drops,
             !.defects = emit_degraded_recovered(drops, run, a, b)]
    BY ZenonT(60) DEF missed
  <2>4. DOMAIN missed = DOMAIN NoVerdict
    BY <2>3, MeasuredCulprit DEF NoVerdict
  <2> QED
    BY <2>1, <2>2, <2>4, CausedRows DEF Rows
<1>5. CASE UnlocalizedRow
  <2> DEFINE m == Measured(one.run, one)
             v == [m EXCEPT
                !.confidence = report_type_cap("terminal_defect_unlocalized"),
                !.drops = BuiltDrops,
                !.defects = emit_terminal_unlocalized(one.run)]
  <2>1. DOMAIN m = DOMAIN NoVerdict
    BY MeasuredCulprit
  <2>2. Decide("unlocalized", v)
    BY <1>5 DEF UnlocalizedRow
  <2> HIDE DEF m
  <2>3. v.defects = emit_terminal_unlocalized(one.run) /\ DOMAIN v = DOMAIN NoVerdict
    BY <2>1 DEF NoVerdict
  <2> HIDE DEF v
  <2>4. Caused(v.defects)
    BY <2>3, CausedUnlocalized
  <2> QED
    BY <2>2, <2>3, <2>4, CausedRows DEF Rows
<1>6. CASE CutPointRow
  <2>1. Decide("cut_point", cut) /\ pc = "cut_point"
    BY <1>6 DEF CutPointRow, Decide
  <2>2. Caused(cut.defects)
    BY <1>0, <2>1, RowChosen, CausedSingle DEF Rows
  <2> DEFINE m == Measured(drill(one).culprit, drilled_one)
  <2>3. DOMAIN m = DOMAIN NoVerdict
    BY MeasuredCulprit
  <2>4. DOMAIN cut = DOMAIN NoVerdict
    <3> HIDE DEF m
    <3> QED
      BY <2>3 DEF cut, m, NoVerdict
  <2> QED
    BY <2>1, <2>2, <2>4, CausedRows DEF Rows
<1>7. CASE Multi
  <2>1. PICK drops, cycle, measured, confidence :
          Decide("multi", [NoVerdict EXCEPT
             !.culprits = CulpritsOf(candidates), !.drops = drops, !.cycle = cycle,
             !.measured = measured,
             !.defects = emit_multi(drops, ToSet(CulpritsOf(candidates))),
             !.confidence = confidence])
    BY <1>7 DEF Multi, CulpritsOf
  <2> DEFINE v == [NoVerdict EXCEPT
             !.culprits = CulpritsOf(candidates), !.drops = drops, !.cycle = cycle,
             !.measured = measured,
             !.defects = emit_multi(drops, ToSet(CulpritsOf(candidates))),
             !.confidence = confidence]
             culprits == ToSet(CulpritsOf(candidates))
  <2>2. v.defects = emit_multi(drops, culprits) /\ DOMAIN v = DOMAIN NoVerdict
    BY DEF NoVerdict
  <2>3. Decide("multi", v) /\ pc = "multi"
    BY <2>1 DEF Decide
  <2> HIDE DEF v
  <2>4. Found
    BY <1>0, <2>3 DEF Rows
  <2>5. culprits = {Resolve(d).culprit : d \in Candidates}
        /\ \A d \in Candidates : CandidateLike(d, cond, inp)
    BY <2>4, CandidatesAre, CulpritList
  <2> HIDE DEF culprits
  <2>6. \A n \in culprits : Against(n)
    BY <2>4, <2>5, CandidateAgainst
  <2>7. Caused(v.defects)
    BY <2>2, <2>6, CausedMulti
  <2> QED
    BY <2>2, <2>3, <2>7, CausedRows DEF Rows
<1>8. CASE Fabrication
  <2> DEFINE S == content_flagged
             q == graph_nodes(cond)
             run == FirstIn(q, S)
  <2>1. PICK a, b, confidence :
          Decide("fabrication", [NoVerdict EXCEPT
             !.culprits = <<run>>,
             !.defects = emit_cut_point({}, run, a, b), !.confidence = confidence])
    BY <1>8 DEF Fabrication
  <2> DEFINE v == [NoVerdict EXCEPT !.culprits = <<run>>,
             !.defects = emit_cut_point({}, run, a, b), !.confidence = confidence]
  <2>2. v.defects = emit_cut_point({}, run, a, b) /\ DOMAIN v = DOMAIN NoVerdict
    BY DEF NoVerdict
  <2>3. Decide("fabrication", v) /\ pc = "fabrication"
    BY <2>1 DEF Decide
  <2> HIDE DEF v
  <2>4. Found /\ S # {} /\ S \subseteq inp.nodes
    BY <1>0, <2>3, RowChosen DEF Rows, content_flagged, Scored
  <2>5. Listed(q) /\ ToSet(q) = inp.nodes
    BY <2>4, GraphNodes
  <2>6. run \in S
    <3> HIDE DEF S, q
    <3> QED
      BY <2>4, <2>5, ListedFirst
  <2>7. run \in inp.flags
    BY <2>6 DEF content_flagged
  <2> HIDE DEF run
  <2>8. Caused(v.defects)
    BY <2>2, <2>7, CausedOne DEF Against
  <2> QED
    BY <2>2, <2>3, <2>8, CausedRows DEF Rows
<1>9. CASE Composition
  <2>1. PICK confidence :
          Decide("composition", [NoVerdict EXCEPT
             !.culprits = <<Min(sources(cond))>>, !.defects = emit_composition,
             !.confidence = confidence])
    BY <1>9 DEF Composition
  <2> DEFINE v == [NoVerdict EXCEPT
             !.culprits = <<Min(sources(cond))>>, !.defects = emit_composition,
             !.confidence = confidence]
  <2>2. v.defects = emit_composition /\ DOMAIN v = DOMAIN NoVerdict
    BY DEF NoVerdict
  <2>3. Decide("composition", v)
    BY <2>1
  <2> HIDE DEF v
  <2> QED
    BY <2>2, <2>3, CausedElse, CausedRows DEF Rows
<1> QED
  BY <1>1, <1>2, <1>3, <1>4, <1>5, <1>6, <1>7, <1>8, <1>9

(* Who is accused as a verifier got a verdict wrong.                           *)
LEMMA GapsCaused ==
  ASSUME CauseInv, DOMAIN verdict = DOMAIN NoVerdict, VerificationGaps
  PROVE  CauseInv'
<1> DEFINE gaps == ScoredGaps \cup PassedBad(ToSet(verdict.culprits))
           asserted == {g.run : g \in {h \in gaps : h.basis # "verifier_flag_conflict"}}
           wrong == {g.run : g \in ScoredGaps}
           type == derive_report_type(verdict.defects)
           promoted == type \in {"composition_failure", "unclassified"} /\ asserted # {}
           vp == [verdict EXCEPT
                     !.gaps = gaps,
                     !.culprits = ByTime(wrong \cap asserted) \o ByTime(asserted \ wrong),
                     !.confidence = report_type_cap("verification_gap"),
                     !.defects = emit_verification(asserted),
                     !.type = derive_report_type(emit_verification(asserted))]
           vn == [verdict EXCEPT !.gaps = gaps, !.type = type]
<1>1. pc = "gaps" /\ pc' = "escalate" /\ inp' = inp /\ cond' = cond
      /\ verdict' = IF promoted THEN vp ELSE vn
  BY DEF VerificationGaps
<1>2. Caused(verdict.defects)
  BY <1>1 DEF CauseInv
<1>3. /\ vp.gaps = gaps /\ vp.defects = emit_verification(asserted)
      /\ vn.defects = verdict.defects
  BY DEF NoVerdict
<1>4. \A n \in asserted : \E g \in gaps : g.run = n
  OBVIOUS
<1>5. \A d \in emit_verification(asserted) : d.run \in asserted
  BY DEF emit_verification, Defect
<1>6. \A n : Against(n)' <=> Against(n)
  BY <1>1 DEF Against, BelowInputOfCycle, DeclinesFrom, Runaway
<1> HIDE DEF gaps, asserted, wrong, vp, vn, promoted
<1>7. \A d \in verdict'.defects : d.origin = "Localized" =>
         Against(d.run) \/ \E g \in verdict'.gaps : g.run = d.run
  BY <1>1, <1>2, <1>3, <1>4, <1>5 DEF Caused
<1>8. \A d \in verdict'.defects : d.origin = "Localized" =>
         Against(d.run)' \/ \E g \in verdict'.gaps : g.run = d.run
  BY <1>6, <1>7
<1> QED
  BY <1>1, <1>8 DEF CauseInv, Told

(* A fault of form is traced to a run that broke the contract on it.           *)
LEMMA FormCaused ==
  ASSUME Found
  PROVE  Caused(emit_form)
<1> DEFINE makers == {n \in inp.nodes : \E b \in inp.breach[n] : b[2] = inp.terminal.observed}
           q == graph_nodes(cond)
           run == FirstIn(q, makers)
<1> SUFFICES ASSUME NEW d \in emit_form, d.origin = "Localized" PROVE Against(d.run)
  BY DEF Caused
<1>1. makers # {} /\ d.run = run
  BY DEF emit_form, Defect
<1>2. makers \subseteq inp.nodes /\ \A n \in makers : inp.breach[n] # {}
  OBVIOUS
<1>3. Listed(q) /\ ToSet(q) = inp.nodes
  BY GraphNodes
<1>4. run \in makers
  <2> HIDE DEF makers, q
  <2> QED
    BY <1>1, <1>2, <1>3, ListedFirst
<1>5. inp.breach[run] # {}
  BY <1>2, <1>4
<1> HIDE DEF run
<1> QED
  BY <1>1, <1>5 DEF Against, deterministic_defect

(* Every pass keeps the invariant.                                             *)
LEMMA CauseStep ==
  ASSUME EngineInv, PlaceInv, CauseInv, [Next]_vars
  PROVE  CauseInv'
<1>0. DOMAIN verdict = DOMAIN NoVerdict
  BY DEF EngineInv
<1>1. CASE Localize \/ Classify
  <2>1. pc' # "gaps" /\ pc' \notin Told
    BY <1>1 DEF Localize, Classify, first_row, Told
  <2> QED
    BY <2>1 DEF CauseInv
<1>2. CASE \/ NothingMeasured \/ External \/ Loop
           \/ NearMissRow \/ UnlocalizedRow \/ CutPointRow
           \/ Multi \/ Fabrication \/ Composition \/ Unclassified
  BY <1>2, RowsCaused
<1>3. CASE VerificationGaps
  BY <1>0, <1>3, GapsCaused
<1>4. CASE Escalate \/ Finish
  <2>1. /\ pc \in Told /\ pc' \in {"finish", "done"} /\ inp' = inp /\ cond' = cond
        /\ verdict'.gaps = verdict.gaps
        /\ verdict'.defects = verdict.defects
             \/ (pc = "escalate" /\ verdict'.defects = verdict.defects \cup emit_form)
    BY <1>0, <1>4 DEF Escalate, Finish, NoVerdict, Told
  <2>2. Found
    BY <2>1 DEF PlaceInv, Told
  <2>3. \A d \in verdict.defects : d.origin = "Localized" =>
          Against(d.run) \/ \E g \in verdict.gaps : g.run = d.run
    BY <2>1 DEF CauseInv
  <2>4. \A d \in emit_form : d.origin = "Localized" => Against(d.run)
    BY <2>2, FormCaused DEF Caused
  <2>5. \A n : Against(n)' <=> Against(n)
    BY <2>1 DEF Against, BelowInputOfCycle, DeclinesFrom, Runaway
  <2>6. \A d \in verdict'.defects : d.origin = "Localized" =>
          Against(d.run) \/ \E g \in verdict'.gaps : g.run = d.run
    BY <2>1, <2>3, <2>4
  <2>7. \A d \in verdict'.defects : d.origin = "Localized" =>
          Against(d.run)' \/ \E g \in verdict'.gaps : g.run = d.run
    BY <2>5, <2>6
  <2> QED
    BY <2>1, <2>7 DEF CauseInv
<1>5. CASE UNCHANGED vars
  <2>1. inp' = inp /\ cond' = cond /\ pc' = pc /\ verdict' = verdict
    BY <1>5 DEF vars
  <2>2. \A n : Against(n)' <=> Against(n)
    BY <2>1 DEF Against, BelowInputOfCycle, DeclinesFrom, Runaway
  <2> QED
    BY <2>1, <2>2 DEF CauseInv, Caused
<1> QED
  BY <1>1, <1>2, <1>3, <1>4, <1>5 DEF Next

(* Which is what the report promises.                                          *)
LEMMA CauseAtEnd ==
  ASSUME CauseInv
  PROVE  AccusedWithCause
<1> SUFFICES ASSUME Done, NEW d \in verdict.defects, d.origin = "Localized"
             PROVE  \/ EvidenceAgainst(d.run) \/ BelowInputOfCycle(d.run)
                    \/ \E m \in cond.members[cond.exitOf[d.run]] : deterministic_defect(inp, m)
  BY DEF AccusedWithCause
<1>1. Against(d.run) \/ \E g \in verdict.gaps : g.run = d.run
  BY DEF CauseInv, Done, Told
<1> QED
  BY <1>1 DEF Against, EvidenceAgainst

(* (find_blame) For every trace and all settings: a run a report localizes a   *)
(* fault at has a low score, a drop from what it was given, a failed check,    *)
(* a flag, a runaway cycle or a wrong verdict against it, but for what a       *)
(* cycle hides of its members.                                                 *)
THEOREM NobodyAccusedWithoutCause == Spec => []AccusedWithCause
<1>1. Init => CauseInv
  BY DEF Init, CauseInv, Told
<1>2. EngineInv /\ PlaceInv /\ CauseInv /\ [Next]_vars => CauseInv'
  BY CauseStep
<1>3. CauseInv => AccusedWithCause
  BY CauseAtEnd
<1> QED
  BY <1>1, <1>2, <1>3, EngineFinds, PTL DEF Spec

--------------------------------------------------------------------------------
(* The confidence of a report is between 0 and 1.                              *)

(* The lesser of two numbers ..                                                *)
LEMMA MinTwo ==
  ASSUME NEW a \in Int, NEW b \in Int
  PROVE  Min({a, b}) \in {a, b} /\ Min({a, b}) <= a /\ Min({a, b}) <= b
<1> DEFINE S == {a, b}
<1>1. S \subseteq Int /\ S # {} /\ a \in S /\ b \in S
  OBVIOUS
<1>2. IsFiniteSet(S)
  <2>1. S = ({} \cup {a}) \cup {b}
    OBVIOUS
  <2>2. IsFiniteSet({} \cup {a})
    BY FS_EmptySet, FS_AddElement
  <2> QED
    BY <2>1, <2>2, FS_AddElement
<1> HIDE DEF S
<1>3. Min(S) \in S /\ Min(S) <= a /\ Min(S) <= b
  BY <1>1, <1>2, MinIn
<1> QED
  BY <1>3 DEF S

(* .. and likewise the greater.                                                *)
LEMMA MaxTwo ==
  ASSUME NEW a \in Int, NEW b \in Int
  PROVE  Max({a, b}) \in {a, b} /\ Max({a, b}) >= a /\ Max({a, b}) >= b
<1> DEFINE S == {a, b}
<1>1. S \subseteq Int /\ S # {} /\ a \in S /\ b \in S
  OBVIOUS
<1>2. IsFiniteSet(S)
  <2>1. S = ({} \cup {a}) \cup {b}
    OBVIOUS
  <2>2. IsFiniteSet({} \cup {a})
    BY FS_EmptySet, FS_AddElement
  <2> QED
    BY <2>1, <2>2, FS_AddElement
<1> HIDE DEF S
<1>3. Max(S) \in S /\ a <= Max(S) /\ b <= Max(S)
  BY <1>1, <1>2, MaxIn
<1> QED
  BY <1>3 DEF S

(* A clamped number is a percentage.                                           *)
LEMMA ClampIs ==
  ASSUME NEW x \in Int
  PROVE  Clamp(x) \in 0..100
<1> DEFINE m == Min({100, x})
           y == Max({0, m})
<1>1. m \in Int /\ m <= 100
  BY MinTwo
<1> HIDE DEF m
<1>2. y \in {0, m} /\ y >= 0
  BY <1>1, MaxTwo
<1> HIDE DEF y
<1>3. y \in 0..100
  BY <1>1, <1>2
<1> QED
  BY <1>3 DEF Clamp, y, m

(* The three terms of the confidence are percentages.                          *)
LEMMA TermsAre ==
  ASSUME NEW c, Priced(c)
  PROVE  gap_term(c) \in 0..100 /\ severity_term(c) \in 0..100 /\ pred_term(c) \in 0..100
<1> DEFINE a == 2 * c.drop
           b == ((Threshold - c.score) * 100) \div Threshold
           d == ((c.base - Threshold) * 100) \div (100 - Threshold)
<1>1. c.drop \in Int /\ c.score \in Int /\ c.base \in Int /\ Threshold \in 1..99
  BY ConfigAssumption DEF Priced
<1>2. a \in Int /\ b \in Int /\ d \in Int
  <2> DEFINE p == (Threshold - c.score) * 100
             q == (c.base - Threshold) * 100
             r == 100 - Threshold
  <2>1. p \in Int /\ q \in Int /\ r \in Nat \ {0} /\ Threshold \in Nat \ {0}
    BY <1>1
  <2>2. p \div Threshold \in Int /\ q \div r \in Int
    <3> HIDE DEF p, q, r
    <3> QED
      BY <2>1
  <2> QED
    BY <1>1, <2>2
<1> HIDE DEF a, b, d
<1>3. Clamp(a) \in 0..100 /\ Clamp(b) \in 0..100 /\ Clamp(d) \in 0..100
  BY <1>2, ClampIs
<1>4. gap_term(c) \in {0, Clamp(a)}
  BY DEF gap_term, a
<1>5. severity_term(c) \in {0, Clamp(b)}
  BY DEF severity_term, b
<1>6. pred_term(c) \in {0, Clamp(d)}
  BY DEF pred_term, d
<1> QED
  BY <1>3, <1>4, <1>5, <1>6

(* A confidence, in 1/10000.                                                   *)
Fraction == {x \in Nat : x <= 10000}

(* Of a confidence and a factor the product is a confidence ..                 *)
LEMMA ScaledIs ==
  ASSUME NEW x \in Fraction, NEW p \in Fraction
  PROVE  (x * p) \div 10000 \in Fraction
<1> DEFINE y == x * p
<1>0. x \in Nat /\ p \in Nat /\ x <= 10000 /\ p <= 10000
  BY DEF Fraction
<1>1. y \in Nat /\ y <= 10000 * x
  BY <1>0
<1> HIDE DEF y
<1>2. y \div 10000 \in Nat /\ y \div 10000 <= 10000
  BY <1>0, <1>1
<1> QED
  BY <1>2 DEF y, Fraction

(* .. and so is the mean of several.                                           *)
LEMMA MeanIs ==
  ASSUME NEW x \in Nat, NEW n \in Nat, n > 0, x <= 10000 * n
  PROVE  x \div n \in Fraction
<1> DEFINE q == x \div n
<1>1. q \in Int /\ n * q <= x /\ x < n * q + n
  OBVIOUS
<1> HIDE DEF q
<1>2. q >= 0
  <2> SUFFICES ASSUME q <= -1 PROVE FALSE
    BY <1>1
  <2> DEFINE y == n * q
  <2>1. y <= -n /\ y \in Int
    BY <1>1
  <2>2. x < y + n
    BY <1>1
  <2> HIDE DEF y
  <2> QED
    BY <2>1, <2>2
<1>3. q <= 10000
  <2> SUFFICES ASSUME q >= 10001 PROVE FALSE
    BY <1>1
  <2> DEFINE y == n * q
  <2>1. y >= 10001 * n /\ y \in Int
    BY <1>1
  <2>2. y <= x
    BY <1>1
  <2> HIDE DEF y
  <2> QED
    BY <2>1, <2>2
<1>4. q \in Fraction
  BY <1>1, <1>2, <1>3 DEF Fraction
<1> QED
  BY <1>4 DEF q

LEMMA PartIs ==
  ASSUME NEW x \in Fraction, NEW n \in Nat, n > 0
  PROVE  x \div n \in Fraction
<1>1. x \in Nat /\ x <= 10000 * n
  BY DEF Fraction
<1> QED
  BY <1>1, MeanIs

(* The penalty for a long line, a root of a number under 1.                    *)
LEMMA PenaltyIs ==
  ASSUME NEW d \in Nat, d >= 3
  PROVE  chain_penalty(d) \in Fraction
<1> DEFINE raw == ((d - 2) * 10000) \div 16
           ratio == Min({10000, raw})
           IsRoot(r) == r * r <= ratio /\ (r + 1) * (r + 1) > ratio
           root == CHOOSE r \in 0..100 : IsRoot(r)
<1>1. raw \in Int /\ raw >= 0
  OBVIOUS
<1> HIDE DEF raw
<1>2. ratio \in 0..10000
  <2>1. ratio \in {10000, raw} /\ ratio <= 10000
    BY <1>1, MinTwo
  <2> HIDE DEF ratio
  <2> QED
    BY <1>1, <2>1
<1> HIDE DEF ratio
<1> DEFINE S == {r \in 0..100 : r * r <= ratio}
           m == Max(S)
<1>3. S \subseteq Int /\ S # {} /\ IsFiniteSet(S)
  <2>1. 0 \in S
    BY <1>2
  <2>2. S \subseteq 0..100
    OBVIOUS
  <2> DEFINE lo == 0
             hi == 100
             U == lo..hi
  <2>3. S \subseteq U /\ lo \in Int /\ hi \in Int /\ S \subseteq Int
    BY <2>2
  <2> HIDE DEF S, lo, hi
  <2>4. IsFiniteSet(U)
    BY <2>3, FS_Interval
  <2> HIDE DEF U
  <2>5. IsFiniteSet(S)
    BY <2>3, <2>4, FS_Subset
  <2> QED
    BY <2>1, <2>3, <2>5
<1>4. m \in S /\ \A y \in S : y <= m
  <2> HIDE DEF S
  <2> QED
    BY <1>3, MaxIn
<1> HIDE DEF m
<1>5. m \in 0..100 /\ m * m <= ratio
  BY <1>4
<1>6. (m + 1) * (m + 1) > ratio
  <2>1. CASE m = 100
    BY <1>2, <2>1
  <2>2. CASE m < 100
    <3>1. m + 1 \in 0..100 /\ m + 1 \notin S
      <4>1. m + 1 \in 0..100 /\ ~(m + 1 <= m)
        BY <1>5, <2>2
      <4> HIDE DEF S
      <4> QED
        BY <1>4, <4>1
    <3>2. ~((m + 1) * (m + 1) <= ratio)
      BY <3>1
    <3>3. (m + 1) * (m + 1) \in Int
      BY <3>1
    <3> QED
      BY <1>2, <3>2, <3>3
  <2> QED
    BY <1>5, <2>1, <2>2
<1>7. root \in 0..100
  <2>1. \E r \in 0..100 : IsRoot(r)
    BY <1>5, <1>6
  <2> HIDE DEF IsRoot
  <2> QED
    BY <2>1
<1>8. chain_penalty(d) = 10000 - 20 * root
  BY DEF chain_penalty, ratio, raw
<1> HIDE DEF root
<1>9. 10000 - 20 * root \in Nat /\ 10000 - 20 * root <= 10000
  BY <1>7
<1> QED
  BY <1>8, <1>9 DEF Fraction

(* A confidence in a candidate is one ..                                       *)
LEMMA ConfidenceIs ==
  ASSUME NEW c, Priced(c), NEW multi \in BOOLEAN, NEW d \in Nat, d > 0 => d >= 3
  PROVE  compute_confidence(c, multi, d) \in Fraction
<1> DEFINE raw == 50 * gap_term(c) + 30 * severity_term(c) + 20 * pred_term(c)
           often == IF c.iterations > 1 THEN 8000 ELSE 10000
           cycle == (raw * often) \div 10000
           one_channel == IF c.thin THEN 7500 ELSE 10000
           channels == (cycle * one_channel) \div 10000
           far == IF d > 0 THEN chain_penalty(d) ELSE 10000
           line == (channels * far) \div 10000
           ties == {1, Cardinality(c.tied)}
           split == line \div Max(ties)
           several == IF multi THEN 8000 ELSE 10000
           shared == (split * several) \div 10000
           cap == IF c.unknownUpstream THEN unknown_confidence_cap ELSE 10000
<1>1. compute_confidence(c, multi, d) = Min({shared, cap})
  BY DEF compute_confidence
<1>2. raw \in Fraction
  <2> DEFINE a == gap_term(c)
             b == severity_term(c)
             e == pred_term(c)
  <2>1. a \in 0..100 /\ b \in 0..100 /\ e \in 0..100
    BY TermsAre
  <2> HIDE DEF a, b, e
  <2>2. 50 * a + 30 * b + 20 * e \in Nat /\ 50 * a + 30 * b + 20 * e <= 10000
    BY <2>1
  <2> QED
    BY <2>2 DEF a, b, e, Fraction
<1>3. /\ often \in Fraction /\ one_channel \in Fraction /\ far \in Fraction
      /\ several \in Fraction /\ cap \in Fraction
  <2>1. often \in {8000, 10000} /\ one_channel \in {7500, 10000} /\ several \in {8000, 10000}
    OBVIOUS
  <2>2. cap \in {6000, 10000}
    BY DEF unknown_confidence_cap
  <2>0. {8000, 7500, 6000, 10000} \subseteq Fraction
    BY DEF Fraction
  <2>3. far \in Fraction
    <3>1. CASE d > 0
      <4>1. d >= 3
        BY <3>1
      <4>2. chain_penalty(d) \in Fraction
        BY <4>1, PenaltyIs
      <4> QED
        BY <3>1, <4>2
    <3>2. CASE ~(d > 0)
      BY <2>0, <3>2
    <3> QED
      BY <3>1, <3>2
  <2> HIDE DEF often, one_channel, far, several, cap
  <2> QED
    BY <2>0, <2>1, <2>2, <2>3
<1>4. Max(ties) \in Nat /\ Max(ties) > 0
  <2> DEFINE k == Cardinality(c.tied)
  <2>1. k \in Nat
    BY FS_CardinalityType DEF Priced
  <2> HIDE DEF k
  <2>2. Max({1, k}) \in {1, k} /\ Max({1, k}) >= 1
    BY <2>1, MaxTwo
  <2> QED
    BY <2>1, <2>2 DEF k
<1> HIDE DEF raw, often, one_channel, far, several, cap, ties
<1>5. cycle \in Fraction
  BY <1>2, <1>3, ScaledIs
<1> HIDE DEF cycle
<1>6. channels \in Fraction
  BY <1>5, <1>3, ScaledIs
<1> HIDE DEF channels
<1>7. line \in Fraction
  BY <1>6, <1>3, ScaledIs
<1> HIDE DEF line
<1>8. split \in Fraction
  BY <1>7, <1>4, PartIs
<1> HIDE DEF split
<1>9. shared \in Fraction
  BY <1>8, <1>3, ScaledIs
<1> HIDE DEF shared
<1>10. shared \in Int /\ cap \in Int
  BY <1>3, <1>9 DEF Fraction
<1>11. Min({shared, cap}) \in {shared, cap}
  BY <1>10, MinTwo
<1> QED
  BY <1>1, <1>3, <1>9, <1>11

(* .. and so is the strength of an observation.                                *)
LEMMA ObservationIs ==
  ASSUME NEW c, Priced(c), NEW hard \in BOOLEAN
  PROVE  compute_observation_confidence(c, hard) \in Fraction
<1> DEFINE degradation == IF c.baseAssumed THEN 0 ELSE gap_term(c) * JUDGED_DEGRADATION_OBSERVATION
           severe == 100 * severity_term(c)
<1>1. severe \in Fraction /\ degradation \in Fraction
  <2> DEFINE a == gap_term(c)
             b == severity_term(c)
  <2>1. a \in 0..100 /\ b \in 0..100
    BY TermsAre
  <2>2. severe = 100 * b /\ degradation \in {0, a * 70}
    BY DEF JUDGED_DEGRADATION_OBSERVATION
  <2> HIDE DEF a, b, severe, degradation
  <2>3. {0, a * 70, 100 * b} \subseteq Fraction
    BY <2>1 DEF Fraction
  <2> QED
    BY <2>2, <2>3
<1>2. compute_observation_confidence(c, hard) =
        IF hard THEN DETERMINISTIC_ATTRIBUTION ELSE Max({severe, degradation})
  BY DEF compute_observation_confidence
<1> HIDE DEF severe, degradation
<1>3. Max({severe, degradation}) \in Fraction
  <2>1. severe \in Int /\ degradation \in Int
    BY <1>1 DEF Fraction
  <2>2. Max({severe, degradation}) \in {severe, degradation}
    BY <2>1, MaxTwo
  <2> QED
    BY <1>1, <2>2
<1>4. DETERMINISTIC_ATTRIBUTION \in Fraction
  BY DEF DETERMINISTIC_ATTRIBUTION, Fraction
<1> QED
  BY <1>2, <1>3, <1>4

(* The line a trace may be is three steps long or more.                        *)
LEMMA ChainIs ==
  ASSUME Graphed(cond, inp)
  PROVE  chain \in Nat /\ (chain > 0 => chain >= 3)
<1> DEFINE d == depth(cond)
<1>1. d \in Nat
  BY DepthIs
<1>2. chain = 0 \/ (chain = d /\ d >= 3)
  BY DEF chain, chain_shaped
<1> HIDE DEF d
<1> QED
  BY <1>1, <1>2

(* The confidence in a candidate, in the shape that the trace has.             *)
LEMMA CandidateConfidence ==
  ASSUME Graphed(cond, inp), NEW c, Priced(c), NEW multi \in BOOLEAN
  PROVE  compute_confidence(c, multi, chain) \in Fraction
<1> DEFINE d == chain
<1>1. d \in Nat /\ (d > 0 => d >= 3)
  BY ChainIs
<1> HIDE DEF d
<1>2. compute_confidence(c, multi, d) \in Fraction
  BY <1>1, ConfidenceIs
<1> QED
  BY <1>2 DEF d

(* A candidate keeps its numbers at the member it is drilled to ..             *)
LEMMA MemberPriced ==
  ASSUME Graphed(cond, inp), NEW c, Priced(c), NEW m \in inp.nodes, NEW drop \in Int
  PROVE  Priced(AtMember(c, m, drop))
<1> DEFINE d == AtMember(c, m, drop)
           x == inp.score[m]
<1>1. x \in Int
  <2>1. x \in {Unknown} \cup 0..100
    BY DEF Graphed, IsTrace
  <2> QED
    BY <2>1 DEF Unknown
<1>2. /\ DOMAIN d = DOMAIN c
      /\ d.score \in {c.score, x}
      /\ d.drop = drop
      /\ d.base \in {c.base, x + drop}
      /\ d.tied = c.tied
  BY DEF AtMember, Priced
<1> HIDE DEF d, x
<1>3. x + drop \in Int
  BY <1>1
<1>4. {d.score, d.base, d.drop} \subseteq Int
  BY <1>1, <1>2, <1>3 DEF Priced
<1>5. Priced(d)
  BY <1>2, <1>4 DEF Priced
<1> QED
  BY <1>5 DEF d

(* What the engine hands over as the measured scores of the runs that feed a   *)
(* member has a greatest.                                                      *)
LEMMA MemberMax ==
  ASSUME Graphed(cond, inp), NEW m, MemberPreds(cond, inp, m) # {}
  PROVE  Max(MemberPreds(cond, inp, m)) \in Int
<1> DEFINE P == Preds(cond.graph, m)
           V == MemberPreds(cond, inp, m)
<1>1. P \subseteq inp.nodes
  <2> DEFINE E == cond.graph
             N == inp.nodes
  <2>1. E \subseteq N \X N
    BY DEF Graphed, Condensation
  <2> HIDE DEF E, N
  <2>2. Preds(E, m) \subseteq N
    BY <2>1, Neighbours
  <2> QED
    BY <2>2 DEF E, N
<1>2. V = Known(inp, P) /\ IsTrace(inp)
  BY DEF MemberPreds, Graphed
<1> HIDE DEF P, V
<1>3. V # {}
  BY DEF V
<1>4. Max(Known(inp, P)) \in 0..100
  BY <1>1, <1>2, <1>3, KnownMax
<1>5. Max(V) \in 0..100
  BY <1>2, <1>4
<1>6. Max(V) \in Int
  BY <1>5
<1> QED
  BY <1>6 DEF V

(* The scores of a trace are numbers.                                          *)
LEMMA RunScore ==
  ASSUME IsTrace(inp), NEW m \in inp.nodes
  PROVE  inp.score[m] \in Int
<1>1. inp.score[m] \in {Unknown} \cup 0..100
  BY DEF IsTrace
<1> QED
  BY <1>1 DEF Unknown

(* The member a cycle is drilled to has a drop that is a number, and it ties   *)
(* with finitely many.                                                         *)
LEMMA DrillIs ==
  ASSUME Graphed(cond, inp), NEW d, CandidateLike(d, cond, inp)
  PROVE  drill(d).drop \in Int /\ IsFiniteSet(drill(d).tied)
<1> DEFINE members == cond.members[d.run]
           scored == members \cap Scored
           worst == {m \in scored : \A x \in scored : inp.score[m] <= inp.score[x]}
           culprit == drill(d).culprit
           preds == MemberPreds(cond, inp, culprit)
           measured == IsCycle(cond, d.run) /\ scored # {} /\ preds # {}
<1>1. IsFiniteSet(members) /\ members \subseteq inp.nodes
  BY MembersAre DEF CandidateLike, AreRuns
<1>2. culprit \in inp.nodes
  BY <1>1, Drilled
<1>3. drill(d).tied \in {worst, {}}
  BY DEF drill
<1>4. IsFiniteSet(worst)
  <2>1. worst \subseteq members
    OBVIOUS
  <2> HIDE DEF worst, members
  <2> QED
    BY <1>1, <2>1, FS_Subset
<1>5. drill(d).drop = IF measured THEN DropFrom(Max(preds), inp.score[culprit]) ELSE Unknown
  BY DEF drill
<1> HIDE DEF culprit, worst, scored
<1>6. ASSUME preds # {} PROVE Max(preds) \in Int
  BY <1>6, MemberMax
<1>7. inp.score[culprit] \in Int
  BY <1>2, RunScore DEF Graphed
<1> HIDE DEF preds, measured
<1>8. measured => preds # {}
  BY DEF measured
<1>9. drill(d).drop \in Int
  <2>1. CASE measured
    <3>1. DropFrom(Max(preds), inp.score[culprit]) \in Int
      BY <1>6, <1>7, <1>8, <2>1, DropIs
    <3> QED
      BY <1>5, <2>1, <3>1
  <2>2. CASE ~measured
    BY <1>5, <2>2 DEF Unknown
  <2> QED
    BY <2>1, <2>2
<1> QED
  BY <1>3, <1>4, <1>9, FS_EmptySet

(* .. and whatever member a candidate is resolved to.                          *)
LEMMA ResolvedPriced ==
  ASSUME Graphed(cond, inp), NEW d, CandidateLike(d, cond, inp)
  PROVE  Priced(Resolve(d).numbers)
<1> DEFINE m == drill(d).culprit
           low == drill(d).drop
           drop == IF low = Unknown THEN d.drop ELSE low
           n == Resolve(d).numbers
<1>1. Priced(d)
  BY DEF CandidateLike
<1>2. m \in inp.nodes /\ low \in Int
  BY Drilled, MembersAre, DrillIs DEF CandidateLike
<1>3. n \in {AtMember(d, m, drop), d}
  BY DEF Resolve
<1> HIDE DEF m, low, n
<1>4. drop \in Int
  <2>1. d.drop \in Int
    BY <1>1 DEF Priced
  <2> QED
    BY <1>2, <2>1
<1> HIDE DEF drop
<1>5. Priced(AtMember(d, m, drop))
  BY <1>1, <1>2, <1>4, MemberPriced
<1>6. Priced(n)
  BY <1>1, <1>3, <1>5
<1> QED
  BY <1>6 DEF n

(* The sum over several candidates.                                            *)
LEMMA SumIs ==
  ASSUME Graphed(cond, inp), NEW seq, Len(seq) \in Nat, DOMAIN seq = 1..Len(seq),
         \A i \in DOMAIN seq : CandidateLike(seq[i], cond, inp)
  PROVE  SumConfidence(seq) \in Nat /\ SumConfidence(seq) <= 10000 * Len(seq)
<1> DEFINE N == Len(seq)
           Of(i) == compute_confidence(Resolve(seq[i]).numbers, TRUE, chain)
           Round(F) == [i \in 0..N |->
                          IF i = 0 THEN 0
                          ELSE F[i - 1] + compute_confidence(Resolve(seq[i]).numbers, TRUE, chain)]
           sum == CHOOSE F : F = Round(F)
           g == [p \in Nat \X (1..N) |-> p[1] + Of(p[2])]
<1>1. N \in Nat
  OBVIOUS
<1>2. ASSUME NEW i \in 1..N PROVE Of(i) \in Nat /\ Of(i) <= 10000
  <2>1. Priced(Resolve(seq[i]).numbers)
    BY ResolvedPriced
  <2>2. Of(i) \in Fraction
    BY <2>1, CandidateConfidence
  <2> HIDE DEF Of
  <2> QED
    BY <2>2 DEF Fraction
<1>3. sum = Round(sum)
  <2>1. g \in [Nat \X (1..N) -> Nat]
    <3> HIDE DEF Of
    <3> QED
      BY <1>2
  <2>2. PICK f : IsRun(f, Nat, N, 0, g)
    <3> HIDE DEF N, g
    <3> QED
      BY <1>1, <2>1, Rounds
  <2>3. f \in [0..N -> Nat] /\ f[0] = 0 /\ \A i \in 1..N : f[i] = g[<<f[i - 1], i>>]
    BY <2>2 DEF IsRun
  <2>4. ASSUME NEW i \in 1..N PROVE f[i] = f[i - 1] + Of(i)
    <3>1. i - 1 \in 0..N
      BY <1>1
    <3>2. f[i - 1] \in Nat
      BY <2>3, <3>1
    <3> HIDE DEF Of
    <3> QED
      BY <2>3, <3>2
  <2>5. f = Round(f)
    <3>1. DOMAIN f = 0..N /\ DOMAIN Round(f) = 0..N
      BY <2>3
    <3>2. ASSUME NEW i \in 0..N PROVE f[i] = Round(f)[i]
      <4>1. CASE i = 0
        BY <2>3, <4>1
      <4>2. CASE i # 0
        <5>1. i \in 1..N
          BY <1>1, <4>2
        <5> QED
          BY <4>2, <5>1, <2>4
      <4> QED
        BY <4>1, <4>2
    <3>3. f = [i \in 0..N |-> f[i]]
      BY <2>3
    <3>4. Round(f) = [i \in 0..N |-> Round(f)[i]]
      OBVIOUS
    <3> HIDE DEF Round
    <3> QED
      BY <3>2, <3>3, <3>4
  <2>6. \E F : F = Round(F)
    BY <2>5
  <2> HIDE DEF Round
  <2> QED
    BY <2>6
<1>4. SumConfidence(seq) = sum[N]
  BY DEF SumConfidence
<1>5. sum[0] = 0 /\ \A i \in 1..N : sum[i] = sum[i - 1] + Of(i)
  <2>1. sum = [i \in 0..N |-> IF i = 0 THEN 0 ELSE sum[i - 1] + Of(i)]
    BY <1>3
  <2> HIDE DEF sum, Of
  <2>2. sum[0] = 0
    BY <1>1, <2>1
  <2>3. ASSUME NEW i \in 1..N PROVE sum[i] = sum[i - 1] + Of(i)
    <3>1. i \in 0..N /\ i # 0
      BY <1>1
    <3> QED
      BY <2>1, <3>1
  <2> QED
    BY <2>2, <2>3
<1> HIDE DEF sum, Of, N
<1> DEFINE T == {k \in Nat : k <= N => sum[k] \in Nat /\ sum[k] <= 10000 * k}
<1>6. 0 \in T
  BY <1>5
<1>7. ASSUME NEW k \in T PROVE k + 1 \in T
  <2> SUFFICES ASSUME k + 1 <= N
               PROVE  sum[k + 1] \in Nat /\ sum[k + 1] <= 10000 * (k + 1)
    OBVIOUS
  <2>1. k + 1 \in 1..N /\ (k + 1) - 1 = k /\ sum[k] \in Nat /\ sum[k] <= 10000 * k
    BY <1>1
  <2> QED
    BY <1>2, <1>5, <2>1
<1>8. \A k \in Nat : k \in T
  <2> HIDE DEF T
  <2> QED
    BY <1>6, <1>7, NatSetInduction
<1>9. sum[N] \in Nat /\ sum[N] <= 10000 * N
  BY <1>1, <1>8
<1> QED
  BY <1>4, <1>9 DEF N

(* The confidence of a lone candidate: in the attribution, and in what was     *)
(* observed.                                                                   *)
LEMMA MeasuredIs ==
  ASSUME Graphed(cond, inp), NEW run, NEW c, Priced(c)
  PROVE  /\ Measured(run, c).attribution \in Fraction
         /\ Measured(run, c).observation \in Fraction
         /\ DOMAIN Measured(run, c) = DOMAIN NoVerdict
<1> DEFINE raw == compute_confidence(c, FALSE, chain)
           hard == deterministic_defect(inp, run)
           seen == compute_observation_confidence(c, hard)
           attributed == verdict_attribution(run, c, raw)
           m == Measured(run, c)
<1>1. raw \in Fraction
  BY CandidateConfidence
<1>2. m.attribution = attributed /\ m.observation = seen /\ DOMAIN m = DOMAIN NoVerdict
  BY DEF Measured, NoVerdict
<1>3. hard \in BOOLEAN
  BY DEF deterministic_defect
<1> HIDE DEF raw, hard, m
<1>4. seen \in Fraction
  BY <1>3, ObservationIs
<1>5. attributed \in Fraction
  <2>1. attributed \in {unknown_confidence_cap, DETERMINISTIC_ATTRIBUTION,
                        Min({raw, BOUNDARY_ATTRIBUTION_CAP}), raw}
    BY DEF verdict_attribution
  <2>2. Min({raw, BOUNDARY_ATTRIBUTION_CAP}) \in {raw, BOUNDARY_ATTRIBUTION_CAP}
    <3>1. raw \in Int /\ BOUNDARY_ATTRIBUTION_CAP \in Int
      BY <1>1 DEF BOUNDARY_ATTRIBUTION_CAP, Fraction
    <3> QED
      BY <3>1, MinTwo
  <2> HIDE DEF attributed
  <2>3. /\ BOUNDARY_ATTRIBUTION_CAP \in Fraction /\ unknown_confidence_cap \in Fraction
        /\ DETERMINISTIC_ATTRIBUTION \in Fraction
    BY DEF BOUNDARY_ATTRIBUTION_CAP, unknown_confidence_cap, DETERMINISTIC_ATTRIBUTION, Fraction
  <2> QED
    BY <1>1, <2>1, <2>2, <2>3
<1> HIDE DEF seen, attributed
<1>6. m.attribution \in Fraction /\ m.observation \in Fraction /\ DOMAIN m = DOMAIN NoVerdict
  BY <1>2, <1>4, <1>5
<1> QED
  BY <1>6 DEF m

(* Row 2.                                                                      *)
LEMMA ExternalConfident ==
  ASSUME Found, flawed_sources # {}
  PROVE  LET run == FirstIn(cond.topo, flawed_sources)
             score == Max({0, inp.score[run]})
             c == [CandidateOf(cond, inp, run) EXCEPT
                     !.score = score, !.base = 100, !.drop = 100 - score]
         IN  compute_confidence(c, FALSE, chain) \in Fraction
<1> DEFINE S == flawed_sources
           run == FirstIn(cond.topo, S)
           x == inp.score[run]
           score == Max({0, x})
           c == [CandidateOf(cond, inp, run) EXCEPT
                     !.score = score, !.base = 100, !.drop = 100 - score]
<1>1. S \subseteq Supers(cond) /\ S # {}
  BY DEF flawed_sources, sources
<1>2. run \in inp.nodes
  <2> HIDE DEF S
  <2> QED
    BY <1>1, SupersOf, ListedFirst
<1>3. Graphed(cond, inp) /\ IsTrace(inp)
  BY DEF Found, Graphed
<1>4. c.score = score /\ c.base = 100 /\ c.drop = 100 - score /\ c.tied = {}
      /\ {"score", "base", "drop", "tied"} \subseteq DOMAIN c
  BY DEF CandidateOf
<1> HIDE DEF run, S
<1>5. x \in Int
  BY <1>2, <1>3, RunScore
<1> HIDE DEF x, c
<1>6. score \in Int
  <2>1. score \in {0, x}
    BY <1>5, MaxTwo
  <2> QED
    BY <1>5, <2>1
<1> HIDE DEF score
<1>7. {c.score, c.base, c.drop} \subseteq Int
  BY <1>4, <1>6
<1>8. Priced(c)
  BY <1>4, <1>7, FS_EmptySet DEF Priced
<1>9. compute_confidence(c, FALSE, chain) \in Fraction
  BY <1>3, <1>8, CandidateConfidence
<1> QED
  BY <1>9 DEF c, score, x, run, S

(* Row 3.                                                                      *)
LEMMA LoopConfident ==
  ASSUME Found, Runaway # {}
  PROVE  looped.confidence \in Fraction
<1> DEFINE named == Runaway \cap RunsOf(candidates)
           s == FirstIn(cond.topo, IF named # {} THEN named ELSE Runaway)
           X == {c \in Candidates : c.run # s}
           others == Select(candidates, X)
           n == Len(others)
           sum == SumConfidence(others)
           mine == CHOOSE c \in Candidates : c.run = s
           y == compute_confidence(mine, FALSE, chain)
           known == s \in RunsOf(candidates)
           own == IF known THEN y ELSE 10000
<1>1. looped.confidence = (own + sum) \div (1 + n)
  BY DEF looped, NoVerdict
<1>2. /\ Candidates = ToSet(candidates) /\ Listed(candidates)
      /\ \A d \in Candidates : CandidateLike(d, cond, inp)
      /\ RunsOf(candidates) = {d.run : d \in Candidates}
  BY CandidatesAre
<1> HIDE DEF s
<1>3. Graphed(cond, inp)
  BY DEF Found
<1>4. own \in Nat /\ own <= 10000
  <2>1. ASSUME known PROVE y \in Fraction
    <3>1. \E c \in Candidates : c.run = s
      BY <1>2, <2>1
    <3>2. mine \in Candidates
      BY <3>1
    <3> HIDE DEF mine
    <3>3. Priced(mine)
      BY <1>2, <3>2 DEF CandidateLike
    <3> QED
      BY <1>3, <3>3, CandidateConfidence
  <2> HIDE DEF y, known
  <2>2. 10000 \in Fraction
    BY DEF Fraction
  <2>3. own \in Fraction
    BY <2>1, <2>2
  <2> HIDE DEF own
  <2> QED
    BY <2>3 DEF Fraction
<1>5. Listed(others) /\ ToSet(others) \subseteq Candidates
  <2>1. X \subseteq ToSet(candidates)
    BY <1>2
  <2> HIDE DEF X
  <2>2. Listed(Select(candidates, X)) /\ ToSet(Select(candidates, X)) = ToSet(candidates) \cap X
    BY <1>2, ListedSelect
  <2> QED
    BY <1>2, <2>2
<1> HIDE DEF X, others
<1>6. /\ n \in Nat /\ DOMAIN others = 1..n
      /\ \A i \in DOMAIN others : CandidateLike(others[i], cond, inp)
  <2>1. n \in Nat /\ DOMAIN others = 1..n
    BY <1>5, ListedDomain
  <2>2. \A i \in DOMAIN others : others[i] \in ToSet(others)
    BY DEF ToSet
  <2> QED
    BY <1>2, <1>5, <2>1, <2>2
<1>7. sum \in Nat /\ sum <= 10000 * n
  BY <1>3, <1>6, SumIs
<1> HIDE DEF own, sum, n
<1>8. /\ own + sum \in Nat /\ 1 + n \in Nat /\ 1 + n > 0
      /\ own + sum <= 10000 * (1 + n)
  BY <1>4, <1>6, <1>7
<1> DEFINE a == own + sum
           b == 1 + n
<1> HIDE DEF a, b
<1>9. a \div b \in Fraction
  <2>1. a \in Nat /\ b \in Nat /\ b > 0 /\ a <= 10000 * b
    BY <1>8 DEF a, b
  <2> QED
    BY <2>1, MeanIs
<1> QED
  BY <1>1, <1>9 DEF a, b

(* Row 4a.                                                                     *)
LEMMA NearMissConfident ==
  ASSUME Found, Len(candidates) = 1
  PROVE  missed.confidence \in Fraction /\ DOMAIN missed = DOMAIN NoVerdict
<1> DEFINE run == IF one.member # Unknown THEN one.member ELSE one.run
           preds == MemberPreds(cond, inp, run)
           base == IF preds = {} THEN Unknown ELSE Max(preds)
           drop == DropFrom(base, inp.score[run])
           at == AtMember(one, run, drop)
           there == [at EXCEPT !.base = base]
           c == IF one.member = Unknown THEN one ELSE there
           m == Measured(run, c)
<1>1. /\ CandidateLike(one, cond, inp) /\ Graphed(cond, inp) /\ IsTrace(inp)
      /\ run \in inp.nodes
  <2>1. CandidateLike(one, cond, inp)
    BY Single
  <2>2. run \in cond.members[one.run] /\ cond.members[one.run] \subseteq inp.nodes
    BY <2>1, MembersAre DEF Found, CandidateLike
  <2> QED
    BY <2>1, <2>2 DEF Found, Graphed
<1>2. \E tied, cycle, drops, defects :
        missed = [m EXCEPT !.confidence = m.observation, !.tied = tied, !.cycle = cycle,
                           !.drops = drops, !.defects = defects]
  BY ZenonT(60) DEF missed
<1> HIDE DEF run
<1>3. base \in Int
  <2>1. preds # {} => Max(preds) \in Int
    BY <1>1, MemberMax
  <2> HIDE DEF preds
  <2> QED
    BY <2>1 DEF Unknown
<1> HIDE DEF base
<1>4. drop \in Int
  BY <1>1, <1>3, RunScore, DropIs
<1> HIDE DEF drop
<1>5. Priced(one)
  BY <1>1 DEF CandidateLike
<1>6. Priced(at)
  BY <1>1, <1>4, <1>5, MemberPriced
<1> HIDE DEF at
<1>7. Priced(there)
  <2>1. /\ {"score", "base", "drop", "tied"} \subseteq DOMAIN there
        /\ there.score = at.score /\ there.base = base /\ there.drop = at.drop
        /\ there.tied = at.tied
    BY <1>6 DEF Priced
  <2> HIDE DEF there
  <2>2. {there.score, there.base, there.drop} \subseteq Int
    BY <1>3, <1>6, <2>1 DEF Priced
  <2> QED
    BY <1>6, <2>1, <2>2 DEF Priced
<1> HIDE DEF there
<1>8. Priced(c)
  BY <1>5, <1>7
<1> HIDE DEF c
<1>9. m.observation \in Fraction /\ DOMAIN m = DOMAIN NoVerdict
  BY <1>1, <1>8, MeasuredIs
<1> HIDE DEF m
<1> QED
  BY <1>2, <1>9 DEF NoVerdict

(* Row 4c.                                                                     *)
LEMMA CutConfident ==
  ASSUME Found, Len(candidates) = 1
  PROVE  cut.confidence \in Fraction /\ DOMAIN cut = DOMAIN NoVerdict
<1> DEFINE run == drill(one).culprit
           low == drill(one).drop
           ties == drill(one).tied
           d == drilled_one
           m == Measured(run, d)
           at == AtMember(one, run, low)
<1>1. CandidateLike(one, cond, inp) /\ Graphed(cond, inp) /\ IsTrace(inp) /\ Priced(one)
  BY Single DEF Found, Graphed, CandidateLike
<1>2. run \in inp.nodes /\ low \in Int /\ IsFiniteSet(ties)
  <2>1. run \in cond.members[one.run] /\ cond.members[one.run] \subseteq inp.nodes
    BY <1>1, Drilled, MembersAre DEF CandidateLike
  <2> QED
    BY <1>1, <2>1, DrillIs
<1>3. inp.score[run] \in Int
  BY <1>1, <1>2, RunScore
<1>4. Priced(at)
  BY <1>1, <1>2, MemberPriced
<1>5. Priced(d)
  <2> DEFINE x == inp.score[run]
             far == [at EXCEPT !.baseAssumed = FALSE]
             near == [one EXCEPT !.run = run, !.score = IF x = Unknown THEN @ ELSE x,
                                 !.thin = run \in inp.thin]
  <2>1. \E moved \in {far, near, one}, tied \in {one.tied, ties} :
           d = [moved EXCEPT !.tied = tied]
    BY DEF drilled_one
  <2>2. Priced(far)
    <3> HIDE DEF at
    <3> QED
      BY <1>4 DEF Priced
  <2>3. Priced(near)
    <3> HIDE DEF x
    <3>1. /\ DOMAIN near = DOMAIN one /\ near.score \in {one.score, x}
          /\ near.base = one.base /\ near.drop = one.drop /\ near.tied = one.tied
      BY <1>1 DEF Priced
    <3> HIDE DEF near
    <3>2. {near.score, near.base, near.drop} \subseteq Int
      BY <1>1, <1>3, <3>1 DEF Priced, x
    <3> QED
      BY <1>1, <3>1, <3>2 DEF Priced
  <2> HIDE DEF far, near, d, ties
  <2>4. PICK moved \in {far, near, one}, tied \in {one.tied, ties} :
           d = [moved EXCEPT !.tied = tied]
    BY <2>1
  <2>5. Priced(moved) /\ IsFiniteSet(tied)
    BY <1>1, <1>2, <2>2, <2>3 DEF Priced
  <2>6. /\ DOMAIN d = DOMAIN moved /\ d.score = moved.score /\ d.base = moved.base
        /\ d.drop = moved.drop /\ d.tied = tied
    BY <2>4, <2>5 DEF Priced
  <2> QED
    BY <2>5, <2>6 DEF Priced
<1>6. m.attribution \in Fraction /\ DOMAIN m = DOMAIN NoVerdict
  BY <1>1, <1>5, MeasuredIs
<1>7. cut.confidence = m.attribution /\ DOMAIN cut = DOMAIN m
  <2> HIDE DEF m
  <2> QED
    BY <1>6 DEF cut, m, NoVerdict
<1> QED
  BY <1>6, <1>7

(* Row 5.                                                                      *)
LEMMA MultiConfident ==
  ASSUME Found, Len(candidates) > 1
  PROVE  SumConfidence(candidates) \div Len(candidates) \in Fraction
<1> DEFINE n == Len(candidates)
           sum == SumConfidence(candidates)
<1>1. /\ n \in Nat /\ DOMAIN candidates = 1..n /\ Graphed(cond, inp)
      /\ \A i \in DOMAIN candidates : CandidateLike(candidates[i], cond, inp)
  BY CandidatesAre DEF Candidates, Found
<1>2. sum \in Nat /\ sum <= 10000 * n
  BY <1>1, SumIs
<1>3. n > 0
  BY <1>1
<1> HIDE DEF n, sum
<1>4. sum \div n \in Fraction
  BY <1>1, <1>2, <1>3, MeanIs
<1> QED
  BY <1>4 DEF n, sum

(* What a row decides stands in the verdict.                                   *)
LEMMA RowConfident ==
  ASSUME NEW name, NEW v, Decide(name, v), DOMAIN v = DOMAIN NoVerdict, v.confidence \in Fraction
  PROVE  verdict'.confidence \in Fraction /\ pc' = "gaps"
<1>1. verdict' = [v EXCEPT !.row = name] /\ pc' = "gaps"
  BY DEF Decide
<1>2. [v EXCEPT !.row = name].confidence = v.confidence
  BY DEF NoVerdict
<1> QED
  BY <1>1, <1>2

(* So every row leaves a confidence between 0 and 1.                           *)
LEMMA RowsConfident ==
  ASSUME PlaceInv,
         \/ NothingMeasured \/ External \/ Loop
         \/ NearMissRow \/ UnlocalizedRow \/ CutPointRow
         \/ Multi \/ Fabrication \/ Composition \/ Unclassified
  PROVE  verdict'.confidence \in Fraction /\ pc' = "gaps"
<1>0. \A name \in Rows : pc = name => Found /\ first_row = name
  BY DEF PlaceInv, Rows
<1> DEFINE With(q, D, x) == [NoVerdict EXCEPT !.culprits = q, !.defects = D, !.confidence = x]
<1>a. ASSUME NEW q, NEW D, NEW x \in Fraction
      PROVE  With(q, D, x).confidence \in Fraction /\ DOMAIN With(q, D, x) = DOMAIN NoVerdict
  BY <1>a DEF NoVerdict
<1>1. CASE NothingMeasured \/ Unclassified
  <2>1. NoVerdict.confidence \in Fraction
    BY DEF NoVerdict, Fraction
  <2> QED
    BY <1>1, <2>1, RowConfident DEF NothingMeasured, Unclassified
<1>2. CASE External
  <2> DEFINE run == FirstIn(cond.topo, flawed_sources)
             score == Max({0, inp.score[run]})
             c == [CandidateOf(cond, inp, run) EXCEPT
                     !.score = score, !.base = 100, !.drop = 100 - score]
             x == compute_confidence(c, FALSE, chain)
             v == With(<<run>>, emit_external({}, run), x)
  <2>1. pc = "external" /\ Decide("external", v)
    BY <1>2 DEF External, Decide
  <2>2. Found /\ flawed_sources # {}
    BY <1>0, <2>1, RowChosen DEF Rows
  <2>3. x \in Fraction
    BY <2>2, ExternalConfident
  <2> HIDE DEF x, run
  <2>4. v.confidence \in Fraction /\ DOMAIN v = DOMAIN NoVerdict
    BY <1>a, <2>3
  <2> HIDE DEF v
  <2> QED
    BY <2>1, <2>4, RowConfident
<1>3. CASE Loop
  <2>1. pc = "loop" /\ Decide("loop", looped)
    BY <1>3 DEF Loop, Decide
  <2>2. looped.confidence \in Fraction
    BY <1>0, <2>1, RowChosen, LoopConfident DEF Rows
  <2>3. DOMAIN looped = DOMAIN NoVerdict
    BY DEF looped, NoVerdict
  <2> QED
    BY <2>1, <2>2, <2>3, RowConfident
<1>4. CASE NearMissRow
  <2>1. pc = "near_miss" /\ Decide("near_miss", missed)
    BY <1>4 DEF NearMissRow, Decide
  <2>2. missed.confidence \in Fraction /\ DOMAIN missed = DOMAIN NoVerdict
    BY <1>0, <2>1, RowChosen, NearMissConfident DEF Rows
  <2> QED
    BY <2>1, <2>2, RowConfident
<1>5. CASE UnlocalizedRow
  <2> DEFINE m == Measured(one.run, one)
             x == report_type_cap("terminal_defect_unlocalized")
             v == [m EXCEPT !.confidence = x, !.drops = BuiltDrops,
                            !.defects = emit_terminal_unlocalized(one.run)]
  <2>1. DOMAIN m = DOMAIN NoVerdict
    BY MeasuredCulprit
  <2>2. Decide("unlocalized", v)
    BY <1>5 DEF UnlocalizedRow
  <2>3. x \in Fraction
    BY DEF report_type_cap, Fraction
  <2> HIDE DEF m, x
  <2>4. v.confidence \in Fraction /\ DOMAIN v = DOMAIN NoVerdict
    BY <2>1, <2>3 DEF NoVerdict
  <2> HIDE DEF v
  <2> QED
    BY <2>2, <2>4, RowConfident
<1>6. CASE CutPointRow
  <2>1. pc = "cut_point" /\ Decide("cut_point", cut)
    BY <1>6 DEF CutPointRow, Decide
  <2>2. cut.confidence \in Fraction /\ DOMAIN cut = DOMAIN NoVerdict
    BY <1>0, <2>1, RowChosen, CutConfident DEF Rows
  <2> QED
    BY <2>1, <2>2, RowConfident
<1>7. CASE Multi
  <2> DEFINE x == SumConfidence(candidates) \div Len(candidates)
  <2>1. PICK culprits, drops, cycle, measured, defects :
          Decide("multi", [NoVerdict EXCEPT
             !.culprits = culprits, !.drops = drops, !.cycle = cycle,
             !.measured = measured, !.defects = defects, !.confidence = x])
    BY <1>7 DEF Multi
  <2> DEFINE v == [NoVerdict EXCEPT
             !.culprits = culprits, !.drops = drops, !.cycle = cycle,
             !.measured = measured, !.defects = defects, !.confidence = x]
  <2>2. Decide("multi", v) /\ pc = "multi"
    BY <2>1 DEF Decide
  <2>3. x \in Fraction
    BY <1>0, <2>2, RowChosen, MultiConfident DEF Rows
  <2> HIDE DEF x
  <2>4. v.confidence \in Fraction /\ DOMAIN v = DOMAIN NoVerdict
    BY <2>3 DEF NoVerdict
  <2> HIDE DEF v
  <2> QED
    BY <2>2, <2>4, RowConfident
<1>8. CASE Fabrication
  <2> DEFINE run == FirstIn(graph_nodes(cond), content_flagged)
             v == With(<<run>>, emit_cut_point({}, run, DETERMINISTIC_ATTRIBUTION, Unknown),
                       CORROBORATED_FLAG)
  <2>1. Decide("fabrication", v)
    BY <1>8 DEF Fabrication
  <2>2. CORROBORATED_FLAG \in Fraction
    BY DEF CORROBORATED_FLAG, Fraction
  <2>3. v.confidence \in Fraction /\ DOMAIN v = DOMAIN NoVerdict
    BY <1>a, <2>2
  <2> HIDE DEF v
  <2> QED
    BY <2>1, <2>3, RowConfident
<1>9. CASE Composition
  <2> DEFINE x == report_type_cap("composition_failure")
             v == With(<<Min(sources(cond))>>, emit_composition, x)
  <2>1. Decide("composition", v)
    BY <1>9 DEF Composition
  <2>2. x \in Fraction
    BY DEF report_type_cap, Fraction
  <2> HIDE DEF x
  <2>3. v.confidence \in Fraction /\ DOMAIN v = DOMAIN NoVerdict
    BY <1>a, <2>2
  <2> HIDE DEF v
  <2> QED
    BY <2>1, <2>3, RowConfident
<1> QED
  BY <1>1, <1>2, <1>3, <1>4, <1>5, <1>6, <1>7, <1>8, <1>9

(* In every pass the confidence is between 0 and 1.                            *)
ConfidenceInv == verdict.confidence \in Fraction

(* Every pass keeps it there: a cap takes the lesser of two.                   *)
LEMMA ConfidenceStep ==
  ASSUME EngineInv, PlaceInv, ConfidenceInv, [Next]_vars
  PROVE  ConfidenceInv'
<1>1. DOMAIN verdict = DOMAIN NoVerdict /\ verdict.confidence \in Fraction
  BY DEF EngineInv, ConfidenceInv
<1>a. \A type : report_type_cap(type) \in Fraction
  BY DEF report_type_cap, Fraction
<1>2. CASE UNCHANGED verdict
  BY <1>1, <1>2 DEF ConfidenceInv
<1>3. CASE \/ NothingMeasured \/ External \/ Loop
           \/ NearMissRow \/ UnlocalizedRow \/ CutPointRow
           \/ Multi \/ Fabrication \/ Composition \/ Unclassified
  BY <1>3, RowsConfident DEF ConfidenceInv
<1>4. CASE VerificationGaps
  <2>1. PICK gaps, culprits, defects, type :
          \/ verdict' = [verdict EXCEPT !.gaps = gaps, !.culprits = culprits,
                           !.confidence = report_type_cap("verification_gap"),
                           !.defects = defects, !.type = type]
          \/ verdict' = [verdict EXCEPT !.gaps = gaps, !.type = type]
    BY <1>4 DEF VerificationGaps
  <2> DEFINE x == report_type_cap("verification_gap")
  <2>2. x \in Fraction
    BY <1>a
  <2> HIDE DEF x
  <2>3. verdict'.confidence \in {verdict.confidence, x}
    <3>1. CASE verdict' = [verdict EXCEPT !.gaps = gaps, !.type = type]
      BY <1>1, <3>1 DEF NoVerdict
    <3>2. CASE verdict' = [verdict EXCEPT !.gaps = gaps, !.culprits = culprits,
                             !.confidence = x, !.defects = defects, !.type = type]
      BY <1>1, <3>2 DEF NoVerdict
    <3> QED
      BY <2>1, <3>1, <3>2 DEF x
  <2> QED
    BY <1>1, <2>2, <2>3 DEF ConfidenceInv
<1>5. CASE Escalate
  <2>1. verdict'.confidence = verdict.confidence
    BY <1>1, <1>5 DEF Escalate, NoVerdict
  <2> QED
    BY <1>1, <2>1 DEF ConfidenceInv
<1>6. CASE Finish
  <2> DEFINE x == Min({verdict.confidence, report_type_cap(verdict.type)})
             y == Min({x, SINGLE_CHANNEL_CUT_POINT_CAP})
  <2>1. verdict'.confidence \in {x, y}
    <3> DEFINE v == verdict'
               z == IF (verdict.culprits # << >> /\ verdict.culprits[1] \in inp.thin)
                       /\ verdict.type = "cut_point" THEN y ELSE x
    <3>1. \E path, cost, divergences, shown, hypotheses, trace, raised :
            v = [verdict EXCEPT
                   !.confidence = z, !.path = path, !.cost = cost,
                   !.divergences = divergences, !.manifestation = shown,
                   !.hypotheses = hypotheses, !.candidacy = trace, !.raised = raised]
      BY <1>6, ZenonT(60) DEF Finish
    <3>2. z \in {x, y}
      OBVIOUS
    <3> HIDE DEF v, z, x, y
    <3>3. v.confidence = z
      BY <1>1, <3>1 DEF NoVerdict
    <3> QED
      BY <3>2, <3>3 DEF v
  <2>2. x \in Fraction
    <3> DEFINE a == verdict.confidence
               b == report_type_cap(verdict.type)
    <3>1. a \in Fraction /\ b \in Fraction
      BY <1>1, <1>a
    <3> HIDE DEF a, b
    <3>2. a \in Int /\ b \in Int
      BY <3>1 DEF Fraction
    <3>3. Min({a, b}) \in {a, b}
      BY <3>2, MinTwo
    <3> QED
      BY <3>1, <3>3 DEF a, b
  <2> HIDE DEF x
  <2>3. SINGLE_CHANNEL_CUT_POINT_CAP \in Fraction
    BY DEF SINGLE_CHANNEL_CUT_POINT_CAP, Fraction
  <2>4. y \in Fraction
    <3> DEFINE b == SINGLE_CHANNEL_CUT_POINT_CAP
    <3> HIDE DEF b
    <3>1. x \in Int /\ b \in Int
      BY <2>2, <2>3 DEF Fraction, b
    <3>2. Min({x, b}) \in {x, b}
      BY <3>1, MinTwo
    <3> QED
      BY <2>2, <2>3, <3>2 DEF b
  <2> HIDE DEF y
  <2> QED
    BY <2>1, <2>2, <2>4 DEF ConfidenceInv
<1>7. Localize \/ Classify \/ UNCHANGED vars => UNCHANGED verdict
  BY DEF Localize, Classify, vars
<1> QED
  BY <1>2, <1>3, <1>4, <1>5, <1>6, <1>7 DEF Next

--------------------------------------------------------------------------------
(* The form of a report.                                                       *)

(* A defect of a known kind, at a run of the trace or at none.                 *)
Formed(d) == d.kind \in Kinds /\ d.run \in inp.nodes \cup {Unknown}

(* The emitters make such defects of the runs of the trace: for a contract, .. *)
LEMMA ContractFormed ==
  ASSUME NEW run \in inp.nodes, NEW attribution, NEW marker
  PROVE  Formed(contract_defect(run, attribution, marker))
BY DEF contract_defect, Defect, Formed, Kinds

(* .. for its content,                                                         *)
LEMMA ContentFormed ==
  ASSUME NEW drops, NEW run \in inp.nodes, NEW recovered, NEW attribution
  PROVE  Formed(content_defect(drops, run, recovered, attribution))
BY DEF content_defect, Defect, Formed, Kinds

(* .. of several culprits,                                                     *)
LEMMA MultiFormed ==
  ASSUME NEW drops, NEW culprits, culprits \subseteq inp.nodes
  PROVE  \A d \in emit_multi(drops, culprits) : Formed(d)
<1> SUFFICES ASSUME NEW d \in emit_multi(drops, culprits) PROVE Formed(d)
  OBVIOUS
<1>1. \/ \E c \in culprits : d = contract_defect(c, Unknown, ~terminal_bad)
      \/ \E c \in culprits : d = content_defect(drops, c, FALSE, Unknown)
  BY DEF emit_multi
<1> QED
  BY <1>1, ContractFormed, ContentFormed

(* .. of one,                                                                  *)
LEMMA OneFormed ==
  ASSUME NEW drops, NEW run \in inp.nodes, NEW a, NEW b
  PROVE  /\ \A d \in emit_cut_point(drops, run, a, b) : Formed(d)
         /\ \A d \in emit_degraded_recovered(drops, run, a, b) : Formed(d)
<1>1. ASSUME NEW d \in emit_cut_point(drops, run, a, b) PROVE Formed(d)
  <2>1. \/ d = contract_defect(run, a, ~EmitsContent(run))
        \/ d = content_defect(drops, run, FALSE, b)
    BY DEF emit_cut_point
  <2> QED
    BY <2>1, ContractFormed, ContentFormed
<1>2. ASSUME NEW d \in emit_degraded_recovered(drops, run, a, b) PROVE Formed(d)
  <2>1. d \in {contract_defect(run, a, TRUE), content_defect(drops, run, TRUE, b)}
    BY DEF emit_degraded_recovered
  <2> QED
    BY <2>1, ContractFormed, ContentFormed
<1> QED
  BY <1>1, <1>2

(* .. of the whole,                                                            *)
LEMMA CompositionFormed == \A d \in emit_composition : Formed(d)
BY DEF emit_composition, Defect, Formed, Kinds

(* .. of an input, an attempt or a hard fault,                                 *)
LEMMA RunFormed ==
  ASSUME NEW run \in inp.nodes
  PROVE  /\ \A d \in emit_external({}, run) : Formed(d)
         /\ \A d \in emit_loop(run) : Formed(d)
         /\ \A d \in emit_terminal_unlocalized(run) : Formed(d)
<1>1. \A d \in emit_external({}, run) : Formed(d)
  BY DEF emit_external, Defect, Formed, Kinds
<1>2. \A d \in emit_loop(run) : Formed(d)
  BY DEF emit_loop, Defect, Formed, Kinds
<1>3. ASSUME NEW d \in emit_terminal_unlocalized(run) PROVE Formed(d)
  <2>1. d = contract_defect(run, DETERMINISTIC_ATTRIBUTION, TRUE) \/ d \in emit_composition
    BY DEF emit_terminal_unlocalized
  <2> QED
    BY <2>1, ContractFormed, CompositionFormed
<1> QED
  BY <1>1, <1>2, <1>3

(* .. of verifiers                                                             *)
LEMMA VerificationFormed ==
  ASSUME NEW runs, runs \subseteq inp.nodes
  PROVE  \A d \in emit_verification(runs) : Formed(d)
BY DEF emit_verification, Defect, Formed, Kinds

(* .. and of the form.                                                         *)
LEMMA FormFormed ==
  ASSUME Found
  PROVE  \A d \in emit_form : Formed(d)
<1> DEFINE makers == {n \in inp.nodes : \E b \in inp.breach[n] : b[2] = inp.terminal.observed}
           q == graph_nodes(cond)
           run == FirstIn(q, makers)
<1> SUFFICES ASSUME NEW d \in emit_form PROVE Formed(d)
  OBVIOUS
<1>1. d.kind = "form" /\ (d.run = Unknown \/ (makers # {} /\ d.run = run))
  BY DEF emit_form, Defect
<1>2. Listed(q) /\ ToSet(q) = inp.nodes
  BY GraphNodes
<1>3. makers \subseteq inp.nodes
  OBVIOUS
<1>4. makers # {} => run \in inp.nodes
  <2> HIDE DEF makers, q
  <2> QED
    BY <1>2, <1>3, ListedFirst
<1> HIDE DEF makers, run
<1> QED
  BY <1>1, <1>4 DEF Formed, Kinds

(* A loop and the origins elsewhere are at runs of the trace.                  *)
LEMMA LoopFormed ==
  ASSUME Found, Runaway # {},
         candidates # << >> => Runaway \cap RunsOf(candidates) # {}
  PROVE  \A d \in looped.defects : Formed(d)
<1>1. PICK s \in Runaway : \E x \in cond.members[s] : \E drops, S :
         /\ looped.defects = emit_loop(x) \cup emit_multi(drops, S)
         /\ \A n \in S : \E d \in Candidates : n = Resolve(d).culprit
  BY LoopDefects
<1>2. PICK x \in cond.members[s] : \E drops, S :
         /\ looped.defects = emit_loop(x) \cup emit_multi(drops, S)
         /\ \A n \in S : \E d \in Candidates : n = Resolve(d).culprit
  BY <1>1
<1>3. PICK drops, S :
         /\ looped.defects = emit_loop(x) \cup emit_multi(drops, S)
         /\ \A n \in S : \E d \in Candidates : n = Resolve(d).culprit
  BY <1>2
<1>4. x \in inp.nodes
  <2>1. s \in Supers(cond)
    BY DEF Runaway, anomalies
  <2> QED
    BY <1>2, <2>1, MembersAre DEF Found
<1>5. S \subseteq inp.nodes
  <2> SUFFICES ASSUME NEW n \in S PROVE n \in inp.nodes
    OBVIOUS
  <2>1. PICK d \in Candidates : n = Resolve(d).culprit
    BY <1>3
  <2>2. CandidateLike(d, cond, inp) /\ Graphed(cond, inp)
    BY <2>1, CandidatesAre DEF Found
  <2>3. n \in cond.members[d.run] /\ cond.members[d.run] \subseteq inp.nodes
    BY <2>1, <2>2, Resolved, MembersAre DEF CandidateLike
  <2> QED
    BY <2>3
<1>6. \A d \in emit_loop(x) : Formed(d)
  BY <1>4, RunFormed
<1>7. \A d \in emit_multi(drops, S) : Formed(d)
  BY <1>5, MultiFormed
<1> QED
  BY <1>3, <1>6, <1>7

(* What a row decides, before a type is derived and a path is drawn.           *)
Plain(v) == DOMAIN v = DOMAIN NoVerdict /\ v.type = "none" /\ v.path = << >>

(* What the rows of one candidate start from is.                               *)
LEMMA MeasuredPlain ==
  ASSUME NEW run, NEW c
  PROVE  Plain(Measured(run, c)) /\ Measured(run, c).culprits = <<run>>
BY DEF Measured, NoVerdict, Plain

(* The invariant of the report's form: before a row decides there is nothing,  *)
(* before the gaps no type and before the end no path.                         *)
FormInv ==
  /\ pc \notin Told \cup {"gaps"} => verdict = NoVerdict
  /\ pc \notin Told => verdict.type = "none"
  /\ pc # "done" => verdict.path = << >>
  /\ \A d \in verdict.defects : Formed(d)

(* A plain row with such defects keeps it ..                                   *)
LEMMA RowForms ==
  ASSUME NEW name, NEW v, Decide(name, v), Plain(v), \A d \in v.defects : Formed(d)
  PROVE  FormInv'
<1> DEFINE w == [v EXCEPT !.row = name]
<1>1. verdict' = w /\ pc' = "gaps" /\ inp' = inp
  BY DEF Decide
<1>2. w.type = "none" /\ w.path = << >> /\ w.defects = v.defects
  BY DEF Plain, NoVerdict
<1> HIDE DEF w
<1>3. \A d : Formed(d)' <=> Formed(d)
  BY <1>1 DEF Formed
<1> QED
  BY <1>1, <1>2, <1>3 DEF FormInv, Told

(* .. and every row is one.  Its culprits are those that PlaceInv is about.    *)
LEMMA RowsForm ==
  ASSUME PlaceInv, PlaceInv',
         \/ NothingMeasured \/ External \/ Loop
         \/ NearMissRow \/ UnlocalizedRow \/ CutPointRow
         \/ Multi \/ Fabrication \/ Composition \/ Unclassified
  PROVE  FormInv'
<1>0. \A name \in Rows : pc = name => Found /\ first_row = name
  BY DEF PlaceInv, Rows
<1>n. ASSUME NEW name, NEW v, Decide(name, v), Plain(v) PROVE ToSet(v.culprits) \subseteq inp.nodes
  <2> DEFINE w == [v EXCEPT !.row = name]
  <2>1. verdict' = w /\ pc' = "gaps" /\ inp' = inp
    BY <1>n DEF Decide
  <2>2. w.culprits = v.culprits
    BY <1>n DEF Plain, NoVerdict
  <2> HIDE DEF w
  <2>3. ToSet(verdict'.culprits) \subseteq inp.nodes
    BY <2>1 DEF PlaceInv, Made, AreNamed
  <2> QED
    BY <2>1, <2>2, <2>3
<1>o. ASSUME NEW run, ToSet(<<run>>) \subseteq inp.nodes PROVE run \in inp.nodes
  BY <1>o DEF ToSet
<1>1. CASE NothingMeasured \/ Unclassified
  <2>1. Plain(NoVerdict) /\ \A d \in NoVerdict.defects : Formed(d)
    BY DEF NoVerdict, Plain
  <2> QED
    BY <1>1, <2>1, RowForms DEF NothingMeasured, Unclassified
<1>2. CASE External
  <2> DEFINE run == FirstIn(cond.topo, flawed_sources)
  <2>1. PICK confidence :
          Decide("external", [NoVerdict EXCEPT !.culprits = <<run>>,
                                !.defects = emit_external({}, run),
                                !.confidence = confidence])
    BY <1>2 DEF External
  <2> DEFINE v == [NoVerdict EXCEPT !.culprits = <<run>>, !.defects = emit_external({}, run),
                                    !.confidence = confidence]
  <2>2. v.culprits = <<run>> /\ v.defects = emit_external({}, run) /\ Plain(v)
    BY DEF NoVerdict, Plain
  <2>3. Decide("external", v)
    BY <2>1
  <2> HIDE DEF v, run
  <2>4. run \in inp.nodes
    BY <1>n, <1>o, <2>2, <2>3
  <2>5. \A d \in v.defects : Formed(d)
    BY <2>2, <2>4, RunFormed
  <2> QED
    BY <2>2, <2>3, <2>5, RowForms
<1>3. CASE Loop
  <2>1. Decide("loop", looped) /\ pc = "loop"
    BY <1>3 DEF Loop, Decide
  <2>2. \A d \in looped.defects : Formed(d)
    BY <1>0, <2>1, RowChosen, LoopFormed DEF Rows
  <2>3. Plain(looped)
    BY DEF looped, NoVerdict, Plain
  <2> QED
    BY <2>1, <2>2, <2>3, RowForms
<1>4. CASE NearMissRow
  <2>1. Decide("near_miss", missed)
    BY <1>4 DEF NearMissRow
  <2>2. PICK run, c, confidence, tied, cycle, drops, a, b :
          missed = [Measured(run, c) EXCEPT
             !.confidence = confidence, !.tied = tied, !.cycle = cycle, !.drops = drops,
             !.defects = emit_degraded_recovered(drops, run, a, b)]
    BY ZenonT(60) DEF missed
  <2>3. /\ Plain(missed) /\ missed.culprits = <<run>>
        /\ missed.defects = emit_degraded_recovered(drops, run, a, b)
    <3> DEFINE m == Measured(run, c)
    <3>1. Plain(m) /\ m.culprits = <<run>>
      BY MeasuredPlain
    <3> HIDE DEF m
    <3> QED
      BY <2>2, <3>1 DEF Plain, NoVerdict, m
  <2>4. run \in inp.nodes
    BY <1>n, <1>o, <2>1, <2>3
  <2>5. \A d \in missed.defects : Formed(d)
    BY <2>3, <2>4, OneFormed
  <2> QED
    BY <2>1, <2>3, <2>5, RowForms
<1>5. CASE UnlocalizedRow
  <2> DEFINE m == Measured(one.run, one)
             v == [m EXCEPT
                !.confidence = report_type_cap("terminal_defect_unlocalized"),
                !.drops = BuiltDrops,
                !.defects = emit_terminal_unlocalized(one.run)]
  <2>1. Plain(m) /\ m.culprits = <<one.run>>
    BY MeasuredPlain
  <2>2. Decide("unlocalized", v)
    BY <1>5 DEF UnlocalizedRow
  <2> HIDE DEF m
  <2>3. /\ v.defects = emit_terminal_unlocalized(one.run) /\ v.culprits = <<one.run>>
        /\ Plain(v)
    BY <2>1 DEF NoVerdict, Plain
  <2> HIDE DEF v
  <2>4. one.run \in inp.nodes
    BY <1>n, <1>o, <2>2, <2>3
  <2>5. \A d \in v.defects : Formed(d)
    BY <2>3, <2>4, RunFormed
  <2> QED
    BY <2>2, <2>3, <2>5, RowForms
<1>6. CASE CutPointRow
  <2>1. Decide("cut_point", cut)
    BY <1>6 DEF CutPointRow
  <2> DEFINE run == drill(one).culprit
             m == Measured(run, drilled_one)
  <2>2. Plain(m) /\ m.culprits = <<run>>
    BY MeasuredPlain
  <2>3. PICK drops, a, b :
           Plain(cut) /\ cut.culprits = m.culprits /\ cut.defects = emit_cut_point(drops, run, a, b)
    <3> HIDE DEF m
    <3> QED
      BY <2>2 DEF cut, m, Plain, NoVerdict
  <2> HIDE DEF run, m
  <2>4. run \in inp.nodes
    BY <1>n, <1>o, <2>1, <2>2, <2>3
  <2>5. \A d \in cut.defects : Formed(d)
    BY <2>3, <2>4, OneFormed
  <2> QED
    BY <2>1, <2>3, <2>5, RowForms
<1>7. CASE Multi
  <2>1. PICK drops, cycle, measured, confidence :
          Decide("multi", [NoVerdict EXCEPT
             !.culprits = CulpritsOf(candidates), !.drops = drops, !.cycle = cycle,
             !.measured = measured,
             !.defects = emit_multi(drops, ToSet(CulpritsOf(candidates))),
             !.confidence = confidence])
    BY <1>7 DEF Multi, CulpritsOf
  <2> DEFINE q == CulpritsOf(candidates)
             v == [NoVerdict EXCEPT
             !.culprits = q, !.drops = drops, !.cycle = cycle,
             !.measured = measured,
             !.defects = emit_multi(drops, ToSet(q)),
             !.confidence = confidence]
  <2>2. v.defects = emit_multi(drops, ToSet(q)) /\ v.culprits = q /\ Plain(v)
    BY DEF NoVerdict, Plain
  <2>3. Decide("multi", v)
    BY <2>1
  <2> HIDE DEF v, q
  <2>4. ToSet(q) \subseteq inp.nodes
    BY <1>n, <2>2, <2>3
  <2>5. \A d \in v.defects : Formed(d)
    BY <2>2, <2>4, MultiFormed
  <2> QED
    BY <2>2, <2>3, <2>5, RowForms
<1>8. CASE Fabrication
  <2> DEFINE run == FirstIn(graph_nodes(cond), content_flagged)
  <2>1. PICK a, b, confidence :
          Decide("fabrication", [NoVerdict EXCEPT
             !.culprits = <<run>>,
             !.defects = emit_cut_point({}, run, a, b), !.confidence = confidence])
    BY <1>8 DEF Fabrication
  <2> DEFINE v == [NoVerdict EXCEPT !.culprits = <<run>>,
             !.defects = emit_cut_point({}, run, a, b), !.confidence = confidence]
  <2>2. v.defects = emit_cut_point({}, run, a, b) /\ v.culprits = <<run>> /\ Plain(v)
    BY DEF NoVerdict, Plain
  <2>3. Decide("fabrication", v)
    BY <2>1
  <2> HIDE DEF v, run
  <2>4. run \in inp.nodes
    BY <1>n, <1>o, <2>2, <2>3
  <2>5. \A d \in v.defects : Formed(d)
    BY <2>2, <2>4, OneFormed
  <2> QED
    BY <2>2, <2>3, <2>5, RowForms
<1>9. CASE Composition
  <2>1. PICK culprits, confidence :
          Decide("composition", [NoVerdict EXCEPT
             !.culprits = culprits, !.defects = emit_composition,
             !.confidence = confidence])
    BY <1>9 DEF Composition
  <2> DEFINE v == [NoVerdict EXCEPT
             !.culprits = culprits, !.defects = emit_composition,
             !.confidence = confidence]
  <2>2. v.defects = emit_composition /\ Plain(v)
    BY DEF NoVerdict, Plain
  <2>3. Decide("composition", v)
    BY <2>1
  <2> HIDE DEF v
  <2> QED
    BY <2>2, <2>3, CompositionFormed, RowForms
<1> QED
  BY <1>1, <1>2, <1>3, <1>4, <1>5, <1>6, <1>7, <1>8, <1>9

(* A verification gap puts verifiers in place of the defects.                  *)
LEMMA GapsForm ==
  ASSUME PlaceInv, FormInv, DOMAIN verdict = DOMAIN NoVerdict, VerificationGaps
  PROVE  FormInv'
<1> DEFINE gaps == ScoredGaps \cup PassedBad(ToSet(verdict.culprits))
           asserted == {g.run : g \in {h \in gaps : h.basis # "verifier_flag_conflict"}}
           wrong == {g.run : g \in ScoredGaps}
           type == derive_report_type(verdict.defects)
           promoted == type \in {"composition_failure", "unclassified"} /\ asserted # {}
           vp == [verdict EXCEPT
                     !.gaps = gaps,
                     !.culprits = ByTime(wrong \cap asserted) \o ByTime(asserted \ wrong),
                     !.confidence = report_type_cap("verification_gap"),
                     !.defects = emit_verification(asserted),
                     !.type = derive_report_type(emit_verification(asserted))]
           vn == [verdict EXCEPT !.gaps = gaps, !.type = type]
<1>1. pc = "gaps" /\ pc' = "escalate" /\ inp' = inp
      /\ verdict' = IF promoted THEN vp ELSE vn
  BY DEF VerificationGaps
<1>2. verdict.path = << >> /\ \A d \in verdict.defects : Formed(d)
  BY <1>1 DEF FormInv
<1>3. /\ vp.path = verdict.path /\ vp.defects = emit_verification(asserted)
      /\ vn.path = verdict.path /\ vn.defects = verdict.defects
  BY DEF NoVerdict
<1>4. asserted \subseteq inp.nodes
  BY GapRuns
<1> HIDE DEF gaps, asserted, wrong, vp, vn, promoted
<1>5. \A d \in emit_verification(asserted) : Formed(d)
  BY <1>4, VerificationFormed
<1>6. verdict'.path = << >> /\ \A d \in verdict'.defects : Formed(d)
  BY <1>1, <1>2, <1>3, <1>5
<1>7. \A d : Formed(d)' <=> Formed(d)
  BY <1>1 DEF Formed
<1> QED
  BY <1>1, <1>6, <1>7 DEF FormInv, Told

(* Every pass keeps it.                                                        *)
LEMMA FormStep ==
  ASSUME EngineInv, PlaceInv, PlaceInv', FormInv, [Next]_vars
  PROVE  FormInv'
<1>0. DOMAIN verdict = DOMAIN NoVerdict
  BY DEF EngineInv
<1>1. CASE Localize \/ Classify
  <2>1. /\ verdict' = verdict /\ inp' = inp /\ pc \notin Told \cup {"gaps"}
        /\ pc' \notin Told \cup {"gaps"}
    BY <1>1 DEF Localize, Classify, first_row, Told
  <2>2. \A d : Formed(d)' <=> Formed(d)
    BY <2>1 DEF Formed
  <2> QED
    BY <2>1, <2>2 DEF FormInv, Told
<1>2. CASE \/ NothingMeasured \/ External \/ Loop
           \/ NearMissRow \/ UnlocalizedRow \/ CutPointRow
           \/ Multi \/ Fabrication \/ Composition \/ Unclassified
  BY <1>2, RowsForm
<1>3. CASE VerificationGaps
  BY <1>0, <1>3, GapsForm
<1>4. CASE Escalate \/ Finish
  <2>1. /\ pc \in Told /\ pc' \in {"finish", "done"} /\ inp' = inp /\ cond' = cond
        /\ verdict'.defects = verdict.defects
             \/ (pc = "escalate" /\ verdict'.defects = verdict.defects \cup emit_form)
        /\ pc' # "done" => pc # "done" /\ verdict'.path = verdict.path
    BY <1>0, <1>4 DEF Escalate, Finish, NoVerdict, Told
  <2>2. Found
    BY <2>1 DEF PlaceInv, Told
  <2>3. \A d \in emit_form : Formed(d)
    BY <2>2, FormFormed
  <2>4. \A d : Formed(d)' <=> Formed(d)
    BY <2>1 DEF Formed
  <2> QED
    BY <2>1, <2>3, <2>4 DEF FormInv, Told
<1>5. CASE UNCHANGED vars
  <2>1. inp' = inp /\ pc' = pc /\ verdict' = verdict
    BY <1>5 DEF vars
  <2>2. \A d : Formed(d)' <=> Formed(d)
    BY <2>1 DEF Formed
  <2> QED
    BY <2>1, <2>2 DEF FormInv
<1> QED
  BY <1>1, <1>2, <1>3, <1>4, <1>5 DEF Next

(* The path that is drawn goes over super-nodes.                               *)
LEMMA PathInGraph ==
  ASSUME PlaceInv, PathTrue, Done, verdict.culprits # << >>
  PROVE  \A i \in DOMAIN verdict.path : verdict.path[i] \in Supers(cond)
<1> DEFINE p == verdict.path
           n == verdict.culprits[1]
<1>1. PICK v \in sinks(cond) : IsWay(p, cond, cond.exitOf[n], v)
  BY PathIsWay
<1> HIDE DEF p, n
<1>2. p \in Seq(Supers(cond))
  BY <1>1 DEF IsWay
<1>3. \A i \in DOMAIN p : p[i] \in Supers(cond)
  <2> DEFINE X == Supers(cond)
  <2> HIDE DEF X
  <2> QED
    BY <1>2 DEF X
<1> QED
  BY <1>3 DEF p

(* Where nobody is named no path is drawn.                                     *)
NoPath == pc = "done" /\ verdict.culprits = << >> => verdict.path = << >>

(* Every pass keeps that.                                                      *)
LEMMA NoPathStep ==
  ASSUME EngineInv, NoPath, [Next]_vars
  PROVE  NoPath'
<1>1. CASE Finish
  <2>1. /\ verdict'.culprits = verdict.culprits
        /\ verdict.culprits = << >> => verdict'.path = << >>
    BY <1>1 DEF Finish, EngineInv, NoVerdict
  <2> QED
    BY <2>1 DEF NoPath
<1>2. CASE Next /\ ~Finish
  <2>1. pc' # "done"
    BY <1>2 DEF Next, Localize, Classify, first_row, NothingMeasured, External, Loop,
         NearMissRow, UnlocalizedRow, CutPointRow, Multi, Fabrication, Composition,
         Unclassified, Decide, VerificationGaps, Escalate
  <2> QED
    BY <2>1 DEF NoPath
<1>3. CASE UNCHANGED vars
  BY <1>3 DEF vars, NoPath
<1> QED
  BY <1>1, <1>2, <1>3

(* Together that is a well-formed report.                                      *)
LEMMA TypesAtEnd ==
  ASSUME EngineInv, PlaceInv, ConfidenceInv, FormInv, PathTrue, NoPath
  PROVE  TypeOK
<1>1. ToSet(verdict.culprits) \subseteq inp.nodes
  <2>1. CASE pc = "gaps"
    BY <2>1 DEF PlaceInv, Made, AreNamed
  <2>2. CASE pc \in Told
    BY <2>2 DEF PlaceInv, Reported, AreNamed
  <2>3. CASE pc \notin Told \cup {"gaps"}
    <3>1. verdict.culprits = << >>
      BY <2>3 DEF FormInv, NoVerdict
    <3> QED
      BY <3>1, ListedEmpty
  <2> QED
    BY <2>1, <2>2, <2>3
<1>2. verdict.confidence \in 0..10000
  <2> DEFINE x == verdict.confidence
  <2>1. x \in Nat /\ x <= 10000
    BY DEF ConfidenceInv, Fraction
  <2> HIDE DEF x
  <2>2. x \in 0..10000
    BY <2>1
  <2> QED
    BY <2>2 DEF x
<1>3. verdict.type \in ReportTypes
  <2>1. CASE pc \in Told
    BY <2>1 DEF PlaceInv, Reported
  <2>2. CASE pc \notin Told
    BY <2>2 DEF FormInv, ReportTypes
  <2> QED
    BY <2>1, <2>2
<1>4. \A d \in verdict.defects : d.kind \in Kinds /\ d.run \in inp.nodes \cup {Unknown}
  BY DEF FormInv, Formed
<1>5. \A i \in DOMAIN verdict.path : verdict.path[i] \in Supers(cond)
  <2>1. CASE Done /\ verdict.culprits # << >>
    BY <2>1, PathInGraph
  <2>2. CASE ~Done \/ verdict.culprits = << >>
    <3>1. verdict.path = << >>
      BY <2>2 DEF FormInv, NoPath, Done
    <3> QED
      BY <3>1
  <2> QED
    BY <2>1, <2>2
<1> QED
  BY <1>1, <1>2, <1>3, <1>4, <1>5 DEF TypeOK

(* (find_blame) For every trace and all settings: the report names runs of its *)
(* own trace, in defects of known kinds, with a type that is known, a          *)
(* confidence between 0 and 1 whatever caps, penalties and means went into it, *)
(* and a path over super-nodes.                                                *)
THEOREM ReportsAreWellFormed == Spec => []TypeOK
<1>1. Init => ConfidenceInv /\ FormInv /\ PathTrue /\ NoPath
  BY DEF Init, ConfidenceInv, FormInv, PathTrue, NoPath, NoVerdict, Told, Fraction
<1>2. EngineInv /\ PlaceInv /\ ConfidenceInv /\ [Next]_vars => ConfidenceInv'
  BY ConfidenceStep
<1>3. EngineInv /\ PlaceInv /\ PlaceInv' /\ FormInv /\ [Next]_vars => FormInv'
  BY FormStep
<1>4. EngineInv /\ PathTrue /\ NoPath /\ [Next]_vars => PathTrue' /\ NoPath'
  BY PathStep, NoPathStep
<1>5. EngineInv /\ PlaceInv /\ ConfidenceInv /\ FormInv /\ PathTrue /\ NoPath => TypeOK
  BY TypesAtEnd
<1> QED
  BY <1>1, <1>2, <1>3, <1>4, <1>5, EngineFinds, PTL DEF Spec

--------------------------------------------------------------------------------
(* process(): the verdict of tier 1, reconciled, is what the engine reads and  *)
(* what the draft rests on.                                                    *)

Shaped(t) ==
  /\ {"nodes", "edges", "score", "flawed", "signals", "originates", "breach", "terminal"}
       \subseteq DOMAIN t
  /\ "verdict" \in DOMAIN t.terminal

Before == {"claimed", "loaded", "scored"}
After == {"blame", "facts", "drafted", "decided"}

Untouched == phase \in Before => pc = "idle" /\ verdict = NoVerdict /\ Shaped(inp)

Reconciled == phase \in After \/ Stored => inp.terminal.verdict = terminal_verdict

Drafted ==
  phase \in {"drafted", "decided"} \/ Stored =>
    /\ draft.type = effective_report_type
    /\ draft.trigger = classify_incident(effective_report_type, bundle.tier1.flags, terminal_bad)

AInv ==
  /\ bundle \in Bundles
  /\ EngineInv
  /\ Untouched
  /\ Reconciled
  /\ Drafted

LEMMA VerdictStays ==
  ASSUME bundle' = bundle
  PROVE  /\ terminal_verdict' = terminal_verdict
         /\ Stale' = Stale
<1>1. deliverable' = deliverable
  BY DEF deliverable, LastRuns, WalkBack, Into, Runs, Verifiers
<1> QED
  BY <1>1 DEF terminal_verdict, Stale, Reproduced

(* Steps in which find_blame does not take part.                               *)
LEMMA EngineStays ==
  ASSUME EngineInv, UNCHANGED vars
  PROVE  EngineInv' /\ terminal_bad' = terminal_bad
BY EngineStep DEF vars, terminal_bad

LEMMA AnalysisStarts == AnalysisInit => AInv
<1> SUFFICES ASSUME AnalysisInit PROVE AInv
  OBVIOUS
<1>1. /\ bundle \in Bundles /\ inp = bundle.trace
      /\ verdict = NoVerdict /\ pc = "idle" /\ phase = "claimed"
  BY DEF AnalysisInit
<1>2. EngineInv
  BY <1>1, NothingYet DEF BadRows
<1>3. Untouched
  BY <1>1, BundlesAssumption DEF Untouched, Shaped
<1> QED
  BY <1>1, <1>2, <1>3 DEF AInv, Reconciled, Drafted, Stored, Before, After

LEMMA AnalysisStep ==
  ASSUME AInv, [AnalysisNext]_analysisVars
  PROVE  AInv'
<1>1. /\ bundle \in Bundles /\ EngineInv
      /\ Untouched /\ Reconciled /\ Drafted
  BY DEF AInv
<1>2. CASE Load
  <2>1. EngineInv' /\ bundle' = bundle /\ UNCHANGED vars
    BY <1>1, <1>2, EngineStays DEF Load
  <2>2. /\ phase = "claimed"
        /\ phase' = "loaded" \/ (phase' = "persisted" /\ ~bundle'.found)
    BY <1>2 DEF Load
  <2>3. Untouched'
    BY <1>1, <2>1, <2>2 DEF Untouched, Before, Shaped, vars
  <2> QED
    BY <1>1, <2>1, <2>2, <2>3 DEF AInv, Reconciled, Drafted, Stored, Before, After
<1>3. CASE ScoreGraph
  <2>1. /\ phase = "loaded" /\ phase' = "scored" /\ bundle' = bundle
        /\ verdict' = verdict /\ pc' = pc
    BY <1>3 DEF ScoreGraph
  <2>2. PICK runs : inp' = Unjudged(bundle.trace, runs)
    BY <1>3 DEF ScoreGraph
  <2>3. Shaped(inp)'
    BY <1>1, <2>2, BundlesAssumption DEF Unjudged, Shaped
  <2>4. verdict' = NoVerdict /\ pc' = "idle"
    BY <1>1, <2>1 DEF Untouched, Before
  <2>5. EngineInv'
    BY <2>4 DEF EngineInv, NoVerdict, BadRows, BadTypes
  <2> QED
    BY <1>1, <2>1, <2>3, <2>4, <2>5
    DEF AInv, Untouched, Reconciled, Drafted, Stored, Before, After
<1>4. CASE StartBlame
  <2>1. /\ phase = "scored" /\ phase' = "blame" /\ pc' = "localize"
        /\ bundle' = bundle /\ verdict' = verdict
    BY <1>4 DEF StartBlame
  <2>2. verdict = NoVerdict /\ Shaped(inp)
    BY <1>1, <2>1 DEF Untouched, Before
  <2>3. inp'.terminal.verdict = terminal_verdict
    BY <1>4, <2>2 DEF StartBlame, Shaped
  <2>4. EngineInv'
    BY <2>1, <2>2 DEF EngineInv, NoVerdict, BadRows, BadTypes
  <2> QED
    BY <1>1, <2>1, <2>3, <2>4, VerdictStays
    DEF AInv, Untouched, Reconciled, Drafted, Stored, Before, After
<1>5. CASE FindBlame
  <2>1. /\ phase = "blame" /\ phase' = phase /\ bundle' = bundle
    BY <1>5 DEF FindBlame
  <2>2. EngineInv' /\ inp' = inp
    BY <1>1, <1>5, EngineStep, InputStays DEF FindBlame
  <2> QED
    BY <1>1, <2>1, <2>2, VerdictStays
    DEF AInv, Untouched, Reconciled, Drafted, Stored, Before, After
<1>6. CASE FactPropagation
  <2>1. /\ phase = "blame" /\ phase' = "facts" /\ bundle' = bundle /\ UNCHANGED vars
    BY <1>6 DEF FactPropagation
  <2>2. EngineInv' /\ inp' = inp
    BY <1>1, <2>1, EngineStays DEF vars
  <2> QED
    BY <1>1, <2>1, <2>2, VerdictStays
    DEF AInv, Untouched, Reconciled, Drafted, Stored, Before, After
<1>7. CASE DraftReport
  <2>1. /\ phase = "facts" /\ phase' = "drafted" /\ bundle' = bundle /\ UNCHANGED vars
        /\ contract_results' = contract_results
    BY <1>7 DEF DraftReport
  <2>2. EngineInv' /\ inp' = inp /\ terminal_bad' = terminal_bad /\ verdict' = verdict
    BY <1>1, <2>1, EngineStays DEF vars
  <2> DEFINE type == effective_report_type
             trigger == classify_incident(type, bundle.tier1.flags, terminal_bad)
  <2>3. type' = type
    BY <2>1, <2>2 DEF effective_report_type, Status
  <2> HIDE DEF type
  <2>4. draft'.type = type /\ draft'.trigger = trigger
    <3>1. CASE trigger = "none"
      BY <1>7, <3>1 DEF DraftReport, NoDraft, type
    <3>2. CASE trigger # "none"
      BY <1>7, <3>2 DEF DraftReport, type
    <3> QED
      BY <3>1, <3>2
  <2>5. trigger' = trigger
    BY <2>1, <2>2, <2>3
  <2>6. Drafted'
    BY <2>4, <2>5, <2>3 DEF Drafted, type
  <2> QED
    BY <1>1, <2>1, <2>2, <2>6, VerdictStays
    DEF AInv, Untouched, Reconciled, Stored, Before, After
<1>8. CASE EvaluatePolicies \/ Persist
  <2>1. /\ phase \in {"drafted", "decided"} /\ phase' \in {"decided", "persisted"}
        /\ bundle' = bundle /\ UNCHANGED vars
        /\ contract_results' = contract_results /\ draft' = draft
    BY <1>8 DEF EvaluatePolicies, Persist
  <2>2. EngineInv' /\ inp' = inp /\ terminal_bad' = terminal_bad /\ verdict' = verdict
    BY <1>1, <2>1, EngineStays DEF vars
  <2>3. effective_report_type' = effective_report_type
    BY <2>1, <2>2 DEF effective_report_type, Status
  <2> QED
    BY <1>1, <2>1, <2>2, <2>3, VerdictStays
    DEF AInv, Untouched, Reconciled, Drafted, Stored, Before, After
<1>9. CASE Fail
  <2>1. phase' = "failed" /\ bundle' = bundle /\ UNCHANGED vars
    BY <1>9 DEF Fail
  <2>2. EngineInv'
    BY <1>1, <2>1, EngineStays
  <2> QED
    BY <1>1, <2>1, <2>2 DEF AInv, Untouched, Reconciled, Drafted, Stored, Before, After
<1>10. CASE UNCHANGED analysisVars
  <2>1. /\ phase' = phase /\ bundle' = bundle /\ UNCHANGED vars
        /\ contract_results' = contract_results /\ draft' = draft
    BY <1>10 DEF analysisVars
  <2>2. /\ EngineInv' /\ inp' = inp /\ terminal_bad' = terminal_bad
        /\ verdict' = verdict /\ pc' = pc
    BY <1>1, <2>1, EngineStays DEF vars
  <2>3. effective_report_type' = effective_report_type
    BY <2>1, <2>2 DEF effective_report_type, Status
  <2> QED
    BY <1>1, <2>1, <2>2, <2>3, VerdictStays
    DEF AInv, Untouched, Shaped, Reconciled, Drafted, Stored
<1> QED
  BY <1>2, <1>3, <1>4, <1>5, <1>6, <1>7, <1>8, <1>9, <1>10 DEF AnalysisNext

(* For all graphs and settings, and wherever an await fails: what is drafted   *)
(* follows from the reconciled verdict and what find_blame made of it.         *)
THEOREM Invariance == AnalysisSpec => []AInv
<1>1. AnalysisInit => AInv
  BY AnalysisStarts
<1>2. AInv /\ [AnalysisNext]_analysisVars => AInv'
  BY AnalysisStep
<1> QED
  BY <1>1, <1>2, PTL DEF AnalysisSpec

(* (process, reconciliation) StaleNeverBlamed for all graphs: a bad verdict    *)
(* whose basis is gone opens no incident for a bad deliverable, names no place *)
(* where it shows, and no report type leans on it.                             *)
THEOREM NeverBlamedOnStale == AnalysisSpec => []StaleNeverBlamed
<1>1. AInv => StaleNeverBlamed
  <2> SUFFICES ASSUME AInv, Stored, Stale
               PROVE  /\ draft.trigger = "terminal_failure"
                            => "failed_runs" \in bundle.tier1.flags
                      /\ draft.type \notin {"terminal_defect_unlocalized", "composition_failure"}
                      /\ verdict.manifestation = {} /\ verdict.row # "fabrication"
    BY DEF StaleNeverBlamed
  <2>1. inp.terminal.verdict = "stale"
    BY DEF AInv, Reconciled, terminal_verdict
  <2>2. /\ ~terminal_bad
        /\ verdict.manifestation = {} /\ verdict.row \notin BadRows
        /\ verdict.type \notin BadTypes
    BY <2>1 DEF AInv, EngineInv, terminal_bad
  <2>3. /\ draft.type = effective_report_type
        /\ draft.trigger = classify_incident(effective_report_type, bundle.tier1.flags, FALSE)
    BY <2>2 DEF AInv, Drafted, classify_incident
  <2> QED
    BY <2>2, <2>3 DEF BadRows, BadTypes, effective_report_type, classify_incident
<1> QED
  BY <1>1, Invariance, PTL

(* (derive_incident) For all graphs: an analysis that ends without an incident *)
(* had no bad deliverable and no flag of tier 1 that opens one by itself.      *)
THEOREM SilenceIsHeeded == AnalysisSpec => []SilenceHeedsTier1
<1>1. AInv => SilenceHeedsTier1
  <2> SUFFICES ASSUME AInv, Stored, draft.trigger = "none"
               PROVE  /\ terminal_verdict # "bad"
                      /\ bundle.tier1.flags
                           \cap {"loop_anomaly", "failed_runs",
                                 "terminal_form_breach", "cost_overrun"} = {}
    BY DEF SilenceHeedsTier1
  <2>1. /\ inp.terminal.verdict = terminal_verdict
        /\ classify_incident(effective_report_type, bundle.tier1.flags, terminal_bad) = "none"
    BY DEF AInv, Reconciled, Drafted
  <2>2. /\ ~terminal_bad
        /\ \A f \in {"loop_anomaly", "failed_runs", "terminal_form_breach", "cost_overrun"} :
              f \notin bundle.tier1.flags
    BY <2>1 DEF classify_incident
  <2> QED
    BY <2>1, <2>2 DEF terminal_bad
<1> QED
  BY <1>1, Invariance, PTL

--------------------------------------------------------------------------------
(* process(): what a stored result rests on.                                   *)

(* From the scores on, and up to the stored result. *)
ScoredOn == phase \in {"scored"} \cup After \/ Stored

(* Where the gate spared the judge, no flawed input excuses a run. *)
Spared ==
  /\ inp.flawed \cap Runs = {}
  /\ inp.signals = bundle.trace.signals /\ inp.originates = bundle.trace.originates

(* Between the awaits: find_blame has run to its end before anything is        *)
(* drafted, on the runs of the graph, and where the gate spared the judge      *)
(* nothing excuses a run.                                                      *)
FoundInv ==
  /\ PlaceInv
  /\ inp.nodes = Runs
  /\ phase = "claimed" => inp = bundle.trace
  /\ phase \in {"facts", "drafted", "decided"} \/ Stored => pc = "done"
  /\ bundle.gate /\ localises /\ ScoredOn => Spared

(* A trace without its judged scores is a trace.                               *)
LEMMA UnjudgedIs ==
  ASSUME bundle \in Bundles, NEW runs
  PROVE  /\ IsTrace(Unjudged(bundle.trace, runs)) /\ Shaped(Unjudged(bundle.trace, runs))
         /\ Unjudged(bundle.trace, runs).nodes = Runs
         /\ Unjudged(bundle.trace, runs).flawed = bundle.trace.flawed \ runs
         /\ Unjudged(bundle.trace, runs).signals = bundle.trace.signals
         /\ Unjudged(bundle.trace, runs).originates = bundle.trace.originates
<1> DEFINE t == bundle.trace
           u == Unjudged(t, runs)
<1>1. /\ IsTrace(t) /\ Shaped(t) /\ bundle.machine \in [t.nodes -> {Unknown} \cup 0..100]
  BY BundlesAssumption DEF Shaped
<1>2. /\ DOMAIN u = DOMAIN t
      /\ u.nodes = t.nodes /\ u.edges = t.edges
      /\ u.signals = t.signals /\ u.originates = t.originates
      /\ u.terminal = t.terminal
      /\ u.flawed = t.flawed \ runs
      /\ u.score = [v \in t.nodes |-> IF v \in runs THEN bundle.machine[v] ELSE t.score[v]]
  BY <1>1 DEF Unjudged, Shaped, Runs
<1> HIDE DEF t, u
<1>3. u.score \in [u.nodes -> {Unknown} \cup 0..100]
  BY <1>1, <1>2 DEF IsTrace
<1> QED
  BY <1>1, <1>2, <1>3 DEF IsTrace, Shaped, t, u, Runs

(* Before find_blame begins there is nothing to place.                         *)
LEMMA PlaceIdle ==
  ASSUME IsTrace(inp), pc \in {"idle", "localize"}
  PROVE  PlaceInv
BY DEF PlaceInv, Rows, Told

(* Steps in which find_blame does not take part.                               *)
LEMMA PlaceStays ==
  ASSUME PlaceInv, EngineInv, UNCHANGED vars
  PROVE  PlaceInv'
BY PlaceStep DEF EngineInv

(* At the beginning of an analysis.                                            *)
LEMMA FoundStarts ==
  ASSUME AnalysisInit
  PROVE  FoundInv
<1>1. bundle \in Bundles /\ inp = bundle.trace /\ pc = "idle" /\ phase = "claimed"
  BY DEF AnalysisInit
<1>2. IsTrace(inp)
  BY <1>1, BundlesAssumption
<1> QED
  BY <1>1, <1>2, PlaceIdle DEF FoundInv, Runs, ScoredOn, Stored, After

(* Every step of an analysis keeps it, wherever an await fails.                *)
LEMMA FoundStep ==
  ASSUME AInv, FoundInv, [AnalysisNext]_analysisVars
  PROVE  FoundInv'
<1>1. /\ bundle \in Bundles /\ EngineInv /\ Untouched
      /\ PlaceInv /\ inp.nodes = Runs
  BY DEF AInv, FoundInv
<1>2. CASE Load
  <2>1. /\ bundle' = bundle /\ UNCHANGED vars /\ phase = "claimed"
        /\ phase' = "loaded" \/ (phase' = "persisted" /\ ~bundle'.found)
    BY <1>2 DEF Load
  <2>2. PlaceInv'
    BY <1>1, <2>1, PlaceStays
  <2>3. inp' = inp
    BY <2>1 DEF vars
  <2> QED
    BY <1>1, <2>1, <2>2, <2>3 DEF FoundInv, Runs, ScoredOn, Stored, After, localises
<1>3. CASE ScoreGraph
  <2>1. /\ phase = "loaded" /\ phase' = "scored" /\ bundle' = bundle /\ pc' = pc
    BY <1>3 DEF ScoreGraph
  <2>2. PICK runs : /\ inp' = Unjudged(bundle.trace, runs)
                    /\ bundle.gate /\ localises => runs = Runs
    BY <1>3 DEF ScoreGraph
  <2>3. /\ IsTrace(inp') /\ inp'.nodes = Runs
        /\ inp'.flawed = bundle.trace.flawed \ runs
        /\ inp'.signals = bundle.trace.signals
        /\ inp'.originates = bundle.trace.originates
    BY <1>1, <2>2, UnjudgedIs
  <2>4. pc' = "idle"
    BY <1>1, <2>1 DEF Untouched, Before
  <2>5. PlaceInv'
    BY <2>3, <2>4, PlaceIdle DEF PlaceInv, Rows, Told
  <2>6. Runs' = Runs /\ (localises' <=> localises)
    BY <2>1 DEF Runs, localises
  <2>7. bundle.gate /\ localises => inp'.flawed \cap Runs = {}
    BY <2>2, <2>3
  <2> QED
    BY <2>1, <2>3, <2>5, <2>6, <2>7 DEF FoundInv, Spared, Stored
<1>4. CASE StartBlame
  <2>1. /\ phase = "scored" /\ phase' = "blame" /\ pc' = "localize" /\ bundle' = bundle
    BY <1>4 DEF StartBlame
  <2>2. Shaped(inp)
    BY <1>1, <2>1 DEF Untouched, Before
  <2>3. /\ inp'.nodes = inp.nodes /\ inp'.edges = inp.edges /\ inp'.score = inp.score
        /\ inp'.flawed = inp.flawed
        /\ inp'.signals = inp.signals /\ inp'.originates = inp.originates
    BY <1>4, <2>2 DEF StartBlame, Shaped
  <2>4. IsTrace(inp')
    BY <1>1, <2>3 DEF PlaceInv, IsTrace
  <2>5. PlaceInv'
    BY <2>1, <2>4 DEF PlaceInv, Rows, Told
  <2>6. Runs' = Runs /\ (localises' <=> localises)
    BY <2>1 DEF Runs, localises
  <2> QED
    BY <1>1, <2>1, <2>3, <2>5, <2>6 DEF FoundInv, Spared, ScoredOn, Stored
<1>5. CASE FindBlame
  <2>1. /\ phase = "blame" /\ phase' = phase /\ bundle' = bundle /\ Next
    BY <1>5 DEF FindBlame
  <2>2. inp' = inp
    BY <2>1, InputStays
  <2>3. PlaceInv'
    BY <1>1, <2>1, PlaceStep DEF EngineInv
  <2>4. Runs' = Runs /\ (localises' <=> localises)
    BY <2>1 DEF Runs, localises
  <2> QED
    BY <1>1, <2>1, <2>2, <2>3, <2>4 DEF FoundInv, Spared, ScoredOn, Stored, After
<1>6. CASE \/ FactPropagation \/ DraftReport \/ EvaluatePolicies \/ Persist \/ Fail
           \/ UNCHANGED analysisVars
  <2>1. bundle' = bundle /\ UNCHANGED vars
    BY <1>6 DEF FactPropagation, DraftReport, EvaluatePolicies, Persist, Fail, analysisVars
  <2>2. PlaceInv'
    BY <1>1, <2>1, PlaceStays
  <2>3. inp' = inp /\ pc' = pc /\ Runs' = Runs /\ (localises' <=> localises)
    BY <2>1 DEF vars, Runs, localises
  <2>4. /\ phase' \in {"facts", "drafted", "decided"} \/ Stored' => pc = "done"
        /\ ScoredOn' => ScoredOn
        /\ phase' = "claimed" => phase = "claimed"
    BY <1>6, <2>1
    DEF FactPropagation, DraftReport, EvaluatePolicies, Persist, Fail, analysisVars,
        FoundInv, ScoredOn, Stored, After
  <2> QED
    BY <1>1, <2>1, <2>2, <2>3, <2>4 DEF FoundInv, Spared
<1> QED
  BY <1>2, <1>3, <1>4, <1>5, <1>6 DEF AnalysisNext

(* For all graphs and settings, and wherever an await fails: the invariant     *)
(* of find_blame holds inside an analysis, and a stored result rests on its    *)
(* last pass.                                                                  *)
THEOREM AnalysisFinds == AnalysisSpec => [](AInv /\ FoundInv)
<1>1. AnalysisInit => AInv /\ FoundInv
  BY AnalysisStarts, FoundStarts
<1>2. AInv /\ FoundInv /\ [AnalysisNext]_analysisVars => (AInv /\ FoundInv)'
  BY AnalysisStep, FoundStep
<1> QED
  BY <1>1, <1>2, PTL DEF AnalysisSpec

(* (_score_graph, judge_gate) GateStillLocalizes for all graphs and            *)
(* settings: where the gate spared the judge, the engine names every run       *)
(* where a check saw the fault begin, or one of its cycle, but for what the    *)
(* deterministic channel does not look at and what a verifier displaced.       *)
THEOREM GateLocalizes == AnalysisSpec => []GateStillLocalizes
<1>1. AInv /\ FoundInv => GateStillLocalizes
  <2> SUFFICES ASSUME AInv, FoundInv, Stored, bundle.gate, localises
               PROVE  /\ inp.originates # {}
                      /\ \A n \in inp.originates :
                            cond.exitOf[n] = n =>
                              ToSet(verdict.culprits) \cap cond.members[n] # {} \/ Displaced(n)
    BY DEF GateStillLocalizes
  <2>1. Spared /\ Done /\ PlaceInv /\ inp.nodes = Runs /\ bundle \in Bundles
    BY DEF FoundInv, AInv, ScoredOn, Done
  <2>2. inp.originates # {}
    BY <2>1 DEF Spared, localises
  <2>3. ASSUME NEW n \in inp.originates, cond.exitOf[n] = n
        PROVE  ToSet(verdict.culprits) \cap cond.members[n] # {} \/ Displaced(n)
    <3>1. n \in inp.nodes /\ n \in inp.signals /\ n \notin inp.flawed
      BY <2>1, BundlesAssumption DEF Spared, Runs
    <3>2. n \in Supers(cond)
      <4>1. Found
        BY <2>1 DEF PlaceInv, Done
      <4> QED
        BY <2>3, <3>1, <4>1, SupersOf
    <3>3. n \in PrimaryFaults(cond, inp)
      BY <3>1, <3>2 DEF PrimaryFaults, HardFaults, deterministic_defect
    <3> QED
      BY <2>1, <3>3, NamedAtEnd DEF HardFaultNamed
  <2> QED
    BY <2>2, <2>3
<1> QED
  BY <1>1, AnalysisFinds, PTL

(* (process, find_blame, derive_incident) QuietMeansClean for all graphs and   *)
(* settings: an analysis that opens no incident had no bad deliverable, no     *)
(* flag of tier 1 that opens one, and no contract violation seen to ship but   *)
(* for those the deterministic channel passes over.                            *)
THEOREM QuietIsClean == AnalysisSpec => []QuietMeansClean
<1>1. AInv /\ FoundInv => (Stored /\ draft.trigger = "none" /\ Status("propagated")
                              => ViolationsPassedOver)
  <2> SUFFICES ASSUME AInv, FoundInv, Stored, draft.trigger = "none", Status("propagated"),
                      NEW n \in Runs, inp.breach[n] # {}, n \notin inp.flawed,
                      cond.exitOf[n] = n
               PROVE  FALSE
    BY DEF ViolationsPassedOver
  <2>1. Done /\ PlaceInv /\ inp.nodes = Runs
    BY DEF FoundInv, Done
  <2>2. Found /\ Reported /\ verdict.row = first_row
    BY <2>1 DEF PlaceInv, Done, Told
  <2>3. n \in Supers(cond)
    BY <2>1, <2>2, SupersOf
  <2>4. n \in HardFaults(cond, inp)
    BY <2>3 DEF HardFaults, deterministic_defect
  <2>5. candidates # << >>
    BY <2>2, <2>4 DEF Found, IsSelection
  <2>6. verdict.row \notin {"nothing_measured", "unclassified"}
    BY <2>2, <2>5, RowChosen
  <2>7. verdict.type \in ReportTypes \ {"none", "unclassified"}
    BY <2>2, <2>6 DEF Reported
  <2>8. classify_incident(effective_report_type, bundle.tier1.flags, terminal_bad) = "none"
    BY DEF AInv, Drafted
  <2>9. effective_report_type \in ReportTypes \ {"none", "unclassified", "degraded_recovered"}
    BY <2>7 DEF effective_report_type, ReportTypes
  <2> QED
    BY <2>8, <2>9 DEF classify_incident, QUALITY_REPORT_TYPES, ReportTypes
<1>2. AInv /\ FoundInv /\ SilenceHeedsTier1 => QuietMeansClean
  BY <1>1 DEF QuietMeansClean
<1> QED
  BY <1>2, AnalysisFinds, SilenceIsHeeded, PTL

--------------------------------------------------------------------------------
(* The draft shares the confidence out.                                        *)

(* The verifiers are left out of the last producer; there is at most one.      *)
LEMMA LastProducerIs ==
  ASSUME Found
  PROVE  \/ LastProducer = {}
         \/ \E r \in inp.nodes \ Verifiers : LastProducer = {r}
<1> DEFINE order == graph_nodes(cond)
           S == ToSet(order) \ Verifiers
           made == Select(order, S)
<1>1. Listed(order) /\ ToSet(order) = inp.nodes
  BY GraphNodes
<1>2. LastProducer = IF made = << >> THEN {} ELSE {Last(made)}
  BY DEF LastProducer, Producers
<1>3. S \subseteq inp.nodes \ Verifiers
  BY <1>1
<1> HIDE DEF order, S
<1>4. Listed(made) /\ ToSet(made) \subseteq S
  BY <1>1, ListedSelect
<1> HIDE DEF made
<1>5. ASSUME made # << >> PROVE Last(made) \in S
  <2>1. DOMAIN made = 1..Len(made) /\ Len(made) \in Nat /\ ToSet(made) = {made[i] : i \in 1..Len(made)}
    BY <1>4, ListedDomain
  <2>2. Len(made) # 0
    BY <1>4, <1>5, <2>1, ListedEmpty
  <2>3. Len(made) \in 1..Len(made)
    BY <2>1, <2>2
  <2> QED
    BY <1>4, <2>1, <2>3 DEF Last
<1> QED
  BY <1>2, <1>3, <1>5

(* The share of the reported origin is the greater part of the confidence.     *)
LEMMA ShareIs ==
  ASSUME verdict.confidence \in Fraction
  PROVE  /\ DominantShare \in Nat /\ DominantShare <= verdict.confidence
         /\ verdict.confidence - DominantShare \in 0..DominantShare
<1> DEFINE c == verdict.confidence
           x == 6 * c + 5
           q == x \div 10
<1>1. c \in Nat
  BY DEF Fraction
<1>2. DominantShare = q
  <2>1. c * 6 + 5 = x
    BY <1>1
  <2> QED
    BY <2>1 DEF DominantShare
<1> HIDE DEF c
<1>3. x \in Nat /\ x = 6 * c + 5
  BY <1>1
<1> HIDE DEF x
<1>4. q \in Int /\ 10 * q <= x /\ x < 10 * q + 10
  BY <1>3
<1> HIDE DEF q
<1>5. q \in Nat /\ q <= c /\ c - q \in 0..q
  BY <1>1, <1>3, <1>4
<1> QED
  BY <1>2, <1>5 DEF c

(* What the draft takes over from the verdict.                                 *)
SharesInv ==
  /\ ConfidenceInv
  /\ phase = "drafted" /\ draft.trigger # "none" =>
        /\ draft.confidence = IF Rival = {} THEN verdict.confidence ELSE DominantShare
        /\ draft.hypotheses = reconcile_evidence
        /\ draft.culprits = verdict.culprits

(* The draft is made of the verdict and of the facts, in one step.             *)
LEMMA SharesStep ==
  ASSUME AInv, FoundInv, SharesInv, [AnalysisNext]_analysisVars
  PROVE  SharesInv'
<1>1. EngineInv /\ PlaceInv /\ ConfidenceInv
  BY DEF AInv, FoundInv, SharesInv
<1>2. ConfidenceInv'
  <2>1. CASE FindBlame
    BY <1>1, <2>1, ConfidenceStep DEF FindBlame
  <2>2. CASE ~FindBlame
    <3>1. verdict' = verdict
      BY <2>2 DEF AnalysisNext, Load, ScoreGraph, StartBlame, FactPropagation, DraftReport,
                  EvaluatePolicies, Persist, Fail, analysisVars, vars
    <3> QED
      BY <1>1, <3>1 DEF ConfidenceInv
  <2> QED
    BY <2>1, <2>2
<1>3. CASE DraftReport
  <2>1. UNCHANGED <<inp, cond, verdict, bundle, propagation>>
    BY <1>3 DEF DraftReport, vars
  <2>2. Verifiers' = Verifiers /\ LastProducer' = LastProducer
    BY <2>1 DEF Verifiers, LastProducer, Producers
  <2>3. Tension' <=> Tension
    BY <2>1, <2>2 DEF Tension
  <2>4. Divergence' <=> Divergence
    BY <2>1, <2>2 DEF Divergence
  <2>5. Rival' = Rival
    BY <2>1, <2>2, <2>3, <2>4 DEF Rival
  <2>6. DominantShare' = DominantShare
    BY <2>1 DEF DominantShare
  <2>7. reconcile_evidence' = reconcile_evidence
    BY <2>1, <2>5, <2>6 DEF reconcile_evidence
  <2> DEFINE share == IF Rival = {} THEN verdict.confidence ELSE DominantShare
             drafted == reconcile_evidence
  <2>8. PICK trigger, type, drops, divergences, decided, terminal :
          draft' = IF trigger = "none" THEN [NoDraft EXCEPT !.type = type]
                   ELSE [type |-> type, trigger |-> trigger,
                         culprits |-> verdict.culprits, confidence |-> share,
                         hypotheses |-> drafted, drops |-> drops,
                         divergences |-> divergences, decided_by |-> decided,
                         terminal |-> terminal]
    BY <1>3, ZenonT(60) DEF DraftReport
  <2> HIDE DEF share, drafted
  <2>9. draft'.trigger # "none" =>
          /\ draft'.confidence = share
          /\ draft'.hypotheses = drafted
          /\ draft'.culprits = verdict.culprits
    <3> DEFINE d == draft'
    <3>1. CASE trigger = "none"
      <4>1. d = [NoDraft EXCEPT !.type = type]
        BY <2>8, <3>1
      <4> HIDE DEF d
      <4>2. d.trigger = "none"
        BY <4>1 DEF NoDraft
      <4> QED
        BY <4>2 DEF d
    <3>2. CASE trigger # "none"
      <4>1. d = [type |-> type, trigger |-> trigger,
                         culprits |-> verdict.culprits, confidence |-> share,
                         hypotheses |-> drafted, drops |-> drops,
                         divergences |-> divergences, decided_by |-> decided,
                         terminal |-> terminal]
        BY <2>8, <3>2
      <4> HIDE DEF d
      <4>2. d.confidence = share /\ d.hypotheses = drafted /\ d.culprits = verdict.culprits
        BY <4>1
      <4> QED
        BY <4>2 DEF d
    <3> QED
      BY <3>1, <3>2
  <2>10. /\ share = (IF Rival = {} THEN verdict.confidence ELSE DominantShare)'
         /\ drafted = reconcile_evidence' /\ verdict.culprits = verdict'.culprits
    BY <2>1, <2>5, <2>6, <2>7 DEF share, drafted
  <2> QED
    BY <1>2, <2>9, <2>10 DEF SharesInv
<1>4. CASE \/ Load \/ ScoreGraph \/ StartBlame \/ FindBlame \/ FactPropagation
           \/ EvaluatePolicies \/ Persist \/ Fail
  <2>1. phase' # "drafted"
    BY <1>4 DEF Load, ScoreGraph, StartBlame, FindBlame, FactPropagation, EvaluatePolicies,
                Persist, Fail
  <2> QED
    BY <1>2, <2>1 DEF SharesInv
<1>5. CASE UNCHANGED analysisVars
  <2>1. UNCHANGED <<inp, cond, verdict, bundle, propagation, draft, phase>>
    BY <1>5 DEF analysisVars, vars
  <2>2. Verifiers' = Verifiers /\ LastProducer' = LastProducer
    BY <2>1 DEF Verifiers, LastProducer, Producers
  <2>3. (Tension' <=> Tension) /\ (Divergence' <=> Divergence)
    BY <2>1, <2>2 DEF Tension, Divergence
  <2>4. Rival' = Rival /\ DominantShare' = DominantShare
    BY <2>1, <2>2, <2>3 DEF Rival, DominantShare
  <2>5. reconcile_evidence' = reconcile_evidence
    BY <2>1, <2>4 DEF reconcile_evidence
  <2> QED
    BY <1>2, <2>1, <2>4, <2>5 DEF SharesInv
<1> QED
  BY <1>3, <1>4, <1>5 DEF AnalysisNext

(* Shares of such a confidence add up.                                         *)
LEMMA SharesAdd ==
  ASSUME FoundInv, SharesInv
  PROVE  RivalsShareConfidence
<1> SUFFICES ASSUME phase = "drafted", draft.trigger # "none"
             PROVE  /\ draft.confidence <= verdict.confidence
                    /\ draft.hypotheses # {} =>
                        \E first, rival, rest \in draft.hypotheses :
                          /\ draft.hypotheses = {first, rival, rest}
                          /\ first.weight + rival.weight + rest.weight = 10000
                          /\ {first.weight, rival.weight} \subseteq 0..draft.confidence
                          /\ rest.weight >= 0 /\ rest.origin = Unknown
                          /\ first.origin = Head(draft.culprits)
                          /\ rival.origin \notin Verifiers \cup {first.origin, Unknown}
  BY DEF RivalsShareConfidence
<1> DEFINE c == verdict.confidence
           share == DominantShare
<1>1. /\ draft.confidence = IF Rival = {} THEN c ELSE share
      /\ draft.hypotheses = reconcile_evidence
      /\ draft.culprits = verdict.culprits
  BY DEF SharesInv
<1>2. c \in Nat /\ c <= 10000 /\ share \in Nat /\ share <= c /\ c - share \in 0..share
  BY ShareIs DEF SharesInv, ConfidenceInv, Fraction
<1>3. draft.confidence <= verdict.confidence
  <2> HIDE DEF share
  <2>1. draft.confidence \in {c, share}
    BY <1>1
  <2> QED
    BY <1>2, <2>1
<1>4. ASSUME draft.hypotheses # {}
      PROVE  \E first, rival, rest \in draft.hypotheses :
                          /\ draft.hypotheses = {first, rival, rest}
                          /\ first.weight + rival.weight + rest.weight = 10000
                          /\ {first.weight, rival.weight} \subseteq 0..draft.confidence
                          /\ rest.weight >= 0 /\ rest.origin = Unknown
                          /\ first.origin = Head(draft.culprits)
                          /\ rival.origin \notin Verifiers \cup {first.origin, Unknown}
  <2> DEFINE h == Head(verdict.culprits)
  <2>1. Rival # {}
    BY <1>1, <1>4 DEF reconcile_evidence
  <2>2. Rival = LastProducer \ {h}
    BY <2>1 DEF Rival
  <2>3. Found /\ IsTrace(inp)
    BY DEF FoundInv, PlaceInv
  <2>4. PICK r \in inp.nodes \ Verifiers : LastProducer = {r}
    BY <2>1, <2>2, <2>3, LastProducerIs
  <2>5. Rival = {r} /\ r # h
    BY <2>1, <2>2, <2>4
  <2>6. r # Unknown
    BY <2>3 DEF IsTrace, Unknown
  <2> DEFINE first == [origin |-> h, weight |-> share]
             rest == [origin |-> Unknown, weight |-> 10000 - c]
             rival == [origin |-> r, weight |-> c - share]
  <2>7. draft.hypotheses = {first, rival, rest}
    <3>1. reconcile_evidence = {first, rest}
             \cup {[origin |-> v, weight |-> c - share] : v \in Rival}
      BY <2>1 DEF reconcile_evidence
    <3>2. {[origin |-> v, weight |-> c - share] : v \in Rival} = {rival}
      BY <2>5
    <3> QED
      BY <1>1, <3>1, <3>2
  <2>8. draft.confidence = share
    BY <1>1, <2>1
  <2> HIDE DEF share, c, h
  <2>9. /\ first.weight = share /\ rival.weight = c - share /\ rest.weight = 10000 - c
        /\ first.origin = h /\ rival.origin = r /\ rest.origin = Unknown
    OBVIOUS
  <2> HIDE DEF first, rest, rival
  <2>10. first.weight + rival.weight + rest.weight = 10000 /\ rest.weight >= 0
    BY <1>2, <2>9
  <2>11. {first.weight, rival.weight} \subseteq 0..draft.confidence
    <3>1. share \in 0..share /\ c - share \in 0..share
      BY <1>2
    <3> QED
      BY <2>8, <2>9, <3>1
  <2>12. first.origin = Head(draft.culprits)
    BY <1>1, <2>9 DEF h
  <2>13. rival.origin \notin Verifiers \cup {first.origin, Unknown}
    BY <2>4, <2>5, <2>6, <2>9
  <2>14. {first, rival, rest} \subseteq draft.hypotheses
    BY <2>7
  <2> QED
    BY <2>7, <2>9, <2>10, <2>11, <2>12, <2>13, <2>14
<1> QED
  BY <1>3, <1>4

(* (reconcile_evidence) RivalsShareConfidence for all graphs and settings: the *)
(* reported origin has the greater part of the confidence, its rival, another  *)
(* producer, the rest of it, and with what is unresolved that is all there is. *)
THEOREM RivalsShare == AnalysisSpec => []RivalsShareConfidence
<1>1. AnalysisInit => SharesInv
  BY DEF AnalysisInit, SharesInv, ConfidenceInv, NoVerdict, Fraction
<1>2. AInv /\ FoundInv /\ SharesInv /\ [AnalysisNext]_analysisVars => SharesInv'
  BY SharesStep
<1>3. FoundInv /\ SharesInv => RivalsShareConfidence
  BY SharesAdd
<1> QED
  BY <1>1, <1>2, <1>3, AnalysisFinds, PTL DEF AnalysisSpec
================================================================================
