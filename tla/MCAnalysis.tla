---------------------------- MODULE MCAnalysis ----------------------------
(***************************************************************************)
(* Bundles for the model checker: three runs in a line or a fork, the last *)
(* a producer or a verifier, with every mix of low and high scores; and on *)
(* them, one family for each thing that the analysis reads beside scores.  *)
(***************************************************************************)
EXTENDS Analysis

Line == {<<1, 2>>, <<2, 3>>}
Fork == {<<1, 2>>, <<1, 3>>}

Trace(edges, score) ==
    [nodes |-> 1..3, edges |-> edges, score |-> score,
     reason |-> [v \in 1..3 |-> "none"],
     flawed |-> {}, signals |-> {}, originates |-> {}, breach |-> [v \in 1..3 |-> {}],
     flags |-> {}, verifiers |-> {}, issuedFail |-> {}, thin |-> {},
     attemptOf |-> [v \in 1..3 |-> NoAgent],
     baseline |-> [mean |-> 0, std |-> 0, samples |-> 0],
     terminal |-> [verdict |-> "none", formBad |-> FALSE, request |-> 1, observed |-> 2],
     cost |-> [v \in 1..3 |-> v], propagated |-> FALSE, corrected |-> FALSE,
     noted |-> 1..3]

Policies ==
    {[name |-> "p", flags |-> {"cost_overrun"}, signals |-> {"artifact_integrity", "node_signal"},
      types |-> {"cut_point"}, cost |-> 9, score |-> 0],
     [name |-> "q", flags |-> {}, signals |-> {}, types |-> {}, cost |-> 9, score |-> 30]}

Bundle(t) ==
    [trace |-> t, found |-> TRUE, gate |-> FALSE, machine |-> [v \in 1..3 |-> Unknown],
     output |-> 1..3, readable |-> 1..3, json |-> 1..3,
     says |-> [v \in 1..3 |-> {v}], holds |-> [v \in 1..3 |-> {v}],
     declared |-> Unknown, paths |-> << >>, fileFormat |-> TRUE,
     tier1 |-> [verdict |-> "none", flags |-> {}],
     brokenArtifact |-> {}, sectionRule |-> FALSE, sectionIn |-> {},
     cost |-> 6, policies |-> Policies]

Traces ==
    {[Trace(e, s) EXCEPT !.verifiers = w] :
       e \in {Line, Fork}, s \in [1..3 -> {20, 90}], w \in {{}, {3}}}
Plain == {Bundle(t) : t \in Traces}
Judged(S) == {[b EXCEPT !.tier1.verdict = v] : b \in S, v \in {"none", "ok", "bad", "not_checkable"}}

Flagged ==
    {[b EXCEPT !.tier1.flags = {f}] : b \in Judged(Plain),
       f \in {"failed_runs", "terminal_form_breach", "cost_overrun", "loop_anomaly", "degenerate_output"}}

\* The verdict rests on a check, which fails again or does not.
Rechecked ==
    {[b EXCEPT !.tier1.flags = {f}, !.brokenArtifact = a, !.sectionRule = r, !.sectionIn = i] :
       b \in {[x EXCEPT !.tier1.verdict = "bad"] : x \in Plain},
       f \in Tier0Flags, a \in {{}, {2, 3}}, r \in BOOLEAN, i \in {{1}, {3}}}

\* A changed value, and what the deliverable shows of it.
Changed ==
    {[b EXCEPT !.trace.breach[n] = {<<1, 2>>}, !.declared = d, !.paths = p] :
       b \in Judged({x \in Plain : x.trace.score[1] = 90}), n \in {1, 2},
       d \in {Unknown, 1, 2, 3}, p \in {<< >>, <<3, 2>>, <<1, 2>>}}

\* It shipped, and a judge says that the input of a run was flawed already.
Claimed ==
    {[b EXCEPT !.trace.flawed = {n}] :
       b \in {x \in Changed : x.declared = 2 /\ x.paths = << >>}, n \in {1, 2}}

\* The violation happened in a cycle, at its exit or not.
Circling ==
    {[b EXCEPT !.trace.edges = @ \cup {<<2, 1>>}] :
       b \in {x \in Changed : x.declared = 2 /\ x.paths = << >> /\ x.trace.edges = Line}}

\* A hard check failed somewhere, and the gate may spare the judge.
Gated ==
    {[b EXCEPT !.gate = g, !.trace.signals = s, !.trace.originates = o] :
       b \in Judged(Plain), g \in BOOLEAN, s \in {{1}, {3}, {1, 3}}, o \in {{}, {1}, {3}}
     } \cup {[b EXCEPT !.found = FALSE] : b \in Plain}

\* The same where the first two runs are a cycle, and run 2 its exit.
GatedCycle ==
    {[b EXCEPT !.gate = TRUE, !.trace.edges = Line \cup {<<2, 1>>},
               !.trace.signals = s, !.trace.originates = s] :
       b \in Judged({x \in Plain : x.trace.edges = Line}), s \in {{1}, {2}}}

\* The culprit invented a fact, which is or is not in what the last run wrote.
Invented ==
    {[b EXCEPT !.trace.flags = {n}, !.tier1.verdict = "bad", !.tier1.flags = f,
               !.holds[2] = h, !.holds[3] = h, !.json = j] :
       b \in Plain, n \in {1, 2}, f \in {{}, {"degenerate_output"}},
       h \in {{}, {1, 2}}, j \in {{}, 1..3}}

MCBundles ==
    Judged(Plain) \cup Flagged \cup Rechecked \cup Changed \cup Claimed \cup Circling
      \cup {b \in Gated : b.trace.originates \subseteq b.trace.signals}
      \cup GatedCycle \cup Invented

\* One broken contract behind a deliverable that no judge could look at.
BlindBundles == {b \in Changed : b.tier1.verdict = "not_checkable"}
=============================================================================
