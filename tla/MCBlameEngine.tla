--------------------------- MODULE MCBlameEngine ---------------------------
(***************************************************************************)
(* Traces for the model checker, in families: every graph of three runs    *)
(* with every mix of low, high and missing scores; and, on the graphs that *)
(* matter, hard evidence, slow erosion, verifiers, loops and flawed input. *)
(***************************************************************************)
EXTENDS BlameEngine

Trace(n, edges, score) ==
    [nodes |-> 1..n, edges |-> edges, score |-> score,
     reason |-> [v \in 1..n |-> IF score[v] = Unknown THEN "judge_error" ELSE "none"],
     flawed |-> {}, signals |-> {}, originates |-> {}, breach |-> [v \in 1..n |-> {}],
     flags |-> {}, verifiers |-> {}, issuedFail |-> {}, thin |-> {},
     attemptOf |-> [v \in 1..n |-> NoAgent],
     baseline |-> [mean |-> 0, std |-> 0, samples |-> 0],
     terminal |-> [verdict |-> "none", formBad |-> FALSE,
                   request |-> Unknown, observed |-> Unknown],
     cost |-> [v \in 1..n |-> v], propagated |-> FALSE, corrected |-> FALSE]

Verdicts == {"none", "ok", "bad"}
Scores3 == [1..3 -> {Unknown, 20, 90}]
Judged(S) == {[t EXCEPT !.terminal.verdict = v] : t \in S, v \in Verdicts}

\* A line, a fork, a join, a cycle in the middle of a line of four.
Line == {<<1, 2>>, <<2, 3>>}
Fork == {<<1, 2>>, <<1, 3>>}
Joined == {<<1, 3>>, <<2, 3>>}
CycleFirst == {<<1, 2>>, <<2, 1>>, <<2, 3>>}
CycleLast == {<<1, 2>>, <<2, 3>>, <<3, 2>>}

\* Every graph of three runs without an edge from a run to itself.
Graphs3 ==
    {Trace(3, e, s) : e \in SUBSET {p \in (1..3) \X (1..3) : p[1] # p[2]}, s \in Scores3}

\* A failed check, a contract violation, or both, at any of the runs.
Evidence(t) ==
    {[t EXCEPT !.signals = {n}] : n \in t.nodes}
      \cup {[t EXCEPT !.signals = {n}, !.originates = {n}, !.flags = {n}] : n \in t.nodes}
      \cup {[t EXCEPT !.breach[n] = {<<1, 2>>}] : n \in t.nodes}
      \cup {[t EXCEPT !.breach[n] = {<<1, 2>>}, !.propagated = TRUE] : n \in t.nodes}
      \cup {[t EXCEPT !.breach[1] = {<<1, 2>>}, !.breach[3] = {<<2, 3>>}]}

HardEvidence ==
    UNION {Evidence(Trace(3, e, s)) :
             e \in {Line, Fork, Joined, CycleFirst, CycleLast}, s \in Scores3}

\* The same where the last run is a verifier, of good and of bad work.
Vouched ==
    UNION {{[x EXCEPT !.verifiers = {3}] : x \in Evidence(Trace(3, e, s))} :
             e \in {Line, Fork, CycleFirst}, s \in [1..3 -> {20, 90}]}

\* Scores on both sides of the bar, less than a break apart.
Gentle == {Trace(3, e, s) : e \in {Line, Fork, Joined, CycleFirst, CycleLast},
                            s \in [1..3 -> {45, 60, 90}]}

\* A run fed by the exit of a cycle, or by another member of it.
Fed == {Trace(4, e \cup {<<1, 2>>, <<2, 1>>, <<3, 4>>}, s) :
          e \in {{<<1, 3>>}, {<<2, 3>>}}, s \in [1..4 -> {20, 60, 90}]}

\* Quality lost in small steps, through a line, a join and a diamond.
Erosion ==
    {Trace(4, e, s) :
       e \in {{<<1, 2>>, <<2, 3>>, <<3, 4>>}, {<<1, 3>>, <<2, 3>>, <<3, 4>>},
              {<<1, 2>>, <<1, 3>>, <<2, 4>>, <<3, 4>>}},
       s \in [1..4 -> {90, 74, 56, 20}]}

\* The last run is a verifier, which may have failed the work it saw.
Verified ==
    UNION {{[t EXCEPT !.verifiers = {3}], [t EXCEPT !.verifiers = {3}, !.issuedFail = {3}],
            [t EXCEPT !.verifiers = {3}, !.flags = {2}],
            [t EXCEPT !.verifiers = {3}, !.flawed = {3}]} :
             t \in {Trace(3, e, s) : e \in {Line, Fork, Joined}, s \in Scores3}}

\* Attempts of one agent in a cycle, against a baseline of two rounds.
Attempts(scores) ==
    UNION {{[t EXCEPT !.attemptOf = [v \in 1..4 |-> IF v = 4 THEN NoAgent ELSE 1]],
            [t EXCEPT !.attemptOf[1] = 1, !.attemptOf[3] = 1,
                      !.baseline = [mean |-> 1, std |-> 0, samples |-> 9]]} :
             t \in {Trace(4, e, s) :
                      e \in {{<<1, 2>>, <<2, 3>>, <<3, 1>>, <<3, 4>>},
                             {<<1, 2>>, <<2, 3>>, <<3, 2>>, <<3, 4>>}},
                      s \in [1..4 -> scores]}}
Retried == Attempts({20, 90})

\* Two branches of a cycle that may break alike, each run of an agent of its own:
\* beside evidence, and in front of a last run that may be a verifier.
Branched == {<<1, 2>>, <<1, 3>>, <<2, 4>>, <<3, 4>>, <<4, 1>>}
Rejoined == {<<4, 1>>, <<4, 2>>, <<1, 3>>, <<2, 3>>, <<3, 4>>}
Tied ==
    {[t EXCEPT !.attemptOf = [n \in t.nodes |-> n]] : t \in
       {Trace(4, e, s) : e \in {Branched, Rejoined}, s \in [1..4 -> {Unknown, 10, 20, 90}]}
         \cup UNION {Evidence(Trace(4, Branched, s)) : s \in [1..4 -> {20, 90}]}
         \cup UNION {{x, [x EXCEPT !.verifiers = {5}]} :
                        x \in {Trace(5, Branched \cup {<<4, 5>>}, s) : s \in [1..5 -> {20, 90}]}}}

\* Runs whose judge says that their input was flawed already.
Flawed ==
    UNION {{[t EXCEPT !.flawed = f, !.thin = {1}] : f \in (SUBSET {1, 2, 3}) \ {{}}} :
             t \in {Trace(3, e, s) : e \in {Line, Joined, CycleLast}, s \in Scores3}}

\* The form of the deliverable is wrong, with and without a rewrite behind it.
Formed ==
    {[t EXCEPT !.terminal.formBad = TRUE, !.terminal.request = 1,
               !.terminal.observed = o] :
       o \in {2, 3}, t \in UNION {Evidence(Trace(3, Line, s)) : s \in [1..3 -> {20, 90}]}}

MCInputs ==
    Judged(Graphs3 \cup HardEvidence \cup Vouched \cup Gentle \cup Fed \cup Erosion \cup Verified
             \cup Retried \cup Tied \cup Flawed \cup Formed)

\* Hard evidence at one member of a cycle, while another is the one that broke.
CycleInputs ==
    Judged(UNION {Evidence(Trace(3, e, s)) : e \in {CycleFirst, CycleLast}, s \in Scores3})

\* Attempts of one agent that the judge could not score.
LoopInputs == Judged(Attempts({Unknown, 90}))
=============================================================================
