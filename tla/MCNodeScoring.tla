---------------------------- MODULE MCNodeScoring ----------------------------
(***************************************************************************)
(* The runs that TLC scores: one ordinary run, and families that vary what *)
(* one part of score_node reads, with everything else ordinary.            *)
(***************************************************************************)
EXTENDS NodeScoring, TLC

MCWeight == [schema |-> 35, judge |-> 40, heuristics |-> 15]

MCVerdicts ==
  {[score |-> 95, flawed |-> "no", flags |-> {}],
   [score |-> 80, flawed |-> "yes", flags |-> {"factual_error", "other"}],
   [score |-> None, flawed |-> "unknown", flags |-> {"ignored_instruction"}]}

Payload ==
  [text |-> "text", json |-> TRUE, records |-> {"collection"}, params |-> {},
   sections |-> {"budget"}, items |-> <<>>, total |-> NoSum, families |-> {},
   numbers |-> {}, rates |-> {}, tabular |-> FALSE, length |-> 300, dates |-> {},
   language |-> "unsure", spoken |-> 0, secrets |-> {}, lures |-> {},
   extracted |-> FALSE, documents |-> FALSE, media |-> FALSE, embeds |-> FALSE,
   prose |-> FALSE, repetition |-> 0, valid |-> {"s1"}]

Blank == [Payload EXCEPT !.text = "blank", !.json = FALSE, !.records = {}, !.length = 0]
Absent == [Blank EXCEPT !.text = "absent"]

Ordinary ==
  [agent |-> "writer", version |-> "1", graph |-> "g", status |-> "ok", kind |-> "agent",
   verifier |-> FALSE, delivers |-> TRUE, tokens |-> 10, tokensOdd |-> FALSE,
   calls |-> <<>>, files |-> <<>>, declared |-> {}, in |-> Payload, out |-> Payload,
   contracts |-> <<>>, rules |-> {}, schemas |-> <<>>]

\* What is absent, blank or without records, and what the run says about itself.
Nothings ==
  {[Ordinary EXCEPT !.out = o, !.in = i, !.status = s, !.tokens = t, !.calls = c] :
     o \in {Blank, Absent, [Payload EXCEPT !.records = {}], [Payload EXCEPT !.records = {"echo"}]},
     i \in {Payload, Absent}, s \in {"ok", "failed"}, t \in {0, 10},
     c \in {<<>>, <<[name |-> "send", sha |-> "a", status |-> "error", args |-> Missing]>>}}

\* Every digest of up to three calls of two tools.
Call == [name : {"send", "look", Missing}, sha : {"a", Missing}, status : {"ok", "error"},
         args : {Missing}]
Digests == UNION {[1 .. n -> Call] : n \in 1 .. 2} \cup
           {<<a, b, c>> : a, b, c \in {x \in Call : x.sha = "a" /\ x.name # Missing}}
Callers == {[Ordinary EXCEPT !.calls = c] : c \in Digests}

\* Arguments against two schemas of one tool.
Arguments ==
  {[Ordinary EXCEPT
      !.calls = <<[name |-> "send", sha |-> "a", status |-> "ok", args |-> a]>>,
      !.schemas = <<[tool |-> "send", accepts |-> {"good"}, agent |-> g, graph |-> ""],
                    [tool |-> "send", accepts |-> {"good", "bad"}, agent |-> "", graph |-> ""]>>] :
     a \in {"good", "bad", "unparsable", Missing}, g \in {"", "writer", "editor"}}

\* The contract carried by input and output, with branches that disagree.
Langs == {{}, {<<"lang", "cs">>}, {<<"lang", "en">>}, {<<"lang", "cs">>, <<"lang", "en">>}}
Contracted ==
  {[Ordinary EXCEPT !.in.params = i, !.out.params = o, !.out.json = j, !.declared = d,
                    !.out.language = l, !.out.spoken = 150, !.verifier = v] :
     i \in Langs, o \in Langs, j \in BOOLEAN, l \in {"cs", "en"}, v \in BOOLEAN,
     d \in {{}, {<<"lang", "en">>}, {<<"tone", "dry">>}}}

\* Contracts, versions, penalties and kinds: what the blend is made of.
Blends ==
  {[Ordinary EXCEPT !.contracts = c, !.kind = k, !.status = s, !.out.repetition = r,
                    !.tokensOdd = t] :
     c \in {<<>>, <<[agent |-> "writer", version |-> "2", schema |-> "s1"],
                    [agent |-> "writer", version |-> "", schema |-> "s2"]>>,
            <<[agent |-> "writer", version |-> "1", schema |-> "s1"]>>},
     k \in {"agent", "tool", "deterministic"}, s \in {"ok", "degraded", "failed"},
     r \in {0, 60, 90}, t \in BOOLEAN}

\* What is shown of the files, and what their records say.
Shown ==
  {[Ordinary EXCEPT !.out.extracted = e, !.out.documents = d, !.out.media = m,
                    !.out.embeds = b, !.out.prose = p] :
     e \in BOOLEAN, d \in BOOLEAN, m \in BOOLEAN, b \in BOOLEAN, p \in BOOLEAN}
Files ==
  {[Ordinary EXCEPT !.files = <<[ext |-> "pdf", declared |-> x, detected |-> d,
                                 parses |-> q, nonempty |-> q, size |-> z]>>] :
     x \in {NoExt, "docx"}, d \in {"pdf", "zip", "missing", Missing},
     q \in {"no", "yes"}, z \in {-1, 10, 900}}

\* Sections, sums, currencies, dates and figures.
Rule(kind, agent, section, broken, tolerance) ==
  [kind |-> kind, agent |-> agent, graph |-> "", section |-> section, broken |-> broken,
   tolerance |-> tolerance]
Contents ==
  {[Ordinary EXCEPT !.delivers = d, !.rules = {Rule("required_section", a, s, b, 0)}] :
     d \in BOOLEAN, a \in {"", "writer", "editor"}, s \in {"budget", "risks"}, b \in BOOLEAN}
  \cup {[Ordinary EXCEPT !.out.items = i, !.out.total = t,
                         !.rules = {Rule("sum_invariant", "", "", FALSE, 1)}] :
          i \in {<<>>, <<2, 3>>}, t \in {NoSum, 0, 4, 5, 7}}
  \cup {[Ordinary EXCEPT !.in.families = i, !.out.families = o] :
          i \in SUBSET {"CZK", "EUR"}, o \in SUBSET {"CZK", "EUR"}}
  \cup {[Ordinary EXCEPT !.out.dates = {[start |-> TRUE, end |-> FALSE, due |-> FALSE, day |-> a],
                                        [start |-> FALSE, end |-> TRUE, due |-> TRUE, day |-> b]}] :
          a \in 1 .. 3, b \in 1 .. 3}
  \cup {[Ordinary EXCEPT !.in.numbers = i, !.in.rates = r, !.out.numbers = o, !.out.tabular = t] :
          i \in {{}, {3, 5}}, r \in {{}, {2}}, o \in {{}, {3}, {10}, {7}, {30}}, t \in BOOLEAN}
  \cup {[Ordinary EXCEPT !.out.secrets = {"JWT"}, !.out.lures = {"bidi control characters"}]}

MCMeasured ==
  Nothings \cup Callers \cup Arguments \cup Contracted \cup Blends \cup Shown \cup Files
  \cup Contents
================================================================================
