----------------------------- MODULE TraceChecks -----------------------------
(***************************************************************************)
(* The checks that need no model: over the tool calls of a run             *)
(* (behavioral.py), over its files (signals.py), and over its input and    *)
(* output (checks_content.py, checks_numeric.py, checks_security.py).      *)
(* Each returns the signals it raises.                                     *)
(*                                                                         *)
(* A payload is represented by what the checks can tell apart:             *)
(*   text      "absent", "blank" or "text"                                 *)
(*   json      it parses as JSON                                           *)
(*   records   its leaves: "collection", "count" (not zero), "scalar" (a   *)
(*             string of its own), "echo" (a string the input also has)    *)
(*   params    the pairs <<contract key, value>> found in it, at any depth *)
(*   sections  the sections whose pattern it matches                       *)
(*   items, total  the figures of a list and their declared sum, or NoSum  *)
(*   families  the currencies it names                                     *)
(*   numbers, rates, tabular, length   its figures, the conversion rates   *)
(*             it states, whether it is a table, its characters            *)
(*   dates     its dated keys, as [start, end, due, day]                   *)
(*   language, spoken   of its prose ("unsure" below the confidence of the *)
(*             detector), and the characters of that prose                 *)
(*   secrets, lures   kinds of sensitive data and of injection signatures  *)
(*   extracted, documents, media, embeds, prose   how it shows files       *)
(*   repetition    percent of repeated words                               *)
(*   valid     the schemas it satisfies                                    *)
(***************************************************************************)
EXTENDS Integers, Sequences, FiniteSets, SequencesExt

Missing == "missing"                \* a field the emitter left out
NoSum == -1
NoExt == ""

\* signal(...): about tells two signals of one name apart.
Signal(name, severity, about) ==
  [name |-> name, severity |-> severity, originates |-> FALSE, about |-> about]

Originating(s) == [s EXCEPT !.originates = TRUE]

Raise(fires, s) == IF fires THEN {s} ELSE {}

Names(signals) == {s.name : s \in signals}
Failing(signals) == {s \in signals : s.severity = "fail"}

-------------------------------------------------------------------------------
(* behavioral.py: a digest is the sequence of tool calls                     *)

\* An entry does not vanish because the emitter forgot a field.
parse_tool_calls(digest) ==
  [i \in DOMAIN digest |->
    [digest[i] EXCEPT !.name = IF @ = Missing THEN "?" ELSE @,
                      !.sha = IF @ = Missing THEN "" ELSE @]]

KeyOf(entry) == <<entry.name, entry.sha>>
CallKeys(calls) == {KeyOf(calls[i]) : i \in DOMAIN calls}
Group(calls, key) == {i \in DOMAIN calls : KeyOf(calls[i]) = key}

\* A streak is maximal: it starts where the call before was another one.
Streak(calls, i, j) ==
  /\ i < j
  /\ \A k \in i .. j : KeyOf(calls[k]) = KeyOf(calls[i])
  /\ i = 1 \/ KeyOf(calls[i - 1]) # KeyOf(calls[i])
  /\ j = Len(calls) \/ KeyOf(calls[j + 1]) # KeyOf(calls[i])

loop_fingerprint(calls) ==
  {Signal("loop_fingerprint", "warn", <<"loop", KeyOf(calls[p[1]]), 1 + p[2] - p[1]>>) :
     p \in {q \in (DOMAIN calls) \X (DOMAIN calls) : Streak(calls, q[1], q[2])}}

RetryThreshold == 3

retry_storm(calls) ==
  {Signal("retry_storm", "warn", <<"calls", key>>) :
     key \in {k \in CallKeys(calls) :
                /\ Cardinality(Group(calls, k)) >= RetryThreshold
                /\ \E i \in Group(calls, k) : calls[i].status = "error"}}

SideEffectMarkers ==
  {"send", "mail", "pay", "post", "write", "delete", "create", "submit"}

\* As a plausible slip would have it: one success is enough.
duplicate_after_error(calls) ==
  {Signal("duplicate_side_effect", "fail", <<"calls", key>>) :
     key \in {k \in CallKeys(calls) :
                /\ Cardinality(Group(calls, k)) >= 2
                /\ \E i \in Group(calls, k) : calls[i].status = "ok"
                /\ k[1] \in SideEffectMarkers}}

\* Every attempt succeeded, so the effect really happened more than once.
duplicate_side_effect(calls) ==
  {Signal("duplicate_side_effect", "fail", <<"calls", key>>) :
     key \in {k \in CallKeys(calls) :
                /\ Cardinality(Group(calls, k)) >= 2
                /\ \A i \in Group(calls, k) : calls[i].status = "ok"
                /\ k[1] \in SideEffectMarkers}}

\* The first schema registered for a tool counts; calls that carry only the hash
\* of their arguments, or arguments that do not parse, raise nothing.
tool_args(calls, schemas) ==
  LET SchemaOf(tool) == SelectInSeq(schemas, LAMBDA s : s.tool = tool)
  IN {Signal("tool_args_invalid", "fail", <<"tool", tool>>) :
        tool \in {t \in {calls[i].name : i \in DOMAIN calls} :
                    /\ SchemaOf(t) # 0
                    /\ \E i \in DOMAIN calls :
                         /\ calls[i].name = t
                         /\ calls[i].args \notin {Missing, "unparsable"}
                         /\ calls[i].args \notin schemas[SchemaOf(t)].accepts}}

\* A recorded, empty output of a run whose usage says that the model spoke.
empty_output(out, tokens) ==
  Raise(out.text = "blank" /\ tokens > 0,
        Originating(Signal("empty_output", "fail", <<"output">>)))

\* A string is a record unless it was carried through; with no input to compare
\* with, every string counts.
carries_record(out, in) ==
  \/ out.records \cap {"collection", "count", "scalar"} # {}
  \/ "echo" \in out.records /\ in.text # "text"

zero_result_set(out, in) ==
  Raise(out.json /\ ~ carries_record(out, in),
        Signal("zero_result_set", "warn", <<"output">>))

run_failed(status, errorSpans) ==
  Raise(status = "failed" \/ errorSpans, Signal("run_failed", "fail", <<"run">>))

-------------------------------------------------------------------------------
(* signals.py: files are entries of the out-of-band artifact_meta            *)

KindOf == [docx |-> "zip", xlsx |-> "zip", pptx |-> "zip", pdf |-> "pdf",
           md |-> "text", txt |-> "text", html |-> "text", htm |-> "text",
           json |-> "text", csv |-> "text"]

declared_ext(file) == IF file.declared # NoExt THEN file.declared ELSE file.ext

artifact_integrity(files, minBytes) ==
  UNION {
    LET file == files[i]
        ext == declared_ext(file)
        Fail(why) == Signal("artifact_integrity_fail", "fail", <<"file", i, why>>)
    IN  Raise(file.detected = "missing", Fail("artifact_missing"))
        \cup Raise(/\ ext \in DOMAIN KindOf
                   /\ file.detected \notin {"missing", Missing, KindOf[ext]},
                   Fail("artifact_kind_mismatch"))
        \cup Raise(file.parses = "no", Fail("artifact_parse_failed"))
        \cup Raise(file.nonempty = "no", Fail("artifact_empty"))
        \cup Raise(/\ file.nonempty # "no"
                   /\ file.size # -1 /\ file.size < minBytes,
                   Fail("artifact_too_small"))
    : i \in DOMAIN files}

\* The stamp of a rule set: the rules without their row ids, and the settings the
\* checks read.  Registering the same rule again does not change it.
check_rules_fingerprint(rules, minBytes) ==
  <<{[r EXCEPT !.id = 0] : r \in rules}, minBytes>>

-------------------------------------------------------------------------------
(* checks_content.py                                                         *)

\* None for a rule that is itself broken.
section_present(out, rule) ==
  IF rule.broken THEN "none"
  ELSE IF out.text = "text" /\ rule.section \in out.sections THEN "yes" ELSE "no"

required_section(out, rules) ==
  {Signal("missing_required_section", "fail", <<"section", r.section>>) :
     r \in {x \in rules : section_present(out, x) = "no"}}

SumUp(figures) == FoldLeft(LAMBDA a, b : a + b, 0, figures)

\* A declared total, a list that is empty or has the figure somewhere.
sum_invariant(out, tolerances) ==
  {Signal("numeric_invariant_breach", "fail", <<"sum", t>>) :
     t \in {x \in tolerances :
              /\ out.json /\ out.total # NoSum
              /\ LET drift == SumUp(out.items) - out.total
                 IN drift > x \/ - drift > x}}

unit_inconsistency(in, out) ==
  Raise(/\ in.text # "absent" /\ out.text # "absent"
        /\ Cardinality(in.families) = 1
        /\ in.families \cap out.families = {}
        /\ out.families # {},
        Signal("unit_inconsistency", "warn", <<"families", out.families>>))

\* Pairs of dates out of order, and a deadline before the day the run started.
temporal_invariant(out, today) ==
  {Signal("temporal_invariant_breach", "warn", <<"order", p[1], p[2]>>) :
     p \in {q \in out.dates \X out.dates :
              out.json /\ q[1] # q[2] /\ q[1].start /\ q[2].end /\ q[2].day < q[1].day}}
  \cup
  {Signal("temporal_invariant_breach", "warn", <<"due", d>>) :
     d \in {x \in out.dates : out.json /\ x.due /\ x.day < today}}

MinSpoken == 120

\* expected is "" when neither side carries the parameter.
language_mismatch(expected, out) ==
  Raise(/\ expected # "" /\ out.spoken >= MinSpoken
        /\ out.language \notin {expected, "unsure"},
        Signal("language_mismatch", "fail", <<"language", expected>>))

-------------------------------------------------------------------------------
(* checks_numeric.py, checks_security.py                                     *)

CONSTANT MinInputNumbers            \* _MIN_INPUT_NUMBERS

MinOutputChars == 200

numeric_content_lost(in, out) ==
  Raise(out.length >= MinOutputChars /\ Cardinality(in.numbers) >= MinInputNumbers /\ out.numbers = {},
        Signal("numeric_content_lost", "fail", <<"output">>))

UniversalFactors == {1, 10, 100, 1000, 10000}

Derivable(value, in) ==
  \E source \in in.numbers, factor \in UniversalFactors \cup in.rates :
    value = source * factor \/ value * factor = source

number_not_derivable(in, out) ==
  Raise(/\ out.tabular /\ Cardinality(in.numbers) >= MinInputNumbers
        /\ \E value \in out.numbers : ~ Derivable(value, in),
        Signal("number_not_derivable", "fail", <<"output">>))

sensitive_data(out) ==
  {Signal("sensitive_data_exposure", "warn", <<"secret", kind>>) : kind \in out.secrets}

injection_signature(out) ==
  {Signal("prompt_injection_signature", "warn", <<"lure", lure>>) : lure \in out.lures}
================================================================================
