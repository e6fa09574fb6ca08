------------------------------- MODULE Tier1 -------------------------------
(***************************************************************************)
(* Tier1Processor.process on the rows that SpanStore leaves behind: the    *)
(* deterministic flags of a completed graph, one judgement of its          *)
(* deliverable, the verdict, the rolling baselines of its agents, and the  *)
(* request for an analysis.  A worker may die between any two steps; the   *)
(* message stays pending and is processed again from the start.            *)
(*                                                                         *)
(* The output of a run is "fine", "empty", "repetitive", "opaque" (a file  *)
(* that is only named), "partial" (text with media nobody opened),         *)
(* "off_schema", "broken_file", "no_section" or "secret".                  *)
(* Which run is the deliverable of a graph with verifiers is in Analysis,  *)
(* and what makes a loop an anomaly in BlameEngine: the programs here have *)
(* neither.                                                                *)
(***************************************************************************)
EXTENDS SpanStore, TraceChecks

CONSTANTS CostBudget,         \* settings.cost_budget_default_usd
          SampledGraphs,      \* graphs whose hash falls under tier2_sample_pct
          Replies             \* what the judge may say: <<answer, form>>

ASSUME Tier1Assumption == 
  /\ CostBudget \in Int
  /\ Replies \subseteq {"ok", "bad", "not_checkable", "nonsense", "no_reply"} \X {"none", "ok", "bad"}

VARIABLES job,                \* the graph in process(), or NoJob
          verdicts,           \* rows of tier1_verdicts
          samples,            \* runs counted in agent_stats, each as often as it was
          tier2               \* graphs requested on ad.graphs.tier2

tierVars == <<job, verdicts, samples, tier2>>
tier1Vars == <<storeVars, tierVars>>

NoJob == [stage |-> "idle"]

RunsOf(g) == {r \in runs : r.graph = g}
EdgesOf(g) == {e.edge : e \in {x \in edges : x.graph = g}}

\* The last of the runs that feed no other; of all, when each feeds one.
deliverable_run(rows, links) ==
  LET sinks == {r \in rows : \A e \in links : e.from # r.key}
      fed == {r \in rows : r.output # "empty" /\ \E e \in links : e.to = r.key}
      last == CASE sinks # {} -> sinks
                [] sinks = {} /\ fed # {} -> fed
                [] OTHER -> rows
  IN  CHOOSE r \in last : \A o \in last \ {r} : Before(o, r, 0)

graph_cost(rows) == MapThenSumSet(LAMBDA r : r.cost, {r \in rows : r.cost # NoNum})

Calls(r) == parse_tool_calls(r.tool_calls)

\* A defect of the graph: the analysis is requested.
HardFlags(rows, links) ==
  LET shown == deliverable_run(rows, links).output
  IN  {f \in {"failed_runs"} : \E r \in rows : r.status = "failed"}
        \cup {f \in {"cost_overrun"} : graph_cost(rows) > CostBudget}
        \cup {f \in {"schema_violation"} : \E r \in rows : r.output = "off_schema"}
        \cup {f \in {"degenerate_output"} : shown \in {"empty", "repetitive"}}
        \cup {f \in {"required_section"} : shown = "no_section"}
        \cup {f \in {"artifact_integrity"} : shown = "broken_file"}
        \cup UNION {Names(Failing(duplicate_side_effect(Calls(r)))) : r \in rows}

\* An observation that rides along and pages no one.
SoftFlags(rows) ==
  UNION {Names(loop_fingerprint(Calls(r)) \cup retry_storm(Calls(r))) : r \in rows}
    \cup {f \in {"sensitive_data"} : \E r \in rows : r.output = "secret"}

\* What becomes of an answer of the judge about a deliverable.
terminal_judge(shown, answer, form) ==
  CASE shown = "empty" -> [verdict |-> "not_checkable", form |-> "none", partial |-> FALSE]
    [] shown # "empty" /\ answer = "no_reply" ->
         [verdict |-> "error", form |-> "none", partial |-> FALSE]
    [] shown = "opaque" /\ answer # "no_reply" ->
         [verdict |-> "not_checkable", form |-> "none", partial |-> FALSE]
    [] OTHER -> [verdict |-> IF answer = "nonsense" THEN "error" ELSE answer,
                 form |-> form, partial |-> shown = "partial"]

\* A failed check of the deliverable needs no judge.
Judged(job_, answer, form) ==
  IF job_.flags \cap {"artifact_integrity", "required_section"} # {}
  THEN [verdict |-> "bad", form |-> "none", partial |-> FALSE]
  ELSE terminal_judge(job_.shown, answer, form)

-----------------------------------------------------------------------------
Tier1Init ==
  /\ StoreInit
  /\ job = NoJob
  /\ verdicts = << >> /\ samples = << >>
  /\ tier2 = {}

\* A graph whose runs all moved to another one has no deliverable: process raises
\* before it writes anything, and the message stays pending for the reaper.
Load(g) ==
  /\ job = NoJob
  /\ g \in completed
  /\ RunsOf(g) # {}
  /\ job' = [stage |-> "loaded", graph |-> g, rows |-> RunsOf(g),
             flags |-> HardFlags(RunsOf(g), EdgesOf(g)), soft |-> SoftFlags(RunsOf(g)),
             shown |-> deliverable_run(RunsOf(g), EdgesOf(g)).output,
             complete |-> Traces(program) = whole]
  /\ UNCHANGED <<storeVars, verdicts, samples, tier2>>

Flagged(flags, verdict) == flags # {} \/ verdict = "bad"

StoreVerdict(answer, form) ==
  /\ job.stage = "loaded"
  /\ LET judged == Judged(job, answer, form)
         flags == job.flags \cup {f \in {"terminal_form_breach"} : judged.form = "bad"}
         flagged == Flagged(flags, judged.verdict)
         row == [verdict  |-> judged.verdict,
                 flags    |-> flags,
                 soft     |-> job.soft \cup {f \in {"uninspected_media"} : judged.partial},
                 flagged  |-> flagged,
                 sampled  |-> ~flagged /\ job.graph \in SampledGraphs,
                 complete |-> job.complete]
     IN  verdicts' = [g \in DOMAIN verdicts \cup {job.graph} |->
                        IF g = job.graph THEN row ELSE verdicts[g]]
  /\ job' = [stage |-> "stored", graph |-> job.graph,
             todo |-> {r \in job.rows : r.agent # None /\ r.cost # NoNum}]
  /\ UNCHANGED <<storeVars, samples, tier2>>

\* upsert_agent_stats: one transaction for each run.
Sample(r) ==
  /\ samples' = (r.key :> (IF r.key \in DOMAIN samples THEN samples[r.key] + 1 ELSE 1)) @@ samples
  /\ job' = [job EXCEPT !.todo = @ \ {r}]
  /\ UNCHANGED <<storeVars, verdicts, tier2>>

\* mutant: a graph whose runs were sampled before was requested before
PublishFresh ==
  /\ job.stage = "stored" /\ job.todo = {}
  /\ tier2' = IF (verdicts[job.graph].flagged \/ verdicts[job.graph].sampled)
                 /\ \A k \in DOMAIN samples : samples[k] = 1
              THEN tier2 \cup {job.graph} ELSE tier2
  /\ job' = [stage |-> "published", graph |-> job.graph]
  /\ UNCHANGED <<storeVars, verdicts, samples>>

Publish ==
  /\ job.stage = "stored" /\ job.todo = {}
  /\ tier2' = IF verdicts[job.graph].flagged \/ verdicts[job.graph].sampled
              THEN tier2 \cup {job.graph} ELSE tier2
  /\ job' = [stage |-> "published", graph |-> job.graph]
  /\ UNCHANGED <<storeVars, verdicts, samples>>

Ack ==
  /\ job.stage = "published"
  /\ completed' = completed \ {job.graph}
  /\ job' = NoJob
  /\ UNCHANGED <<program, unsent, posts, raw, rowVars, remap, whole, faults, remaps>>
  /\ UNCHANGED <<verdicts, samples, tier2>>

WorkerDies ==
  /\ job # NoJob /\ faults < MaxFaults
  /\ faults' = faults + 1
  /\ job' = NoJob
  /\ UNCHANGED <<program, unsent, posts, raw, rowVars, remap, whole, completed, remaps>>
  /\ UNCHANGED <<verdicts, samples, tier2>>

Tier1Next ==
  \/ StoreNext /\ UNCHANGED tierVars
  \/ \E g \in completed : Load(g)
  \/ \E reply \in Replies : StoreVerdict(reply[1], reply[2])
  \/ job.stage = "stored" /\ \E r \in job.todo : Sample(r)
  \/ Publish \/ Ack \/ WorkerDies

Tier1Spec == Tier1Init /\ [][Tier1Next]_tier1Vars

-----------------------------------------------------------------------------
\* The runs of g as the program ran them.
TrueRuns(g) == {r \in UNION {Truth[program][t].runs : t \in Traces(program)} : r.graph = g}

(***************************************************************************)
(* A verdict reached after the program was re-mapped from all its spans    *)
(* names a failed run or a repeated side effect exactly when the program   *)
(* had one: a span that came twice, or in another request than the agent   *)
(* it belongs to, neither makes a payment look posted twice nor hides an   *)
(* error.                                                                  *)
(***************************************************************************)
FlagsOfProgram ==
  \A g \in DOMAIN verdicts : verdicts[g].complete =>
    /\ "failed_runs" \in verdicts[g].flags <=> \E r \in TrueRuns(g) : r.status = "failed"
    /\ "duplicate_side_effect" \in verdicts[g].flags <=>
         \E r \in TrueRuns(g) : Failing(duplicate_side_effect(Calls(r))) # {}

(***************************************************************************)
(* A graph that tier 1 acknowledged with a defect on record has been       *)
(* requested for analysis, wherever the worker died on the way and         *)
(* whatever the judge answered the second time.                            *)
(***************************************************************************)
DefectsRequested ==
  \A g \in DOMAIN verdicts :
    verdicts[g].flagged /\ g \notin completed => g \in tier2

=============================================================================
