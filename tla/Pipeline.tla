-------------------------------- MODULE Pipeline -------------------------------
(***************************************************************************)
(* From the first span to the analysis: the ingest service composed with   *)
(* tier 1 and tier 2 through ad.graphs.completed and ad.graphs.tier2.      *)
(*                                                                         *)
(* Both consumers are reduced to what a message does in the end: tier 1    *)
(* answers an announcement with a request whose dedup_key is the graph_id  *)
(* (worker/tier1.py), tier 2 analyses what is stored when it loads the     *)
(* graph, unless a job with that dedup_key exists (worker/tier2.py).       *)
(* Delivery, failing handlers and crashes of the worker are the subject of *)
(* StreamGroup and Tier2Jobs; so is the manual request, which has a        *)
(* dedup_key of its own and would only add to what is analysed.            *)
(***************************************************************************)
EXTENDS IngestFinalizer

VARIABLES heard,    \* announcements tier 1 has dealt with, per graph
          asked,    \* requests with dedup_key = graph_id on ad.graphs.tier2
          answered, \* those tier 2 has dealt with
          job,      \* graphs with a row dedup_key = graph_id in tier2_jobs
          analysed, \* runs that were part of an analysis
          declined  \* history: graphs tier 1 once did not promote

tierVars == <<heard, asked, answered, job, analysed, declined>>
vars == <<ingestVars, tierVars>>

TypeOK ==
    /\ IngestTypeOK
    /\ heard \in [Graphs -> Nat]
    /\ asked \in [Graphs -> Nat]
    /\ answered \in [Graphs -> Nat]
    /\ job \in SUBSET Graphs
    /\ analysed \in SUBSET Runs
    /\ declined \in SUBSET Graphs

Init ==
    /\ IngestInit
    /\ heard = [g \in Graphs |-> 0]
    /\ asked = [g \in Graphs |-> 0]
    /\ answered = [g \in Graphs |-> 0]
    /\ job = {}
    /\ analysed = {}
    /\ declined = {}

Analysis(g) == analysed' = analysed \cup (runs \cap RunsIn(g))

\* Tier 1 flags or samples the graph ..
Tier1Promotes(g) ==
    /\ heard[g] < announced[g]
    /\ heard' = [heard EXCEPT ![g] = @ + 1]
    /\ asked' = [asked EXCEPT ![g] = @ + 1]
    /\ UNCHANGED <<ingestVars, answered, job, analysed, declined>>

\* .. or finds nothing and does not sample it.
Tier1Declines(g) ==
    /\ heard[g] < announced[g]
    /\ heard' = [heard EXCEPT ![g] = @ + 1]
    /\ declined' = declined \cup {g}
    /\ UNCHANGED <<ingestVars, asked, answered, job, analysed>>

\* The first request claims the job and is analysed ..
Tier2Claimed(g) ==
    /\ answered[g] < asked[g]
    /\ answered' = [answered EXCEPT ![g] = @ + 1]
    /\ g \notin job
    /\ job' = job \cup {g}
    /\ Analysis(g)
    /\ UNCHANGED <<ingestVars, heard, asked, declined>>

\* .. a later one is "already done; skipping".
Tier2Skipped(g) ==
    /\ answered[g] < asked[g]
    /\ answered' = [answered EXCEPT ![g] = @ + 1]
    /\ g \in job
    /\ UNCHANGED <<ingestVars, heard, asked, job, analysed, declined>>

WorkerStep(g) == \/ Tier1Promotes(g) \/ Tier1Declines(g)
                 \/ Tier2Claimed(g) \/ Tier2Skipped(g)

Next == \/ IngestNext /\ UNCHANGED tierVars
        \/ \E g \in Graphs : WorkerStep(g)

\* The ingest process as in IngestFinalizer; the worker deals with every
\* message in the end.
Fairness == /\ \A b \in Batches : WF_vars(PostStep(b) /\ UNCHANGED tierVars)
            /\ WF_vars(FinalizerStep /\ UNCHANGED tierVars)
            /\ SF_vars(Scan(Active) /\ UNCHANGED tierVars)
            /\ \A g \in Graphs : WF_vars(WorkerStep(g))

Spec == Init /\ [][Next]_vars
FairSpec == Spec /\ Fairness

--------------------------------------------------------------------------------
(* Properties.                                                             *)

\* Once tier 2 has analysed a graph, no run of it that was in time is left out:
\* whatever the interleaving of posting, re-mapping, finalizing and analysing,
\* a stored run is in the analysis unless a POST (overdue) or the re-map of a
\* re-announced graph (remapped) stored it after the graph was finalized.
NoRunLeftOut == \A g \in job :
    runs \cap RunsIn(g) \subseteq analysed \cup overdue \cup remapped

\* "Set REANALYZE_LATE_SPANS=true to go further: the graph is re-mapped and
\* re-announced, triggering a fresh analysis over the now-complete span set"
\* (docs/instrumentation.md:420-423): a counted late run is analysed.
LateRunsAnalysed == \A g \in Graphs : \A r \in RunsIn(g) :
    (ReanalyzeLateSpans /\ r \in noticed)
        ~> (r \in analysed \/ g \in lost \cup declined)
================================================================================
