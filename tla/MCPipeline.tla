------------------------------- MODULE MCPipeline ------------------------------
(***************************************************************************)
(* The instance of Pipeline for TLC: batch 1 opens the graph, batch 2      *)
(* repeats its run (an exporter flushing again) and brings a second one,   *)
(* batch 3 repeats that and brings a third, which may arrive while the     *)
(* graph is re-mapped for the second.                                      *)
(***************************************************************************)
EXTENDS Pipeline, TLC

CONSTANTS g1, r1, r2, r3

Home == [b \in Batches |-> g1]
Once == [b \in Batches |-> 1]
RunsOfBatch == [b \in Batches |-> CASE b = 1 -> {r1} [] b = 2 -> {r1, r2} [] b = 3 -> {r2, r3}]
================================================================================
