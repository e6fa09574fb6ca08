------------------------------ MODULE MCTier2Jobs ------------------------------
(***************************************************************************)
(* Instances of Tier2Jobs for TLC.  Message 1 is tier1's request for g1    *)
(* and message 2 its duplicate (a redelivered tier1 message XADDs again,   *)
(* with the same dedup_key); message 3 is a manual request of the API.     *)
(***************************************************************************)
EXTENDS Tier2Jobs, TLC

CONSTANTS g1, g2, auto, manual

\* Both requests for one graph.
OneGraph == [d \in Dedups |-> g1]

\* One request for each of two graphs.
TwoGraphs == [d \in Dedups |-> IF d = auto THEN g1 ELSE g2]

\* The duplicated automatic request and the manual one.
WithDuplicate == [m \in Messages |-> IF m = 3 THEN manual ELSE auto]

WorkerSymmetry == Permutations(Workers)
================================================================================
