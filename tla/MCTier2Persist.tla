---------------------------- MODULE MCTier2Persist -----------------------------
(***************************************************************************)
(* Instances of Tier2Persist for TLC.  Writers, graphs and keys are model  *)
(* values with no order among them.                                        *)
(***************************************************************************)
EXTENDS Tier2Persist, TLC

PersistSymmetry == Permutations(Writers) \cup Permutations(Graphs) \cup Permutations(Keys)
                   \cup Permutations(Runs)
================================================================================
