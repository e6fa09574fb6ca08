---------------------------- MODULE MCStreamGroup ----------------------------
(***************************************************************************)
(* Instances of StreamGroup for TLC: the configurations give every         *)
(* constant its value.  Two worker processes are interchangeable, which    *)
(* the run that checks no liveness may use.                                *)
(***************************************************************************)
EXTENDS StreamGroup, TLC

WorkerSymmetry == Permutations(Workers)
================================================================================
