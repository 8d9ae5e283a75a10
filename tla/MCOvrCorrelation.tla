-------------------------- MODULE MCOvrCorrelation --------------------------
(***************************************************************************)
(* Model-checking instance of OvrCorrelation.  The queue capacity is 2     *)
(* instead of 100: with 3 tracking states the state queue wraps and fills, *)
(* which is what MAX_SIZE = 100 reaches after 100 poses.                   *)
(***************************************************************************)
EXTENDS OvrCorrelation, TLC

(* The callers of get_tracked_pose are interchangeable threads.           *)
CallerSymmetry == Permutations(Callers)
=============================================================================
