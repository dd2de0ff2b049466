---------------------------- MODULE MCLlmClient ----------------------------
(***************************************************************************)
(* Instances of LlmClient for TLC.  The threads are interchangeable, so    *)
(* the runs without liveness reduce by their symmetry.                     *)
(***************************************************************************)
EXTENDS LlmClient, TLC

ThreadSymmetry == Permutations(Calls)
=============================================================================
