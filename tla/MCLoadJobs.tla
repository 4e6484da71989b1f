----------------------------- MODULE MCLoadJobs -----------------------------
(* Instances of LoadJobs for TLC. *)
EXTENDS LoadJobs, TLC

RunSymmetry == Permutations(Run)
=============================================================================
