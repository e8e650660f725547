------------------------------- MODULE MCJobs -------------------------------
(* JobLifecycle and its refinement for TLC.                                *)
EXTENDS JobRefinement, TLC

Symmetric == Permutations(Handlers) \cup Permutations(Workers)
               \cup Permutations(Bodies) \cup Permutations(Keys)
=============================================================================
