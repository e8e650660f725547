----------------------------- MODULE MCApiKeys -----------------------------
(* ApiKeys for TLC. *)
EXTENDS ApiKeys, TLC

Symmetric == Permutations(Keys) \cup Permutations(Callers) \cup Permutations(Replicas)
=============================================================================
