---------------------------- MODULE MCDocuments ----------------------------
(* DocumentStore for TLC. *)
EXTENDS DocumentStore, TLC

\* Some order of the documents.
SomeRank == CHOOSE f \in [Docs -> 1 .. Cardinality(Docs)] : \A d, e \in Docs : f[d] = f[e] => d = e

\* Sound where SweepLimit takes in all documents, for then Rank plays no part.
Symmetric == Permutations(Docs) \cup Permutations(Callers) \cup Permutations(Workers)
==============================================================================
