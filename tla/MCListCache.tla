---------------------------- MODULE MCListCache -----------------------------
(* Interchangeable requests for the caches, and lists of up to five entries  *)
(* in pages of two for the walk.                                             *)
EXTENDS InfoPages, TLC

Symmetry == Permutations(Lists) \cup Permutations(Mutations)
=============================================================================
