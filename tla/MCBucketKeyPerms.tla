-------------------------- MODULE MCBucketKeyPerms --------------------------
(* Instance of BucketKeyPerms for TLC: interchangeable requests. *)
EXTENDS BucketKeyPerms, TLC

Symmetry == Permutations(Requests)
=============================================================================
