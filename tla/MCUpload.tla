------------------------------ MODULE MCUpload ------------------------------
(* Two files with the same key and one with another. *)
EXTENDS Upload, TLC

CONSTANTS f1, f2, f3, k1, k2
MCKeyOf == [f \in Files |-> IF f = f3 THEN k2 ELSE k1]
Perms == Permutations({f1, f2})
=============================================================================
