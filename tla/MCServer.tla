------------------------------ MODULE MCServer -------------------------------
(* One list of two buckets through one worker, and one mutation, in a process  *)
(* whose budget has the proportions of main.go's.                              *)
EXTENDS Server
=============================================================================
