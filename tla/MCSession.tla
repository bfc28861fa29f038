----------------------------- MODULE MCSession ------------------------------
EXTENDS Session, TLC

Perms == Permutations(Reqs) \cup Permutations(States)
=============================================================================
