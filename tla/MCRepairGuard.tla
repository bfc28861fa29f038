--------------------------- MODULE MCRepairGuard ----------------------------
(* Nothing tells a gateway from a node without a role.                     *)
EXTENDS RepairPage, TLC

MCRoles == {"storage", "draining", "none"}
Perms == Permutations(Nodes)
=============================================================================
