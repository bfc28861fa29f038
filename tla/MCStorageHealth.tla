--------------------------- MODULE MCStorageHealth ---------------------------
(* A storage node whose parts cover every case of the merge (an error of its *)
(* worker listing stands for one of its variables, too), and a gateway that  *)
(* never reports its variables: an error of its own.                         *)
EXTENDS Dashboard, TLC

CONSTANTS s1, g1, t1, t2
MCStorage  == [stats |-> Parts, vars |-> {"read", "absent"}, workers |-> {"absent", "error"}]
MCGateway  == [stats |-> {"read"}, vars |-> {"absent"}, workers |-> {"absent"}]
MCOutcomes == [s \in Sources |-> [n \in Nodes |-> IF n = g1 THEN MCGateway[s] ELSE MCStorage[s]]]
=============================================================================
