-------------------------- MODULE MCObjectBrowser ---------------------------
(* Two objects at the top, one in a folder. *)
EXTENDS ObjectBrowser

MCObjects   == 1..3
MCListed == [p \in Prefixes |-> IF p = Home THEN {1, 2} ELSE {3}]
MCBelow  == [p \in Prefixes |-> IF p = Home THEN MCObjects ELSE {3}]
MCParent == [p \in Prefixes |-> Home]
AllKeyStates == {"good", "expired", "missing", "broken"}
=============================================================================
