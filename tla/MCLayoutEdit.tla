---------------------------- MODULE MCLayoutEdit ----------------------------
(* A storage node whose capacity is not a whole number of GiB and whose only *)
(* tag has a comma in it, and a node without a role that is staged for one,  *)
(* in a zone whose name ends in a blank.                                     *)
EXTENDS LayoutEdit, Sequences, TLC

CONSTANTS n1, n2
MCZones      == {"", "a", "a ", "b"}
MCTrim       == [z \in MCZones |-> IF z = "a " THEN "a" ELSE z]
MCTypedZones == {"b", ""}
MCTagLists   == {<<>>, <<"x,y">>, <<"x", "y">>}
MCTagTexts   == {"", "x,y", "x, y"}
MCTagText    == [t \in MCTagLists |-> CASE Len(t) = 0 -> "" [] Len(t) = 1 -> "x,y" [] OTHER -> "x, y"]
MCParseTags  == [x \in MCTagTexts |-> IF x = "" THEN <<>> ELSE <<"x", "y">>]
MCTypedTags  == {""}
MCRoles      == [n \in Members |-> IF n = n1 THEN [zone |-> "a", tags |-> <<"x,y">>, cap |-> 12] ELSE NoRole]
MCStaged     == [n \in {n2} |-> [zone |-> "a ", tags |-> <<>>, cap |-> 20]]
MCOther      == {MCStaged[n2]}
=============================================================================
