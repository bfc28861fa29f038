-------------------------- MODULE MCBatchDownload ---------------------------
EXTENDS BatchDownload, TLC

Segments == {"a", "..", "..^", "C:", "C_", "_errors.txt", "unnamed"}
MCStrip == [s \in Segments |-> IF s = "..^" THEN ".." ELSE s]
MCNeutral == [s \in Segments |-> IF s = "C:" THEN "C_" ELSE s]

Key(path, tags, slash) == [path |-> path, tags |-> tags, slash |-> slash]
A        == Key(<<"a">>, <<>>, FALSE)
A1       == Key(<<"a">>, <<1>>, FALSE)
HiddenA  == Key(<<"..^", "a">>, <<>>, FALSE)
DriveDir == Key(<<"..", "C:", "a">>, <<>>, TRUE)
Errors   == Key(<<"_errors.txt">>, <<>>, FALSE)

\* None; three that become "a", "a (1)", "a (2)"; one directory twice; an
\* object with the name of the report.
MCKeyLists == {<<>>, <<A1, A, HiddenA>>, <<DriveDir, DriveDir>>, <<Errors>>}
Perms == Permutations(Posts) \cup Permutations(Gets) \cup Permutations(Tokens)
           \cup Permutations(Buckets)
=============================================================================
