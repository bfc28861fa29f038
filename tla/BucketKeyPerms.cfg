SPECIFICATION Spec
CONSTANT Requests = {r1, r2}
SYMMETRY Symmetry
INVARIANTS NeverLockedOut AnswerIsWanted DirtyIsExplained
PROPERTY ConsoleKeepsOwner
CHECK_DEADLOCK FALSE
