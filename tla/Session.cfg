SPECIFICATION Spec
CONSTANTS
  Reqs = {r1, r2}
  States = {s1, s2}
  Idle = 2
  Refresh = 1
  Absolute = 3
  MaxNow = 5
SYMMETRY Perms
INVARIANTS AbsoluteLimit
PROPERTIES IdleLimit OnlyCrossingsUndoLogout
