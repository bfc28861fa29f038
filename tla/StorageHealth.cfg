SPECIFICATION Spec
CONSTANTS
  s1 = s1
  g1 = g1
  t1 = t1
  t2 = t2
  Nodes = {s1, g1}
  Storage = {s1}
  Tabs = {t1, t2}
  Here = t1
  Outcomes <- MCOutcomes
  MaxChanges = 1
  Things = {x1, x2}
  Counts = {0, 1, 2}
  MaxPolls = 4
  Tracked = {s1, g1}
  Versions = {1, 2, 3}
INVARIANTS NoCancellationShared QuietIsEvidenced MaintenanceIsEvidenced
PROPERTY EveryAskEnds
CHECK_DEADLOCK FALSE
