SPECIFICATION InfoSpec
CONSTANTS
  Lists = {l1, l2}
  Mutations = {m1}
  Buckets = {b1}
  Keys = {k1}
  TTL = 1
  FetchTimeout = 1
  EnrichWorkers = 1
  MaxNow = 3
  Ids = {1, 2, 3, 4, 5}
  PageLimit = 2
  MaxPages = 3
SYMMETRY Symmetry
INVARIANTS StalenessBounded StaleOnlyIfCrossed PagesAreWhole
CHECK_DEADLOCK FALSE
