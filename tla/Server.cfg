SPECIFICATION ServerSpec
CONSTANTS
  Lists = {l1}
  Mutations = {m1}
  Buckets = {b1, b2}
  Keys = {}
  TTL = 0
  FetchTimeout = 0
  EnrichWorkers = 1
  MaxNow = 0
  DrainTimeout = 1
  CloseWait = 1
  FlushTimeout = 1
  Grace = 4
  MaxCopy = 4
  MaxWrites = 4
INVARIANT NothingUnrecorded
PROPERTY EveryRequestEnds
CHECK_DEADLOCK FALSE
