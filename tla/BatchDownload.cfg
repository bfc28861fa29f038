SPECIFICATION Spec
CONSTANTS
  Posts = {p1, p2}
  Gets = {g1, g2}
  Tokens = {t1, t2}
  Buckets = {b1, b2}
  KeyLists <- MCKeyLists
  Strip <- MCStrip
  Neutral <- MCNeutral
  MaxKeys = 3
  TTL = 0
  MaxTickets = 1
  MaxNow = 1
  MaxRestarts = 1
SYMMETRY Perms
INVARIANTS CompleteArchive SafeNames
PROPERTIES ImplementsVoucher RedeemExactly RefusedOnlyWhenFull
CHECK_DEADLOCK FALSE
