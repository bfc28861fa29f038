SPECIFICATION Spec
CONSTANTS
  f1 = f1
  f2 = f2
  f3 = f3
  k1 = k1
  k2 = k2
  Files = {f1, f2, f3}
  Keys = {k1, k2}
  KeyOf <- MCKeyOf
  MaxConcurrent = 2
  MaxTries = 3
  MaxMounts = 2
  MaxForeign = 1
SYMMETRY Perms
INVARIANTS EachFileOnce NoIdleSlot ReplacesOnlyRaced ListingRefreshed
CHECK_DEADLOCK FALSE
