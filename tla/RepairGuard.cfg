SPECIFICATION PageSpec
CONSTANTS
  Nodes = {n1, n2}
  Roles <- MCRoles
  Kinds = {"sync"}
SYMMETRY Perms
INVARIANTS NoLaunchDuringOutage OnlyStorageBlocks PageAsksOnlyWhenFit
CHECK_DEADLOCK FALSE
