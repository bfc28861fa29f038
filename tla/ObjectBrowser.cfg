SPECIFICATION BrowserSpec
CONSTANTS
  Objects <- MCObjects
  Prefixes = {home, dir}
  Home = home
  Parent <- MCParent
  Listed <- MCListed
  Below <- MCBelow
  PageSize = 1
  KeyStates <- AllKeyStates
  MaxActs = 4
INVARIANTS BlameIsEvidenced DeletionsSettle
CHECK_DEADLOCK FALSE
