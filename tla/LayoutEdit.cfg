SPECIFICATION LayoutSpec
CONSTANTS
  n1 = n1
  n2 = n2
  NoNode = NoNode
  Members = {n1, n2}
  Zones <- MCZones
  Trim <- MCTrim
  TypedZones <- MCTypedZones
  TagLists <- MCTagLists
  TagTexts <- MCTagTexts
  TagText <- MCTagText
  ParseTags <- MCParseTags
  TypedTags <- MCTypedTags
  Redundancies = {"maximum", "one"}
  Invalid = Invalid
  GiB = 10
  Typed = {2}
  OtherRoles <- MCOther
  InitRoles <- MCRoles
  InitStaged <- MCStaged
  InitRedundancy = "maximum"
  MaxEdits = 1
  MaxCalls = 2
  MaxOthers = 1
PROPERTIES StagedAsEdited AppliedAsShown RevertTakesBack
CHECK_DEADLOCK FALSE
