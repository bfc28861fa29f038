SPECIFICATION ConsoleSpec
CONSTANTS
  MaxChanges = 2
  Categories <- MCCategories
  Minting <- MCMinting
  Exempt <- MCExempt
  Called <- MCCalled
  Newer <- MCNewer
  MaxEdits = 5
INVARIANTS OwnChangeShown SecretUndisturbed
PROPERTIES OnlyEditedSent EditsKept HarmConfirmed
CHECK_DEADLOCK FALSE
