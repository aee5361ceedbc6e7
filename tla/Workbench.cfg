CONSTANTS
  Secrets = {s}
  Folders = {a, b}
  Tags = {t}
  Pages = {p, q}
  MaxRevision = 3
  Budget = 5
  Fields = {a, b}
  Typed = {s}
  Editors = {p, q}
  MaxNumber = 3
  Accounts = {a, b}
  Flows = {p, q}
  MaxCopies = 2
  MaxKey = 2
  MaxRequests = 2
  Versions = {1, 2}
  MaxLoads = 2
  Vaults = {x, y}
SPECIFICATION SumSpec
SYMMETRY Symmetry
CONSTRAINT Followed
CHECK_DEADLOCK FALSE
INVARIANTS
  WorkbenchTypeOK
  EverySaveCounts NothingDangles LogMatchesDeletions
  SecretsRender CurrentIsNewest
  LockHidesVault WorkbenchShowsItsOwner OpenIsArmed
  CopyIsOneAccounts OffMeansNoCopy
  BundleHoldsItsKeys RestoreIsWhole
  CopiesAreCleared ListIsTrue ScreensFitTheVault
  ClearWasAskedFor SavesAreTheirForms
PROPERTIES SavesReplaceWhatIsShown LossIsAnnounced
