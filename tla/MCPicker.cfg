SPECIFICATION FairSpec
CONSTANTS
  a = a
  b = b
  new = new
  f1 = f1
  f2 = f2
  p1 = p1
  p2 = p2
  None = None
  Order <- ThreeSessions
  Folders = {f1, f2}
  FolderOf <- Workspace3
  ProviderOf <- Agent3
  Accepting <- Writable
  Queries = {""}
  Matches <- Found
  Scopes = 2
  MaxSearches = 1
  MaxOutside = 1
INVARIANTS
  OneCommand
  PreviewIsCurrent
  NoGhost
  NoBlankList
PROPERTIES
  DeleteKeepsPlace
  BusyEnds
CHECK_DEADLOCK FALSE
