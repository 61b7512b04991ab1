SPECIFICATION Spec
CONSTANTS
  a = a
  b = b
  new = new
  f1 = f1
  f2 = f2
  p1 = p1
  p2 = p2
  None = None
  Order <- TwoSessions
  Folders = {f1, f2}
  FolderOf <- Workspace2
  ProviderOf <- Agent2
  Accepting <- Writable
  Queries = {"", "word"}
  Matches <- Found
  Scopes = 1
  MaxSearches = 2
  MaxOutside = 1
INVARIANTS
  ListIsCurrent
PROPERTIES
  NewSessionSelected
CHECK_DEADLOCK FALSE
