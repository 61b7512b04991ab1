SPECIFICATION FairSpec
CONSTANTS
  Sessions = {"c", "j", "x", "n", "o"}
  StoreOf <- SomeStores
  Files <- SomeFiles
  Named <- SomeNamed
  TargetOf <- SomeTargets
  Targets = {"claude", "jcode", "opencode"}
  Pooled = {"claude"}
  Queried = {"opencode"}
  Documents = {"jcode"}
  Headed = {}
  Readers = 2
  New = {"n", "o"}
  Native = {"c", "j"}
  HandoffOnly = {}
  Actors = {"a1", "a2"}
  MaxSaves = 1
  MaxStarted = 2
CONSTRAINT InOrder
INVARIANTS
  ScanIsFaithful
  ReportedDeleteIsComplete
  IndexKeepsOthers
  ConversionIsAllOrNothing
PROPERTIES
  ScanEnds
CHECK_DEADLOCK FALSE
