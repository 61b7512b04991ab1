SPECIFICATION FairSpec
CONSTANTS
  empty = empty
  plain = plain
  tabbed = tabbed
  first = first
  second = second
  None = None
  Texts = {empty, plain, tabbed}
  Empty = empty
  Edited <- Shown
  Places = {"here", "there"}
  WorkingDir = "here"
  Rows = {first, second}
  Appendable = {first}
  Agents = 2
  MaxOpen = 2
  MaxReads = 1
INVARIANTS
  ResultIsMine
  PreviewIsOfSource
  PlanIsForScreen
PROPERTIES
  AppliesOnce
  WizardAnswers
CHECK_DEADLOCK FALSE
