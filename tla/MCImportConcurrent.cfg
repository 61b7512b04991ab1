SPECIFICATION Spec
CONSTANTS
  c1 = c1
  c2 = c2
  c3 = c3
  file1 = file1
  cli1 = cli1
  app1 = app1
  app2 = app2
  t1 = t1
  p1 = p1
  p2 = p2
  Calls = {c1, c2}
  Keys = {file1, cli1, app1, app2}
  Targets = {t1}
  Procs = {p1, p2}
  ProcOf <- TwoProcesses
  Kind <- KindOf
  TargetOf <- OnT1
  Filtered = {}
  Twins = {app1}
  Concurrent = TRUE
  MaxStamp = 2
  NoCall = NoCall
INVARIANTS
  IntentCoversWrite
  RetryableIsSafe
  CommittedIsWritten
  ReviewedHistoryKept
PROPERTIES
  NoOpIsTruthful
CHECK_DEADLOCK FALSE
