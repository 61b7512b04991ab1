SPECIFICATION FairSpec
CONSTANTS
  c1 = c1
  c2 = c2
  c3 = c3
  file1 = file1
  cli1 = cli1
  app1 = app1
  app2 = app2
  t1 = t1
  p1 = p1
  p2 = p2
  Calls = {c1, c2}
  Keys = {app1, app2}
  Targets = {t1}
  Procs = {p1}
  ProcOf <- OneProcess
  Kind <- KindOf
  TargetOf <- OnT1
  Filtered = {}
  Twins = {app1}
  Concurrent = TRUE
  MaxStamp = 1
  NoCall = NoCall
INVARIANTS
  SerializedAppends
PROPERTIES
  EveryCallReturns
CHECK_DEADLOCK FALSE
