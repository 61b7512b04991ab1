SPECIFICATION Spec
CONSTANTS
  c1 = c1
  c2 = c2
  c3 = c3
  file1 = file1
  cli1 = cli1
  app1 = app1
  app2 = app2
  t1 = t1
  p1 = p1
  p2 = p2
  Calls = {c1, c2, c3}
  Keys = {file1, cli1, app1}
  Targets = {t1}
  Procs = {p1}
  ProcOf <- OneProcess
  Kind <- KindOf
  TargetOf <- OnT1
  Filtered = {}
  Twins = {}
  Concurrent = FALSE
  MaxStamp = 0
  NoCall = NoCall
INVARIANTS
  AtMostOnce
PROPERTIES
  ImplementsOnce
SYMMETRY OwnSymmetry
CHECK_DEADLOCK FALSE
