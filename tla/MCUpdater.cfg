SPECIFICATION Spec
CONSTANTS
  p1 = p1
  p2 = p2
  Procs = {p1, p2}
  MaxVersion = 2
  NoTag = NoTag
  Dev = Dev
  Torn = Torn
SYMMETRY ProcSymmetry
INVARIANTS
  BinarySurvives
  OnlyReleasesInstalled
PROPERTIES
  NeverOlderThanItself
CHECK_DEADLOCK FALSE
