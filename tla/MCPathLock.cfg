SPECIFICATION FairSpec
CONSTANTS
  i1 = i1
  i2 = i2
  i3 = i3
  f1 = f1
  f2 = f2
  k1 = k1
  k2 = k2
  k3 = k3
  Imports = {i1, i2, i3}
  Paths = {f1, f2}
  Locks = {k1, k2, k3}
  Nobody = Nobody
  Nil = Nil
PROPERTIES
  ImplementsMutex
  EventuallyIn
