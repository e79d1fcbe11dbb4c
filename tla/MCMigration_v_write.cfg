SPECIFICATION Spec
CONSTANTS
  k1 = k1
  k2 = k2
  v1 = v1
  g1 = g1
  g2 = g2
  Keys = {k1, k2}
  Vals = {v1}
  Threads = {g1, g2}
  Workloads = {{"put", "change"}}
  MaxVectors = 2
  MaxPhys = 3
  MaxDeficit = 0
  Faults = {}
  None = None
INVARIANTS NoWriteLost
SYMMETRY Symmetry
CHECK_DEADLOCK FALSE
