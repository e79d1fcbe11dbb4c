SPECIFICATION Spec
CONSTANTS
  k1 = k1
  k2 = k2
  v1 = v1
  g1 = g1
  g2 = g2
  Keys = {k1, k2}
  Vals = {v1}
  Threads = {g1, g2}
  Workloads = {{"put", "delete", "change"}, {"put", "change", "deleteIndex"}}
  MaxVectors = 1
  MaxPhys = 3
  MaxDeficit = 0
  Faults = {"write", "load", "copy", "drop", "store", "crash"}
  None = None
INVARIANTS TypeOK CurrentExists SwitchPreservesData MigrationResumable LeftoversBounded
PROPERTIES ImplementsVectorIndex
SYMMETRY Symmetry
CHECK_DEADLOCK FALSE
