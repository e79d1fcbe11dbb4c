SPECIFICATION FairSpec
CONSTANTS
  k1 = k1
  k2 = k2
  v1 = v1
  g1 = g1
  g2 = g2
  Keys = {k1}
  Vals = {v1}
  Threads = {g1, g2}
  Workloads = {{"put", "query", "change", "deleteIndex"}}
  MaxVectors = 2
  MaxPhys = 3
  MaxDeficit = 0
  Faults = {"load", "copy", "drop"}
  None = None
PROPERTIES MaintenanceEnds
CHECK_DEADLOCK FALSE
