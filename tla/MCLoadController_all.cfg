SPECIFICATION Spec
CONSTANTS
  c1 = c1
  c2 = c2
  c3 = c3
  c4 = c4
  g1 = g1
  g2 = g2
  Names = {c1, c2}
  PinnedNames = {c1}
  Existing = {c2}
  Threads = {g1, g2}
  Jobs = {"query", "refresh", "create", "migrate", "delete", "sweep"}
  Ests = {1}
  Budget = 2
  MaxLoaded = 1
  Faults = {"load", "release", "drop", "late", "store"}
  NoThread = NoThread
  NoName = NoName
INVARIANTS TypeOK LRUOrdersEntries InFlightNeverOvercounts LocksExact
SYMMETRY ThreadSymmetry
CHECK_DEADLOCK FALSE
