SPECIFICATION FairSpec
CONSTANTS
  p1 = p1
  p2 = p2
  g1 = g1
  g2 = g2
  g3 = g3
  a1 = a1
  a2 = a2
  b1 = b1
  Procs = {p1, p2}
  Threads = {g1, g2, g3}
  ProcOf <- MCProcOf
  Lockers = {a1, a2, b1}
  LockerProc <- MCLockerProc
  NoLocker = NoLocker
  Modes = {"R", "W"}
  Faults = {"open", "meta", "stall", "crash"}
INVARIANTS TypeOK ExclusionUnlessExposed
PROPERTIES ImplementsLeaseLock EntriesUpheld 
CHECK_DEADLOCK FALSE
