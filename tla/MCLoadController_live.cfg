SPECIFICATION FairSpec
CONSTANTS
  c1 = c1
  c2 = c2
  c3 = c3
  c4 = c4
  g1 = g1
  g2 = g2
  Names = {c1, c2}
  PinnedNames = {}
  Existing = {c1, c2}
  Threads = {g1, g2}
  Jobs = {"query", "sweep"}
  Ests = {1}
  Budget = 2
  MaxLoaded = 1
  Faults = {"load", "release"}
  NoThread = NoThread
  NoName = NoName
PROPERTIES EveryRequestReturns IdleIsReleased
CHECK_DEADLOCK FALSE
