SPECIFICATION Spec
CONSTANTS
  c1 = c1
  c2 = c2
  c3 = c3
  c4 = c4
  g1 = g1
  g2 = g2
  Names = {c1, c2, c3, c4}
  PinnedNames = {c1}
  Existing = {c2, c3, c4}
  Threads = {g1, g2}
  Jobs = {"query", "create"}
  Ests = {1, 2}
  Budget = 3
  MaxLoaded = 2
  Faults = {"load", "release"}
  NoThread = NoThread
  NoName = NoName
INVARIANTS LimitsOvershootBounded CacheMirrorsMilvus
PROPERTIES EntryNotReplaced
SYMMETRY ThreadSymmetry
CHECK_DEADLOCK FALSE
