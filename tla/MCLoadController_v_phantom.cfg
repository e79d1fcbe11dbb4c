SPECIFICATION Spec
CONSTANTS
  c1 = c1
  c2 = c2
  c3 = c3
  c4 = c4
  g1 = g1
  g2 = g2
  Names = {c1}
  PinnedNames = {c1}
  Existing = {}
  Threads = {g1, g2}
  Jobs = {"create", "refresh"}
  Ests = {1}
  Budget = 1
  MaxLoaded = 1
  Faults = {}
  NoThread = NoThread
  NoName = NoName
INVARIANTS QuiescentAgreement
SYMMETRY ThreadSymmetry
CHECK_DEADLOCK FALSE
