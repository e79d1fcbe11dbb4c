SPECIFICATION Spec
CONSTANTS
  b1 = b1
  b2 = b2
  x1 = x1
  x2 = x2
  g1 = g1
  g2 = g2
  BucketNames = {b1, b2}
  IndexNames = {x1, x2}
  PerfBuckets = {b1}
  Threads = {g1, g2}
  Jobs = {"createBucket", "deleteBucket", "createIndex", "deleteIndex"}
  MaxBucketIds = 2
  MaxIndexIds = 2
  MaxBuckets = 2
  MaxCollPerBucket = 1
  PerfBudget = 1
  Faults = {"create", "drop", "store", "crash"}
  NoName = NoName
INVARIANTS TypeOK QuotaOvershootBounded ResolvableHasCollection NoOrphanCollection
PROPERTIES StatusMovesForward OnlyOverlappingLost
SYMMETRY ThreadSymmetry
CHECK_DEADLOCK FALSE
