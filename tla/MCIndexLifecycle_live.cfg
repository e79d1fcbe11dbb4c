SPECIFICATION FairSpec
CONSTANTS
  b1 = b1
  b2 = b2
  x1 = x1
  x2 = x2
  g1 = g1
  g2 = g2
  BucketNames = {b1}
  IndexNames = {x1, x2}
  PerfBuckets = {b1}
  Threads = {g1, g2}
  Jobs = {"createBucket", "deleteBucket", "createIndex", "deleteIndex"}
  MaxBucketIds = 1
  MaxIndexIds = 3
  MaxBuckets = 1
  MaxCollPerBucket = 1
  PerfBudget = 1
  Faults = {"create", "late", "ignored"}
  NoName = NoName
INVARIANTS RowsAttended
PROPERTIES PassageEnds
CHECK_DEADLOCK FALSE
