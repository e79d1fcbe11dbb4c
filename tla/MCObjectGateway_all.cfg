SPECIFICATION FairSpec
CONSTANTS
  o1 = o1
  o2 = o2
  a = a
  b = b
  g1 = g1
  g2 = g2
  cleaner = cleaner
  Objects = {o1, o2}
  Bodies = {b}
  Stored = a
  Present = o1
  Parts = 2
  MaxUploads = 1
  MaxRequests = 3
  Threads = {g1, g2}
  Cleaner = cleaner
  Workloads = {
    {"put", "copy", "delete", "putDir", "deleteDir"},
    {"complete", "put", "get", "delete"},
    {"newUpload", "part", "complete", "abort"}}
  Faults = {"create", "io", "age", "crash"}
  None = None
INVARIANTS TypeOK ObjectsWhole EtagDescribesContent RepliesMatch AckedPresent
PROPERTIES ComesToRest
CHECK_DEADLOCK FALSE
