SPECIFICATION Spec
CONSTANTS
  NumServer = 1
  NumBackend = 1
  Key = {1, 2}
  Hash <- DistinctHash
  NumBucket = 2
  NumSlot = 2
  MaxQueue = 2
  MaxLog = 3
INVARIANT PutIsFound
CHECK_DEADLOCK FALSE
