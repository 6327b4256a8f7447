SPECIFICATION Spec
CONSTANTS
  NumServer = 1
  NumBackend = 1
  Key = {1, 2}
  Hash <- DistinctHash
  NumBucket = 1
  NumSlot = 1
  MaxQueue = 2
  MaxLog = 3
INVARIANT FailedPutLeavesNothing
CHECK_DEADLOCK FALSE
