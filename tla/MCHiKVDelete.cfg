SPECIFICATION BenchSpec
CONSTANTS
  NumServer = 1
  NumBackend = 1
  Key = {1}
  Hash <- OneKeyHash
  NumBucket = 1
  NumSlot = 1
  MaxQueue = 2
  MaxLog = 2
INVARIANT DeletedOnlyWhenDrained
CHECK_DEADLOCK FALSE
