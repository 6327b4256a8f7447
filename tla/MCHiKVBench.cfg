SPECIFICATION BenchFairSpec
CONSTANTS
  NumServer = 3
  NumBackend = 2
  Key = {1}
  Hash <- OneKeyHash
  NumBucket = 1
  NumSlot = 1
  MaxQueue = 2
  MaxLog = 3
INVARIANTS BenchTypeOK WarmupAlmostIndexed
PROPERTY PollEnds
CHECK_DEADLOCK FALSE
