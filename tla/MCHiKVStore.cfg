SPECIFICATION FairSpec
CONSTANTS
  NumServer = 1
  NumBackend = 1
  Key = {1, 2, 3, 4}
  Hash <- CollidingHash
  NumBucket = 2
  NumSlot = 2
  MaxQueue = 2
  MaxLog = 5
INVARIANTS TypeOK TableMatchesLog FirstPutWins PipelineInOrder QueueBounded
PROPERTIES SearchIsStable ImplementsStore PutReturns AckedBecomesScannable ImplementsFairStore
CHECK_DEADLOCK FALSE
