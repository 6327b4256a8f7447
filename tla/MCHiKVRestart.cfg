SPECIFICATION RestartSpec
CONSTANTS
  NumServer = 2
  NumBackend = 1
  Key = {1, 2}
  Hash <- DistinctHash
  NumBucket = 2
  NumSlot = 1
  MaxQueue = 1
  MaxLog = 2
  Torn = 0
  MaxStart = 4
INVARIANTS RestartTypeOK SavedIsDurable SlotsSurviveCrash ScansResumeAccepted SessionInOrder
PROPERTY SessionIsAtomic
CHECK_DEADLOCK FALSE
