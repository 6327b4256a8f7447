SPECIFICATION FairSpec
CONSTANTS
  Backend = {1, 2}
  Work <- TwoQueues
  Card = 4
INVARIANTS TypeOK LeavesHoldStored DescentStaysLeft NewLeafIsPrivate PostFindsLevel PagesPosted
PROPERTY InsertsEnd
CHECK_DEADLOCK FALSE
