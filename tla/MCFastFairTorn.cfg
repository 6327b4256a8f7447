SPECIFICATION Spec
CONSTANTS
  Rec = {1, 2, 3}
  KeyOf <- LikeKeys
  NumWord = 2
  Card = 4
  NumPage = 2
  Bounds <- LikeBounds
  Preload = {1}
INVARIANT ScanReturnsRange
CHECK_DEADLOCK FALSE
