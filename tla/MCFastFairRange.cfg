SPECIFICATION Spec
CONSTANTS
  Rec = {1, 2, 3, 4, 5}
  KeyOf <- OneWordKeys
  NumWord = 1
  Card = 4
  NumPage = 3
  Bounds <- OneWordBounds
  Preload = {1, 2}
INVARIANT ScanFindsRange
CHECK_DEADLOCK FALSE
