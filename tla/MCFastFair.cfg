SPECIFICATION Spec
CONSTANTS
  Rec = {1, 2, 3, 4, 5}
  KeyOf <- TwoWordKeys
  NumWord = 2
  Card = 4
  NumPage = 3
  Bounds <- TwoWordBounds
  Preload = {2}
INVARIANTS TypeOK ScanStaysInPage EndedScanMissesNothing ScanStaysInRange QuietScanIsExact LeavesSorted RepeatsAreBounded
PROPERTY FirstKeyIsFixed
CHECK_DEADLOCK FALSE
