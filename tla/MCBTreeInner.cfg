SPECIFICATION Spec
CONSTANTS
  Backend = {1, 2, 3}
  Work <- ThreeQueues
  Card = 4
INVARIANT NewPageIsPrivate
CONSTRAINT Unraced
CHECK_DEADLOCK FALSE
