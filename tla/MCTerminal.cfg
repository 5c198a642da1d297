SPECIFICATION FairSpec
CONSTANTS
  Conn = {c1, c2, c3}
  Max = 1
INVARIANTS StopLeavesNothing NoDangling ListBound PureOnlyUnstopped
PROPERTIES ImplementsPool StopReturns InvalidIsDeleted TimedSincePort
CHECK_DEADLOCK FALSE
