SPECIFICATION FairSpec
CONSTANTS
  Sender = {s1, s2}
  Req = {r1, r2}
  Id = {1}
  Timeouts <- AnyTimeout
INVARIANT LeavesNothing
PROPERTIES SendReturns CloseReleases
CHECK_DEADLOCK FALSE
