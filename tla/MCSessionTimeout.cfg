SPECIFICATION FairSpec
CONSTANTS
  Timeout = 2
  Period = 3
INVARIANTS FreedIsQuiet ClosedReleased
PROPERTIES  IdleIsReaped
