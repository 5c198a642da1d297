SPECIFICATION FairSpec
CONSTANTS
  Timeout <- NoTimeout
  Period = 3
INVARIANT NoZombie
PROPERTIES ClosedIsReaped DeleteReturns
