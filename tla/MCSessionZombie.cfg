SPECIFICATION Spec
CONSTANTS
  Timeout = 2
  Period = 3
INVARIANT NoZombie
