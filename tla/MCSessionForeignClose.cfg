SPECIFICATION Spec
CONSTANTS
  Timeout <- NoTimeout
  Period = 3
PROPERTY ClosesOwn
