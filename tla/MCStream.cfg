SPECIFICATION FairSpec
CONSTANTS
  Bytes = 6
  MsgLen = 3
  Window = 3
  BackWindow = 1
  RecvLen = 2
  Result <- AnyResult
  SizeMax = 256
INVARIANTS NoGap InBuffer Framed
PROPERTIES ImplementsEcho SendReturns EchoArrives GoneIsNoticed
CHECK_DEADLOCK FALSE
