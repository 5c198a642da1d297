SPECIFICATION FairSpec
CONSTANTS
  Terminal = {t1, t2}
  Port = {p1, p2}
  Server = {s1, s2, s3}
  Fd = {f1, f2}
  Sharing = FALSE
INVARIANTS Serving Stopped NoLeak
PROPERTIES ImplementsService StopReturns
