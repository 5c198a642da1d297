SPECIFICATION FairSpec
CONSTANT Task = {t1, t2, t3}
INVARIANT OneTask
PROPERTIES ImplementsDiagram StopReturns
