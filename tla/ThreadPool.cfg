SPECIFICATION FairSpec
CONSTANTS
  NumThreads = 2
  Clients = {c1}
  Tasks = {t1, t2, t3}
  NoTask = NoTask
  CanFail = {"create", "alloc"}
  JoinTimesOut = FALSE
  SemaphoreCond = TRUE
  MaxSpurious = 1
INVARIANT PushSound
PROPERTY ImplementsFairService
PROPERTY TeardownReturns
