SPECIFICATION Spec
CONSTANTS
  NumThreads = 2
  Clients = {c1}
  Tasks = {t1, t2, t3}
  NoTask = NoTask
  CanFail = {"alloc","create","lock","unlock","wait","signal","broadcast"}
  JoinTimesOut = FALSE
  SemaphoreCond = TRUE
  MaxSpurious = 1
INVARIANT FifoExactlyOnce
INVARIANT DrainedBeforeRelease
INVARIANT NoUseAfterRelease
CHECK_DEADLOCK FALSE
