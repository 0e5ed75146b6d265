SPECIFICATION FairSpec
CONSTANTS
  Fds = {f1}
  Events = {"read"}
  Masks = {{"read"}}
  Timeouts = {0, 2}
  Builds = {FALSE, TRUE}
  LongWait = 1
  PipeCap = 1
  Never = Never
  MaxRegs = 1
  MaxTimers = 2
  MaxTime = 2
INVARIANT OverdueTimerWakes
PROPERTY LoopResponds
