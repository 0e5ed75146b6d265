SPECIFICATION FairSpec
CONSTANTS
  Fds = {f1, f2}
  Events = {"read"}
  Masks = {{}, {"read"}}
  Timeouts = {}
  Builds = {FALSE, TRUE}
  LongWait = 0
  PipeCap = 1
  Never = Never
  MaxRegs = 3
  MaxTimers = 0
  MaxTime = 0
PROPERTY RemovedNeverCalled
PROPERTY ReadyServed
