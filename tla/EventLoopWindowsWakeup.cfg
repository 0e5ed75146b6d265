SPECIFICATION FairSpec
CONSTANTS
  Fds = {f1}
  Events = {"read"}
  Masks = {{"read"}}
  Timeouts = {}
  Builds = {TRUE}
  LongWait = 1
  PipeCap = 1
  Never = Never
  MaxRegs = 1
  MaxTimers = 0
  MaxTime = 0
PROPERTIES WakeupServed
