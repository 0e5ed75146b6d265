SPECIFICATION FairSpec
CONSTANTS
  Timeouts = {0, 1, 2}
  MaxTimers = 4
  MaxTime = 2
  ClockSteps = {1}
PROPERTY ImplementsTimerSet
PROPERTY DueTimerFires
INVARIANT HeapOpsAreSetOps
