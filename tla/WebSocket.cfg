SPECIFICATION FairSpec
CONSTANTS
  Users = {u1, u2}
  Spaces = {1, 3}
  MaxCalls = 2
  MaxLoops = 2
INVARIANT StreamIsFrames
INVARIANT EndIsFinal
PROPERTY CloseEndsLoop
CHECK_DEADLOCK FALSE
