\* Clocks that agree, and two attempts.
SPECIFICATION Spec
CONSTANTS
  PerSecond = 2
  Event = {welcome}
  Tolerance = 2
  Skews <- Agreed
  Start = 2
  MaxTime = 4
  MaxAttempts = 2
  welcome = welcome
INVARIANTS
  DeadIsPermanent
CHECK_DEADLOCK FALSE
