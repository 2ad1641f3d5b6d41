\* A tolerance of half a second, and a receiver whose clock is half a second
\* behind.
SPECIFICATION Spec
CONSTANTS
  PerSecond = 2
  Event = {welcome}
  Tolerance = 1
  Skews <- Behind
  Start = 2
  MaxTime = 4
  MaxAttempts = 2
  welcome = welcome
INVARIANTS
  RejectedIsOutside
CHECK_DEADLOCK FALSE
