\* One event, of the handler's type or of another, sent at most twice; half-
\* second ticks and a tolerance of one second.
SPECIFICATION Spec
CONSTANTS
  PerSecond = 2
  Event = {welcome}
  Tolerance = 2
  Skews <- ClockSkews
  Start = 2
  MaxTime = 8
  MaxAttempts = 2
  welcome = welcome
INVARIANTS
  TypeOK
  HandledIsSigned
  HandledInTime
  ParsedIsSigned
  DoneIsFinished
CHECK_DEADLOCK FALSE
