\* Two transactions of at most two events, one key that both may use.
SPECIFICATION PollSpec
CONSTANTS
  Tx = {t1, t2}
  Key = {k1}
  Item = {good}
  NoCallbacks = {}
  Unserializable = {}
  Rejected = {}
  MaxBatch = 2
  MaxRows = 2
  MaxMint = 3
SYMMETRY Symmetry
INVARIANTS
  PollTypeOK
  DeliveredIsAcked
  SkippedIsOvertaken
  DeliveredInCallOrder
CHECK_DEADLOCK FALSE
