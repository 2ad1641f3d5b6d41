\* Two transactions of one event each.
SPECIFICATION PollSpec
CONSTANTS
  Tx = {t1, t2}
  Key = {k1}
  Item = {good}
  NoCallbacks = {}
  Unserializable = {}
  Rejected = {}
  MaxBatch = 0
  MaxRows = 1
  MaxMint = 2
SYMMETRY Symmetry
INVARIANTS
  NoRowSkipped
CHECK_DEADLOCK FALSE
