SPECIFICATION Spec
CONSTANTS
  t1 = t1
  k1 = k1
  good = good
  Tx = {t1}
  Key = {k1}
  Item = {good}
  NoCallbacks = {}
  Unserializable = {}
  Rejected = {}
  MaxBatch = 1
  MaxRows = 2
  MaxMint = 1
INVARIANT DuplicateIsInOutbox
