\* Two requests share one connection beside a run of batch-emit of two events.
SPECIFICATION ExamplesSpec
CONSTANTS
  Tx = {r1, r2, b1}
  Emitter = {b1}
  Key = {}
  Item = {email, nul, order}
  Order = order
  NoCallbacks = {}
  Unserializable = {}
  Rejected = {nul}
  PoolSize = 1
  MaxBatch = 2
  MaxRows = 2
  MaxMint = 4
INVARIANTS
  CallersTypeOK
  OkIsPublished
  PublishedIsAccounted
  AllOrNothing
PROPERTY EveryCallerEnds
CHECK_DEADLOCK FALSE
