\* Two orders, and three calls of the handler that ships them.
SPECIFICATION ChainSpec
CONSTANTS
  p1 = p1  h1 = h1  h2 = h2  h3 = h3
  k1 = k1  k2 = k2
  o1 = o1  o2 = o2  alice = alice  cart = cart
  Tx = {p1, h1, h2, h3}
  Emitter = {p1}
  Key = {k1, k2}
  Item <- Rows
  NoCallbacks <- Silent
  Unserializable = {}
  Rejected = {}
  PoolSize = 3
  MaxBatch = 2
  MaxRows = 2
  MaxMint = 2
  Placed = {o1, o2}
  About <- AboutOrders
  Derived <- DerivedIds
  MaxAttempts = 2
SYMMETRY Symmetry
INVARIANTS
  ChainTypeOK
  RowSaysAsTold
  TraceLeadsBack
  FollowedUpOnce
  DoneIsFollowedUp
PROPERTY
  ImplementsFulfilment
CHECK_DEADLOCK FALSE
