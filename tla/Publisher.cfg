SPECIFICATION Spec
CONSTANTS
  t1 = t1  t2 = t2
  k1 = k1  k2 = k2
  good = good  silent = silent  circular = circular  nul = nul
  Tx = {t1, t2}
  Key = {k1, k2}
  Item = {good, silent, circular, nul}
  NoCallbacks = {silent}
  Unserializable = {circular}
  Rejected = {nul}
  MaxBatch = 2
  MaxRows = 2
  MaxMint = 3
SYMMETRY Symmetry
INVARIANTS
  TypeOK
  EventIdUnique
  AckedIsDurable
  NoPhantom
  CommitReportHonest
  DuplicateMeansPublished
  RowsInCallOrder
  InvalidNeverSent
PROPERTIES
  FailedStaysFailed
  ImplementsOutbox
