SPECIFICATION FairSpec
CONSTANTS
  t1 = t1  t2 = t2
  k1 = k1  k2 = k2
  good = good  nul = nul
  Tx = {t1, t2}
  Key = {k1, k2}
  Item = {good, nul}
  NoCallbacks = {}
  Unserializable = {}
  Rejected = {nul}
  MaxBatch = 1
  MaxRows = 2
  MaxMint = 0
PROPERTY CallReturns
