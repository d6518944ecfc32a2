SPECIFICATION FairSpec
CONSTANTS
  a = a
  b = b
  c = c
  Node = {a, b, c}
  SyncPeers <- MCSyncPeers
  ServeSync = {b, c}
  MaxBatch = 2
  MaxHeight = 3
  MaxView = 3
  MaxStarts <- MCMaxStarts
INVARIANT
  StateIsPersistent
CHECK_DEADLOCK FALSE
