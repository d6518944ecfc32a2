SPECIFICATION Spec
CONSTANTS
  s1 = s1
  s2 = s2
  Sender <- MCSender
  Tx <- MCTx
  MaxPending = 2
  MaxQueued = 2
  BumpPct = 10
  MaxBytes = 12
  MaxGas = 4
  U64Max = 65535
  MaxNonce = 3
INVARIANTS
  TypeOK
  HashIndexExact
  OneEntryPerNonce
  NothingLeftToPromote
  QueuesBounded
  PayloadWithinBlockGas
PROPERTY ImplementsMempool
