SPECIFICATION NodeSpec
CONSTANTS
  s1 = s1
  s2 = s2
  garbage = garbage
  Sender <- MCSender
  Tx <- MCTx
  ForeignBlocks <- MCForeignBlocks
  MaxPending = 2
  MaxQueued = 1
  BumpPct = 10
  MaxBytes = 100
  MaxGas = 3
  U64Max = 65535
  MaxNonce = 3
  MaxHeight = 2
  MaxProposals = 2
INVARIANTS
  NodeTypeOK
  ExecutedOnceInOrder
  ReceiptsFound
  IdlePoolIsFresh
  GapsWereProposed
  ProposalsNeverCut
PROPERTY PoolStepsOnly
CHECK_DEADLOCK FALSE
