SPECIFICATION ReadsSpec
CONSTANTS
  s1 = s1
  s2 = s2
  Sender <- MCSender
  Tx <- MCTx
  ForeignBlocks <- MCForeignBlocks
  LogsOf <- MCLogsOf
  Filter <- MCFilter
  MaxPending = 2
  MaxQueued = 1
  BumpPct = 10
  MaxBytes = 100
  MaxGas = 2
  U64Max = 65535
  MaxNonce = 3
  MaxHeight = 3
  MaxProposals = 1
INVARIANTS
  ReadsTypeOK
  QueryNotStale
  LogsComplete
CHECK_DEADLOCK FALSE
