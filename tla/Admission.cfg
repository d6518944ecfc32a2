SPECIFICATION FairAdmissionSpec
CONSTANTS
  s1 = s1
  s2 = s2
  Sender <- MCSender
  Envelope <- MCEnvelope
  Tx <- MCTx
  Balances <- MCBalances
  RpcTx <- MCRpcTx
  MaxPending = 2
  MaxQueued = 1
  BumpPct = 10
  MaxBytes = 100
  MaxGas = 3
  U64Max = 255
  U256Max = 4095
  MaxNonce = 1
  CHAIN_ID = 1
  BaseFee = 10
  CallGas = 1
  CreateGas = 3
  ZeroGas = 1
  NonzeroGas = 4
  MaxHeard = 4
INVARIANTS
  AdmissionTypeOK
  GossipKeepsRules
  PayloadByPrice
PROPERTY PendingLeaves
