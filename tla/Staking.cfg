SPECIFICATION Spec
CONSTANTS
  a1 = a1
  a2 = a2
  STAKING_ADDR = STAKING_ADDR
  Account <- MCAccount
  Validator = {v1}
  Amount = {1}
  Supply = 1
  Modes = {"block", "call"}
  MaxDepth = 2
  MaxStake = 1
SYMMETRY Interchangeable
INVARIANTS
  TypeOK
  Backed
PROPERTY RefusedChangesNothing
