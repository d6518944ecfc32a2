SPECIFICATION Spec
CONSTANTS
  a1 = a1
  a2 = a2
  STAKING_ADDR = STAKING_ADDR
  Account <- MCAccount
  Validator = {v1}
  Amount = {1}
  Supply = 1
  Modes = {"block"}
  MaxDepth = 2
  MaxStake = 2
SYMMETRY Interchangeable
PROPERTY RevertRollsBack
