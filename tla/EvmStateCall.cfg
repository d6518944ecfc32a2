SPECIFICATION Spec
CONSTANTS
  n1 = n1
  n2 = n2
  alice = alice
  token = token
  fresh = fresh
  other = other
  Node = {n1, n2}
  Account <- MCAccount
  DefaultCode = "stop"
  Genesis <- MCGenesis
  Blocks <- MCBlocks
  CallTargets = {fresh}
  SetTargets = {}
  SetValue = 5
  HashWindow = 2
  MaxHeight = 3
INVARIANT RootsAgree
