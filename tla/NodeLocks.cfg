SPECIFICATION FairSpec
CONSTANTS
  Server = {r1, r2}
  EngineCalls <- MCEngineCalls
  ServerCalls <- MCReads
  MaxCalls = 3
INVARIANTS
  NoCircularWait
  InnermostNeverWaits
PROPERTY CallsReturn
