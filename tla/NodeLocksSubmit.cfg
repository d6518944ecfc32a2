SPECIFICATION FairSpec
CONSTANTS
  Server = {r1, r2}
  EngineCalls <- MCEngineCalls
  ServerCalls <- MCServerCalls
  MaxCalls = 3
PROPERTY CallsReturn
CHECK_DEADLOCK FALSE
