SPECIFICATION FairSpec
CONSTANTS
  N = 2
  WsEndpoints = {0}
  BackoffMax = 4
  Lag = 0
  MaxBlock = 1
  MaxTrouble = 1
  MaxFails = 3
PROPERTIES
  FailsOverOnErrors
CHECK_DEADLOCK FALSE
