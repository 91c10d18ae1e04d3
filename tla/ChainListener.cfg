SPECIFICATION FairSpec
CONSTANTS
  N = 2
  WsEndpoints = {0}
  BackoffMax = 60
  Lag = 1
  MaxBlock = 3
  MaxTrouble = 2
  MaxFails = 7
INVARIANTS
  TypeOK
  NoBlockSkipped
  RepeatsNeedTrouble
  BackoffFollowsErrors
PROPERTIES
  HealthyUnlessPollingDead
CHECK_DEADLOCK FALSE
