SPECIFICATION FairServiceSpec
CONSTANTS
  MaxSockets = 3
  MaxMounts = 3
  CapAttempts = 1
INVARIANTS
  ServiceTypeOK
  OneSocketButLate
  DisconnectFinalButLate
PROPERTIES
  KeepsTrying
CHECK_DEADLOCK FALSE
