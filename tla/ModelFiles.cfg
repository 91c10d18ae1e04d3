SPECIFICATION Spec
CONSTANTS
  Detectors = {api, worker}
  Host = worker
  Trainer = trainer
  MaxRuns = 2
  MaxCrashes = 1
INVARIANTS
  TypeOK
  NoneOlderThanRecorded
  NoReloadMeansCurrent
CHECK_DEADLOCK FALSE
