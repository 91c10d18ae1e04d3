SPECIFICATION FairSpec
CONSTANTS
  t1 = t1
  t2 = t2
  t3 = t3
  Procs = {p1, p2}
  Txs = {t1, t2, t3}
  Worker = worker
  None = none
  WorkerTxs = {t1}
  AlertId <- MCAlertId
  MaxRetries = 3
  TxBufMax = 1
  AlertBufMax = 1
  MaxInputs = 2
INVARIANTS
  TypeOK
  CountersMatchBuffers
  AnnouncedBeforeStored
  NoAlertSilentlyLost
PROPERTIES
  BroadcastOnlySettled
  LedgerSpec
  EveryTxLeavesPipeline
CHECK_DEADLOCK FALSE
