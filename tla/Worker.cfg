SPECIFICATION FairSpec
CONSTANTS
  Txs = {t1, t2}
  Rules = {r1, r2}
  QueueMax = 1
  MaxMessages = 3
  MaxToggles = 1
  MaxTrouble = 1
INVARIANTS
  TypeOK
  AlertedIsStored
PROPERTIES
  TopicSpec
  KeepsConsuming
CHECK_DEADLOCK FALSE
