SPECIFICATION FairSpec
CONSTANTS
  Analysts = {a1, a2}
  Txs = {t1, t2}
  Threshold = 1
  MaxRequests = 3
  MaxTrouble = 1
INVARIANTS
  TypeOK
  UsedMeansTrained
PROPERTIES
  MarkedWithVersion
  RetrainedEventually
CHECK_DEADLOCK FALSE
