SPECIFICATION FairSpec
CONSTANTS
  StreamSessions = {s1}
  AlertSessions = {a1}
  Readers = {s1}
  QueueMax <- QueueSizes
  CatchupMax <- Sizes2
  BufMax <- Sizes2
  MaxTx = 3
INVARIANTS
  TypeOK
  LiveIsFifo
  NoGapAtHandover
  OnlyInFlightTwice
  OnlyBrokenReplayLeaks
PROPERTIES
  ReadersAreServed
CHECK_DEADLOCK FALSE
