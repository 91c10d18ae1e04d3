SPECIFICATION Spec
CONSTANTS
  Wallets = {alice, bob}
  NoWallet = nobody
  Values = {0, 10000, 50001}
  Prices = {0, 10, 60}
  Blocks = {1}
  IsoScores = {50, 100}
  SupScores = {0, 100}
  Threshold = 65
  FlagThreshold = 60
  Busy = 1
  GasWindow = 2
  MaxTxs = 3
INVARIANT
  FlaggedSenderAmplified
CHECK_DEADLOCK FALSE
