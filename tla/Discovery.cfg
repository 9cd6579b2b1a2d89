CONSTANTS
  i1 = i1
  i2 = i2
  Instance = {i1, i2}
  Ejecting = {1}
  maxWatchFailuresBeforePoll = 2
  pollTicksBeforeWatchRetry = 1
  Setup <- MCSetup
SPECIFICATION FairSpec
INVARIANTS NothingMissed OnlyDeletionsHidden
PROPERTIES AddressesCatchUp
CHECK_DEADLOCK FALSE
