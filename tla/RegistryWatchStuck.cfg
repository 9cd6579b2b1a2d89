\* Does every watcher keep its consumer up to date?
CONSTANTS
  MaxVersion = 3
  CanExpire = FALSE
SPECIFICATION FairSpec
PROPERTIES
  ConsumerCatchesUp
CHECK_DEADLOCK FALSE
