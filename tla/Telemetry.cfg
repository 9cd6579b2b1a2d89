SPECIFICATION FairSpec
CONSTANTS
  r1 = r1
  r2 = r2
  r3 = r3
  Call = {r1, r2, r3}
  Record = {r1, r2, r3}
  DialOptions <- MCDialOptions
  QueueSize = 1
  FlushRecords = 2
  SampleEvery = 2
INVARIANTS CountsKept ClosedWithAll
PROPERTIES CountsReported CallsReturn
CHECK_DEADLOCK FALSE
