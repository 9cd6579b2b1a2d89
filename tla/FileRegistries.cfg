CONSTANTS
  Id = {i1, i2}
  Caller = {c1, c2}
  Sweeper = Sweeper
  None = None
  TTL = {1}
  CompactRecords = 2
  MaxTime = 1
  MaxOps = 3
  MaxCrashes = 2
SYMMETRY Symmetry
SPECIFICATION BackendsSpec
PROPERTIES RecoversExactly JSONRecovers
