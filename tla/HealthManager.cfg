SPECIFICATION Spec
CONSTANTS
  Service = {s1}
  ID = {i1}
  Reporter = {c1, c2}
  Base <- MCBase
  Overrides <- MCOverrides
  Score = {0, 2, 3}
  Rate = {1}
  TickPeriod = 1
  MaxRows = 2
  MaxTime = 3
  MaxEpoch = 2
  MaxInputs = 2
  MaxReconfigs = 1
  Shared <- MCShared
  NoHealth = NoHealth
INVARIANTS NoInheritedBlame NoTransitionOwed
PROPERTIES VersionAnnouncesView EjectionsEnd
SYMMETRY Reporters
CHECK_DEADLOCK FALSE
