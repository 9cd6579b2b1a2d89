CONSTANTS
  m1 = m1
  m2 = m2
  Method = {m1, m2}
  Call = {c1, c2}
  Snapshot <- MCSnapshot
  Deleted = Deleted
  Bad = Bad
  Reloader = {"stream", "hot"}
  NoPolicy = NoPolicy
  MinBudget = 2
  MaxCalls = 2
  Setup <- MCSetup
SPECIFICATION FairSpec
INVARIANTS ChargedUnderOwnPolicy
PROPERTIES PolicyArrives HotApplied
