SPECIFICATION ClientSpec
CONSTANTS
  Endpoint = {e1, e2}
  Call = {c1, c2, c3}
  Limit = {0, 1}
  Picking = {c1, c2}
  DefaultMax = 2
  NoLimiter = NoLimiter
  Caller = {d1, d2}
  BudgetRatio = 500
  MinBudget = 0
  Window = 2
  MaxTime = 3
  MaxOriginal = 4
  MaxRecorded = 1
SYMMETRY Symmetry
INVARIANTS CountsHolders PressureHeld GrantedWithinBudget RetriesAccounted CountedInCurrentWindow
PROPERTIES AdmittedWithinMax WindowsLast
