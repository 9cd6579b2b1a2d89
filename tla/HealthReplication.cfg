SPECIFICATION FairSpec
CONSTANTS
  c1 = c1
  c2 = c2
  g1 = g1
  g2 = g2
  Controller = {c1, c2}
  Goroutine = {g1, g2}
  Deployment <- MCDeployment
  NoHealth = NoHealth
  MaxTime = 2
  MaxFaults = 1
PROPERTIES NewestWins  InactiveForgotten
CHECK_DEADLOCK FALSE
