\* Two writers, a reader and the sweeper race on an instance of each of two
\* services sharing the expiry heap; goroutines that have started run on.
CONSTANTS
  Service = {s1, s2}
  ID = {i1}
  Writer = {w1, w2}
  Reader = {r1}
  TTL = {1}
  MaxTime = 3
  MaxGeneration = 2
  NoRecord = NoRecord
  MaxVersion = 4
  CanExpire = TRUE
SPECIFICATION MCSpec
INVARIANTS
  NoLeaseLeaks
  LiveLeaseVisible
  GhostsOnlyMidSweep
  NoLostWakeup
PROPERTIES
  LeasePromise
  OverdueInstanceUnpublished
  CatchesUpUnlessStuck
