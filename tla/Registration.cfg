SPECIFICATION FairSpec
CONSTANTS
  Client = {c1, c2}
  Lease <- MCLease
  Epoch <- MCEpoch
  NoKey = NoKey
  MaxFaults = 1
INVARIANTS CleanupKeepsKey NoLeaseLost
PROPERTIES OwnedByRegistering RegistrationRecovers
CHECK_DEADLOCK FALSE
