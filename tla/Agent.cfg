CONSTANTS
  Thread = {t1, t2}
  Softirq = Softirq
  None = None
  Endpoint <- MCEndpoint
  ByteValues = 2
  MaxStarts = 1
  RingSize = 1
  Load <- MCLoad
  eventBufferSize = 1
SPECIFICATION FairSpec
INVARIANTS ConnectsPaired SignalsKept
PROPERTIES AgentStops
CHECK_DEADLOCK FALSE
