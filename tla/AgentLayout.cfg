CONSTANTS
  Thread = {t1, t2}
  Softirq = Softirq
  None = None
  Endpoint <- MCEndpoint
  ByteValues = 2
  MaxStarts = 1
  RingSize = 1
  Load <- MCLoad
  eventBufferSize = 1
SPECIFICATION Spec
INVARIANT LatencyDecoded
CHECK_DEADLOCK FALSE
