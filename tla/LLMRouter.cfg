SPECIFICATION FairSpec
CONSTANTS
  r1 = r1
  r2 = r2
  r3 = r3
  Requests <- MCRequests
  MaxAttempts = 3
  Threshold = 2
INVARIANTS MetricsExact CircuitMatchesHistory OpenCircuitSparesPrimary
PROPERTIES RequestsEnd
CHECK_DEADLOCK FALSE
