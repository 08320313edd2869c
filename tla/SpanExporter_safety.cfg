SPECIFICATION Spec
CONSTANTS
  s1 = s1
  s2 = s2
  s3 = s3
  a1 = a1
  a2 = a2
  f1 = f1
  c1 = c1
  c2 = c2
  Sentinel = Sentinel
  Spans <- MCSpans
  Apps <- MCApps
  Flushes <- MCFlushes
  Closers <- MCClosers
  MaxQueueSize = 2
  BatchSize = 2
  MaxCall = 2
  WritesMayFail = TRUE
SYMMETRY Symmetry
INVARIANTS StoreIsPrefix FlushSound DropsCounted
PROPERTY ImplementsDelivery
CHECK_DEADLOCK FALSE
