SPECIFICATION FairSpec
CONSTANTS
  s1 = s1
  s2 = s2
  s3 = s3
  a1 = a1
  a2 = a2
  f1 = f1
  c1 = c1
  c2 = c2
  Sentinel = Sentinel
  Spans <- MCSpans
  Flushes <- MCFlushes
  MaxQueueSize = 2
  BatchSize = 2
  MaxCall = 1
  Apps <- OneApp
  Closers <- OneCloser
  WritesMayFail = FALSE
PROPERTIES AcceptedIsPersisted FlushAnswered ShutdownStopsWorker
CHECK_DEADLOCK FALSE
