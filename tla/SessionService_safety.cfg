SPECIFICATION Spec
CONSTANTS
  r1 = r1
  r2 = r2
  r3 = r3
  p1 = p1
  p2 = p2
  None = None
  Requests <- ThreeRequests
  Pods <- TwoPods
  Chosen = {s1}
  MaxCrashes = 1
SYMMETRY Symmetry
INVARIANTS NoRediagnosis ResponsesConsistent ResumeCountBounds EventAccounting
CHECK_DEADLOCK FALSE
