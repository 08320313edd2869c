SPECIFICATION Spec
CONSTANTS
  None = None
  Runs <- MCRuns
  Ticks = {0, 1}
  StepBack = 9
  RecursionLimit = 25
  MaxDepth = 3
INVARIANTS TypeOK TrajectoryFaithful DecisionsRight
