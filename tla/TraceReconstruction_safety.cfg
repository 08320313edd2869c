SPECIFICATION Spec
CONSTANTS
  None = None
  Ids <- MCIds
  Names = {"a", "b"}
  Traces <- MCTraces
  MaxDepth = 3
INVARIANTS VisitedOnce StepsMatchSpans ExecutionOrder LinksKept LoopsCounted RejectsOnlyBadTraces
PROPERTIES Progress
CHECK_DEADLOCK FALSE
