SPECIFICATION Spec
CONSTANTS
  None = None
  Tools <- MCTools
  Tokens <- MCTokens
  Paths = {"report", "other"}
  Invocations <- MCInvocations
  MaxInvocations = 2
INVARIANTS SuccessMeansClean SuccessFollowsExpected SuccessPublishesOwn
CHECK_DEADLOCK FALSE
