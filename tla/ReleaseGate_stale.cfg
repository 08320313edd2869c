SPECIFICATION Spec
CONSTANTS
  None = None
  Tools <- MCTools
  Tokens <- MCTokens
  Paths = {"report", "other"}
  Invocations <- MCInvocations
  MaxInvocations = 2
INVARIANT ErrorPublishesNoDecision
CHECK_DEADLOCK FALSE
