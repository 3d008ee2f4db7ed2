SPECIFICATION FairSpec
CONSTANTS
  a = a
  b = b
  c = c
  ghost = ghost
  Step <- MCStep
  Foreign <- MCForeign
  Submissions <- LivePayloads
  MaxControls = 2
PROPERTIES SagaEnds FailureIsCompensated
CHECK_DEADLOCK FALSE
