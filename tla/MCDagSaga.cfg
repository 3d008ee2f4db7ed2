SPECIFICATION Spec
CONSTANTS
  a = a
  b = b
  c = c
  ghost = ghost
  Step <- MCStep
  Foreign <- MCForeign
  Submissions <- AllPayloads
  MaxControls = 2
INVARIANTS TypeOK DependencyOrder OutcomeIsTrue EffectsMatchSteps
PROPERTIES NoLateStart ImplementsTransaction
CHECK_DEADLOCK FALSE
