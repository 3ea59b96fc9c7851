CONSTANTS
  StepNames = {"a", "b", "c"}
  MaxSteps = 3
  StepLists <- MCStepLists
SPECIFICATION Spec
INVARIANTS
  PlannedOnce
PROPERTIES
  ImplementsPlan
CHECK_DEADLOCK FALSE
