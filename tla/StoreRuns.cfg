CONSTANTS
  Run = {"r1", "r2"}
  Steps = 2
  MaxConcurrency = 1
  MayCancel = TRUE
  MaxFaults = 1
  MaxCrashes = 1
SPECIFICATION Spec
CHECK_DEADLOCK FALSE
INVARIANTS
  DeletedStaysGone
  TerminalIsComplete
  ReadsAreComplete
  InProgressIsTrue
PROPERTIES
  StatusForward
  RunsSettle
