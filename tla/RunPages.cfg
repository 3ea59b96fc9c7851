CONSTANTS
  None = None
  TlTests = {"t1", "t2"}  TlRuns0 <- MCTlRuns  TlAsks = 2  TlFaults = 1
  RlRuns0 <- MCRlRuns  RlClasses = {"passed", "failed"}  RlSizes = {1, 2}  RlSize0 = 1  RlAsks = 3  RlFaults = 1
  RpPhases <- MCRpPhases  RpRuns = 2  RpAsks = 1  RpFaults = 1
  RnNotes0 = 1  RnAsks = 3  RnFaults = 1
  SeTests = {"t1", "t2"}  SeEnds <- MCSeEnds  SeRuns0 <- MCSeRuns  SeAsks = 2  SeLoads = 2  SeFaults = 1
SPECIFICATION PagesSpec
CHECK_DEADLOCK FALSE
INVARIANTS PagesShowStored
PROPERTIES  RunPagesRespond
