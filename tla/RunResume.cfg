CONSTANTS
  None = None
  TlTests = {"t1", "t2"}  TlRuns0 <- MCTlRuns  TlAsks = 0  TlFaults = 0
  RlRuns0 <- MCRlRuns  RlClasses = {"passed", "failed"}  RlSizes = {1, 2}  RlSize0 = 1  RlAsks = 0  RlFaults = 0
  RpPhases <- MCRpPhases  RpRuns = 2  RpAsks = 0  RpFaults = 0
  RnNotes0 = 1  RnAsks = 0  RnFaults = 0
  SeTests = {"t1", "t2"}  SeEnds <- MCSeEnds  SeRuns0 <- MCSeRuns  SeAsks = 0  SeLoads = 1  SeFaults = 0
SPECIFICATION PagesSpec
CHECK_DEADLOCK FALSE
INVARIANT ResumeSeeded
