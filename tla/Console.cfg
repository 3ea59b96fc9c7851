CONSTANTS
  None = None
  Schedules = {"s1", "s2"}  SchRows0 <- MCSchRows  SchAsks = 2  SchRestarts = 1
  AltIds = {"r1"}  AltRules0 <- MCAltRules  AltRuns <- MCAltRuns  AltAsks = 2  AltEvents = 3
  GatTests = {"t1", "t2"}  GatAsks = 3  GatBreaks = 1
  ConTests = {"t1", "t2"}  ConCritical = {"t1"}  ConOps = 3  ConServices = {"s1", "s2"}
  ConIncidents = 2  ConThreshold = 67
SPECIFICATION MCSpec
CHECK_DEADLOCK FALSE
INVARIANTS  OneOpenIncident NoFailureMissed 
    ConfidenceHonest
PROPERTIES ConsoleResponds
