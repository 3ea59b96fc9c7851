CONSTANTS
  k1 = k1
  k2 = k2
  Key <- MCKey
  StepName <- MCStepName
  Manifests <- AllManifests
  Requests <- AllRequests
SPECIFICATION MCSpec
CHECK_DEADLOCK FALSE
INVARIANTS
  StepsAccounted
  StreamMatchesResult
  CountsFit
  
  DependenciesDecided
  FailureBlocks
PROPERTIES
  ImplementsContract
  Terminates
