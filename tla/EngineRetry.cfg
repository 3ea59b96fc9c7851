CONSTANTS
  k1 = k1
  k2 = k2
  Key <- MCKey
  StepName <- MCStepName
  Manifests <- RetryManifests
  Requests <- FreshRequests
SPECIFICATION Spec
CHECK_DEADLOCK FALSE
INVARIANT RetryRecovers
