SPECIFICATION MCSpec
CONSTANTS
  t1 = t1  t2 = t2  t3 = t3
  a = a  b = b  n = n
  Tests = {t1, t2, t3}
  Names = {a, b, n}
  NewName = n
  Stored0 <- MCStored
  Typed <- MCTyped
  Answers <- MCAnswers
  Links <- MCLinks
  Unusable = Unusable
  None = None
  MaxNodes = 3
  MaxEdits = 2
  MaxAsked = 2
  CatGrpc = {"g", "k"}
  CatRest = {"r"}
  CatTargets = {"h", "i"}
  CatOps = {"o", "p"}
  CatRows0 <- MCRows
  CatHosts0 <- MCHosts
  CatOffers <- MCOffers
  CatAsks = 4
  CatFaults = 1
INVARIANTS NodeIdsUnique  SavedKeepsOrder  CatAnswersLand
CHECK_DEADLOCK FALSE
