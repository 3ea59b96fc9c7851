CONSTANTS
  MaxEvents = 3
  BufferCap = 2
  SendCap = 1
  MaxConns = 2
  MaxRetries = 1
  MayExpire = TRUE
SPECIFICATION Spec
CHECK_DEADLOCK FALSE
INVARIANTS
  RepeatsBounded
PROPERTIES
  NeverBlocksRun
