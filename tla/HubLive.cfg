CONSTANTS
  MaxEvents = 3
  BufferCap = 3
  SendCap = 3
  MaxConns = 2
  MaxRetries = 1
  MayExpire = FALSE
SPECIFICATION Spec
CHECK_DEADLOCK FALSE
INVARIANTS
  NoGap
PROPERTIES
  SeesTheEnd
