SPECIFICATION BRSpec
CONSTANTS
  Steps = {0, 1}
  Recordings <- MCRecordings
  Scripts <- MCScripts
  Debugged <- MCDebugged
  None = None
  Bounds <- MCBounds
INVARIANTS  PassedIsServers 
PROPERTIES Concludes
CHECK_DEADLOCK FALSE
