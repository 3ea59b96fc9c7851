SPECIFICATION BRSpec
CONSTANTS
  Steps = {0, 1}
  Recordings <- MCRecordings
  Scripts <- MCScripts
  Debugged <- MCDebugged
  None = None
  Bounds <- MCTwoLive
INVARIANTS LiveShowsRun
CHECK_DEADLOCK FALSE
