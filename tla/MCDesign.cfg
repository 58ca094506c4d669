SPECIFICATION Spec
CONSTANTS
  Library <- MCLibrary
  Tops <- MCTops
  Globals <- MCGlobals
  InstLevel <- MCInstLevel
  ProcLevel <- MCProcLevel
  DefaultLevel = "prs"
  MonitorExcl = TRUE
  HighFanout = 2
  Window = 2
  Written = {0, 1, 2}
  MaxWrites = 4
  MaxUnknown = 1
  MaxTime = 1
INVARIANTS Wired DriversCounted TimingExact ExclExact
CHECK_DEADLOCK FALSE
