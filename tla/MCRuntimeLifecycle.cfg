SPECIFICATION FairRSpec
CONSTANTS
  a = a
  b = b
  Main = Main
  NoService = NoService
  Service <- MCService
  Plan <- MCPlan
  Name = {"A", "B"}
  NameOf <- OwnNames
  Policy <- FailureAndAlways
  Caller = {c1}
  U32Max = 2
  MaxShutdownCalls = 2
INVARIANTS
  FailFast
  QuietAfterStop
PROPERTIES
  RuntimeSupervises
  ShutdownCompletes
CHECK_DEADLOCK FALSE
