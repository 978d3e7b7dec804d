SPECIFICATION FairSpec
CONSTANTS
  a = a
  b = b
  NoService = NoService
  Service <- MCService
  Name = {"A", "B"}
  NameOf <- SharedName
  Policy <- FailureAndAlways
  U32Max = 3
INVARIANTS
  WithinBudget
  ExitReported
  NoneForgotten
PROPERTIES
  EventProtocol
  ShutdownEndsWatchers
