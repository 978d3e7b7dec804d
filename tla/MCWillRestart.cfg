SPECIFICATION Spec
CONSTANTS
  a = a
  b = b
  NoService = NoService
  Service <- MCService
  Name = {"A", "B"}
  NameOf <- OwnNames
  Policy <- Failures
  U32Max = 3
PROPERTY
  WillRestartHonoured
