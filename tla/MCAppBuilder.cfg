SPECIFICATION ASpec
CONSTANTS
    None = None
    DefaultName = "default"
    Name = {"default", "openai", "ollama", "own"}
    Contract <- MCContract
    Plugin <- MCPlugin
    OwnService <- MCOwnService
    OwnCapability <- MCOwnCapability
    OwnResource <- MCOwnResource
    Caller = {t1, t2}
    CounterSize = 16
    MaxPlugins = 3
    MaxOwn = 1
    MaxLookups = 6
    AppMethod = {"GET", "POST"}
    RouteSpec <- MCRouteSpec
    Path <- MCPath
    DocPath <- MCDocPath
    MaxCalls = 3
INVARIANTS
  ServicesResolve
  Balanced
  DocumentedIsRouted
CHECK_DEADLOCK FALSE
