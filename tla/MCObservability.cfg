SPECIFICATION Spec
CONSTANTS
    http = http
    obs = obs
    worker = worker
    Service <- MCService
    Plan <- MCPlan
    Policy <- MCPolicy
    U32Max = 3
    Recorder = obs
    TaskType = {"TaskFired"}
    Untracked = Untracked
    Capacity = 2
    MaxPublished = 3
INVARIANTS
  NoFalseAlarm
  Tally
CHECK_DEADLOCK FALSE
