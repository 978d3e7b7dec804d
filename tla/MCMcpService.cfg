SPECIFICATION MFairSpec
CONSTANTS
  s1 = s1
  n1 = n1
  task = task
  c1 = c1
  NoService = NoService
  Nobody = Nobody
  Service = {s1}
  Server = s1
  Name = {n1}
  NameOf <- MCNameOf
  Policy <- MCPolicy
  U32Max = 3
  Caller = {task, c1}
  Task = task
  PipeSize = 1
  MaxRequests = 3
INVARIANTS
  AnswerIsOwn
  Sound
  DisconnectedIsGone
PROPERTIES
  RequestsEnd
  DeathNoticed
CHECK_DEADLOCK FALSE
