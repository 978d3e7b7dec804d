SPECIFICATION FairSpec
CONSTANTS
  w1 = w1
  w2 = w2
  default = default
  mail = mail
  audit = audit
  NoJob = NoJob
  NoQueue = NoQueue
  Worker = {w1, w2}
  Listed <- MCListed
  Queue = {default, mail, audit}
  Limit = {0, 2}
  MaxJobs = 2
  MayKnow = {{1, 2}, {2}}
  Hanging = {2}
  HandlersPanic = TRUE
  MayShutDown = TRUE
INVARIANTS
  Sound
  HolderUnique
  OutcomePublished
PROPERTIES
  ImplementsLifecycle
  JobsSettle
CHECK_DEADLOCK FALSE
