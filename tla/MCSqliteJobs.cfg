SPECIFICATION FairSpec
CONSTANTS
  p1 = p1
  p2 = p2
  w1 = w1
  w2 = w2
  NoJob = NoJob
  Queue = {"mail", "reports"}
  QueueOf <- MCQueueOf
  Configs <- MCConfigs
  Process = {p1, p2}
  Worker = {w1, w2}
  Host <- MCHost
  Limit = {2}
  MaxJobs = 2
  MaxTime = 1
  MaxStops = 2
  MaxErrors = 1
INVARIANTS
  Sound
  StuckOnlyByFault
PROPERTIES
  ImplementsLifecycle
  RowsSettle
CHECK_DEADLOCK FALSE
