SPECIFICATION FairSpec
CONSTANTS
  p1 = p1
  p2 = p2
  w1 = w1
  w2 = w2
  NoJob = NoJob
  Queue = {"mail"}
  QueueOf <- OneQueue
  Configs <- Mail
  Process = {p1, p2}
  Worker = {w1, w2}
  Host <- MCHost
  Limit = {2}
  MaxJobs = 1
  MaxTime = 1
  MaxStops = 1
  MaxErrors = 0
PROPERTY AtLeastOnce
CHECK_DEADLOCK FALSE
