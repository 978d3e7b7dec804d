SPECIFICATION FairSpec
CONSTANTS
  once = once
  rate = rate
  Schedule = {once, rate}
  MayTrigger <- MCMayTrigger
  NoTrigger = NoTrigger
  Hanging = {once}
  Attempts <- RetryTwice
  Retry <- MCRetry
  IndexBits = 3
  MaxNanos = 100
  JitterUnit = 4
INVARIANTS
  CancelSuppresses
  Sound
PROPERTIES
  Paced
  CancelEnds
  ShutdownEnds
CHECK_DEADLOCK FALSE
