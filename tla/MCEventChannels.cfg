SPECIFICATION FairSpec
CONSTANTS
  p1 = p1
  p2 = p2
  r1 = r1
  r2 = r2
  NoChannel = NoChannel
  Sender = {p1, p2}
  Receiver = {r1, r2}
  Capacity = 2
  MaxCalls = 4
INVARIANTS
  Sound
  ExactlyOnce
  ClosedIsDrained
PROPERTIES
  ProducerWakes
CHECK_DEADLOCK FALSE
