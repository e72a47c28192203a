SPECIFICATION FairSpec
CONSTANTS
  Instances = {i1}
  Peer = Peer
  Callers = {c1}
  Remote = {r1}
  QueueSize = 1
  MaxVersion = 3
  MaxSyncs = 1
  MaxFaults = 1
  Pruners = {i1}
  OtherDrops = FALSE
  Full = Full
INVARIANTS ReadYourWrites
PROPERTIES EventsSuffice Converges
CHECK_DEADLOCK FALSE
