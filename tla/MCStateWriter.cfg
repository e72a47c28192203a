SPECIFICATION FairSpec
CONSTANTS
  Workers = {w1, w2}
  Changes = {l1, l2, e1}
  Lifecycle = {l1, l2}
  Rejected = {e1}
  Late = {l2}
  Unresolved = {l1}
  NoChange = NoChange
  Capacity = 2
  BatchSize = 2
  MaxAttempts = 2
  MaxCalls = 3
  MaxFaults = 2
INVARIANTS Accounted DropsJustified StoredOnce OrderKept
PROPERTIES WaitEnds Settled
CHECK_DEADLOCK FALSE
