SPECIFICATION FairSpec
CONSTANTS
    Instances = {i1}
    Elsewhere = i0
    Nodes = {n1}
    None = None
    MaxSpins = 1
    MaxVersion = 2
    MaxItems = 2
    MaxPending = 2
    MaxFaults = 1
INVARIANTS NoStaleWait NoLostWake
PROPERTIES WatchPromise Answered
CHECK_DEADLOCK FALSE
