SPECIFICATION FairSpec
CONSTANTS
    Callers = {c1, c2, c3}
    MaxLimit = 2
    MaxWeight = 3
    CfgDepth = 0
    QueueFactor = 1
    MinQueueDepth = 2
    MaxInt = 100
INVARIANTS Conservation NoStrandedCapacity
PROPERTIES EveryWaiterLeaves
