SPECIFICATION FairSpec
CONSTANTS
    Probes = {p1, p2}
    ProbeLimit = 1
    ProbeWindow = 2
    OpenFor = 2
    MaxOpen = 3
    ResetAfter = 4
    CloseMin = 1
    CloseNum = 1
    CloseDen = 2
    MinRequests = 1
    Bucket = 2
    Buckets = 2
    ActiveWindow = 2
    Durations = {0, 2}
    Policies = {TRUE, FALSE}
    Skew = 1
    Busy = 4
    Horizon = 8
    MaxSamples = 2
    MaxVersion = 2
INVARIANT ProbesWithinLimit
INVARIANT HistoryUnbroken
PROPERTY NotRetrippedByOldReports
PROPERTY OpenEnds
PROPERTY LazyReported
CHECK_DEADLOCK FALSE
