CONSTANTS
    Workers = {w1, w2}
    Reports = {r1, r2}
    Gone = {r2}
    Bad = {}
    BatchSize = 2
    None = None
    MaxEntries = 2
    MaxFaults = 1
SPECIFICATION FairSpec
PROPERTY EveryReportHandled
