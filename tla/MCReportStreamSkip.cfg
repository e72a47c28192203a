CONSTANTS
    Workers = {w1}
    Reports = {r1, r2}
    Gone = {}
    Bad = {}
    BatchSize = 2
    None = None
    MaxEntries = 2
    MaxFaults = 2
SPECIFICATION Spec
INVARIANT SkippedWasApplied
