CONSTANTS
    Workers = {w1, w2}
    Reports = {r1, r2, r3}
    Gone = {r2}
    Bad = {r3}
    BatchSize = 2
    None = None
    MaxEntries = 3
    MaxFaults = 2
SPECIFICATION Spec
SYMMETRY Perms
INVARIANTS EffectsOnce NothingSkipped TrimmedWasAcked OverlapNeedsStall ReleasedWhenAcked CountedOnce
