SPECIFICATION FairSpec
CONSTANTS
    Identities = {i1}
    Groups = {g1, g2}
    LeaseIds = {l1, l2}
    Policies <- ReusePolicies
    Extends = {1, 2}
    Ttl = 2
    Lifetime = 3
    PushDelay = 1
    ProbeMax = 1
    SampleK = 1
    Sticky = TRUE
    Skew = 0
    Horizon = 5
INVARIANTS Exclusive ReuseOwed
PROPERTY LeaseEnds
CHECK_DEADLOCK FALSE
