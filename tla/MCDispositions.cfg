SPECIFICATION SpecArchive
CONSTANTS
    Identities = {i1}
    Groups = {g1, g2}
    LeaseIds = {l1, l2}
    Policies <- ExclusiveAndShared
    Extends = {2}
    Ttl = 2
    Lifetime = 3
    PushDelay = 1
    ProbeMax = 1
    SampleK = 1
    Sticky = FALSE
    Skew = 0
    Horizon = 3
    CoolFor = {3}
SYMMETRY Perms
INVARIANTS AlKept ExclusiveKept ListedIffSchedulable WaitBounded
CHECK_DEADLOCK FALSE
