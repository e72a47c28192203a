SPECIFICATION Spec
CONSTANTS
    Identities = {i1}
    Groups = {g1, g2}
    LeaseIds = {l1, l2, l3}
    Policies <- ExclusiveAndShared
    Extends = {1, 2}
    Ttl = 1
    Lifetime = 2
    PushDelay = 1
    ProbeMax = 1
    SampleK = 1
    Sticky = TRUE
    Skew = 1
    Horizon = 3
SYMMETRY Perms
INVARIANTS AlExact AvailabilityRestored
CHECK_DEADLOCK FALSE
