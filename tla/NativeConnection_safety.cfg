SPECIFICATION Spec
CONSTANTS
    Kinds <- MCNativeKinds
    Objects = {1}
    NewIds = {2, 3}
    Version = 1
    RingSize = 4
    Stale = Stale
    MaxFdsOut = 2
    WordBytes = 4
    MaxMsgs = 2
    MaxSegs = 2
INVARIANTS StreamConserved DescriptorsArrive FdsOwnedOnce
CHECK_DEADLOCK FALSE
