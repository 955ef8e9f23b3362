SPECIFICATION Spec
CONSTANTS
    Kinds <- MCCreatePool
    Objects = {1}
    NewIds = {2, 3}
    Version = 1
    RingSize = 4
    Stale = Stale
    MaxFdsOut = 2
    WordBytes = 4
    MaxMsgs = 2
    MaxSegs = 2
INVARIANT RequestsAccepted
CHECK_DEADLOCK FALSE
