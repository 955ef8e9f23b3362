SPECIFICATION Spec
CONSTANTS
    Clients = {c1, c2}
    MaxGlobals = 2
    MaxRequests = 2
    MaxDestroys = 2
    Timely = TRUE
SYMMETRY ClientSymmetry
INVARIANTS BindFindsGlobal ViewExact
CHECK_DEADLOCK FALSE
