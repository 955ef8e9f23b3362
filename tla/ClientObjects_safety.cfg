SPECIFICATION Spec
CONSTANTS
    Resources = {r1, r2, r3, r4, r5}
    NULL = NULL
    MaxEntries = 4
SYMMETRY ResourceSymmetry
INVARIANTS FreeListOK LookupAlive FreedOnce
PROPERTY ImplementsTable
CHECK_DEADLOCK FALSE
