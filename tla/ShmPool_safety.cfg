SPECIFICATION Spec
CONSTANTS
    Buffers = {b1, b2}
    Holders = {h1, h2}
    IntMax = 3
    MaxMappings = 3
    MaxNesting = 2
SYMMETRY PoolSymmetry
INVARIANTS HeldStaysMapped BuffersInBounds RefsExact NothingLeaked SigbusContained
CHECK_DEADLOCK FALSE
