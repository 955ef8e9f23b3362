SPECIFICATION FairSpec
CONSTANTS
    Ids = {1, 2}
    DisplayId = 1
    Calls = {c1, c2}
    NoCall = NoCall
    MaxBatch = 1
    MaxWire = 3
    MaxSend = 3
    MaxClose = 2
    FlushMayThrow = TRUE
INVARIANTS OneLoop FlushContiguous NoneOutlivesClose
PROPERTIES DispatchInOrder LoopKept EveryBufferRead
CHECK_DEADLOCK FALSE
