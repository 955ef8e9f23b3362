SPECIFICATION TimersSpec
CONSTANTS
    Timers = {t1, t2, t3, t4, t5, t6}
    MinSpace = 1
    MaxTime = 3
SYMMETRY TimerSymmetry
INVARIANTS HeapOK RoomForAll TimerfdCovers DispatchExact
CHECK_DEADLOCK FALSE
