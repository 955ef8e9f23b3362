SPECIFICATION Spec
CONSTANTS
    Procs = {p1, p2}
    MaxDisplayno = 1
    MaxStarts = 4
    XProcs = {p1, p2}
    Pids = {i1, i2, i3}
    Kernels <- MCKernels
    MaxDisplay = 2
    MaxXStarts = 3
    MaxSpawns = 2
SYMMETRY MCSymmetry
INVARIANTS WaylandNameHeld XDisplayHeld ServerInherits
CHECK_DEADLOCK FALSE
