--------------------------- MODULE MCDisplayNames ---------------------------
(* DisplayNames with two processes that claim two Wayland displays, or two *)
(* X displays with three pids.                                             *)
EXTENDS DisplayNames, TLC

MCSymmetry == Permutations(Procs) \cup Permutations(Pids)

Kernel(flag, fcntl, space) ==
    [flag |-> flag, fcntl |-> fcntl, runtimeDir |-> TRUE, space |-> space]
MCKernels == {Kernel("yes", TRUE, TRUE), Kernel("EINVAL", TRUE, FALSE), Kernel("EINVAL", FALSE, TRUE),
              Kernel("error", TRUE, TRUE)}
=============================================================================
