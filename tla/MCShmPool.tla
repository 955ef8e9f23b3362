----------------------------- MODULE MCShmPool ------------------------------
(* ShmPool on a small instance: three-bit ints, two buffers, two holders.  *)
EXTENDS ShmPool, TLC

(* Buffers are interchangeable, and so are holders.                        *)
PoolSymmetry == Permutations(Buffers) \cup Permutations(Holders)
=============================================================================
