----------------------------- MODULE MCRegistry -----------------------------
(* Registry on a small instance.                                           *)
EXTENDS Registry, TLC

(* Clients are interchangeable.                                            *)
ClientSymmetry == Permutations(Clients)
=============================================================================
