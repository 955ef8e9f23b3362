-------------------------- MODULE MCClientObjects ---------------------------
(* ClientObjects on a small instance.                                      *)
EXTENDS ClientObjects, TLC

(* Resources are interchangeable.                                          *)
ResourceSymmetry == Permutations(Resources)
=============================================================================
