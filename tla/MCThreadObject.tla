--------------------------- MODULE MCThreadObject ---------------------------
(* Instances of ThreadObject for TLC.                                      *)
EXTENDS ThreadObject, TLC

Symmetry == Permutations(Threads)
=============================================================================
