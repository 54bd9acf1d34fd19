------------------------------ MODULE MCQueue ------------------------------
(***************************************************************************)
(* Queue for TLC.  The stored values are thread ids, which the queue only  *)
(* compares.                                                               *)
(***************************************************************************)
EXTENDS Queue, TLC

Symmetry == Permutations(Items)
=============================================================================
