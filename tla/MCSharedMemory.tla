--------------------------- MODULE MCSharedMemory ---------------------------
(***************************************************************************)
(* Three objects for TLC, and as many blocks as they can refer to besides  *)
(* the one with the name.                                                  *)
(***************************************************************************)
EXTENDS SharedMemory, TLC

Symmetry == Permutations(Objects) \union Permutations(Blocks)
=============================================================================
