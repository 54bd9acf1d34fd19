--------------------------- MODULE MCFutureGraph ---------------------------
(***************************************************************************)
(* Instances of FutureGraph for TLC: threads, promises and the futures yet *)
(* to be derived are interchangeable.                                      *)
(***************************************************************************)
EXTENDS FutureGraph, TLC

Symmetry == Permutations(Threads) \union Permutations(Promises) \union Permutations(Derived)
=============================================================================
