------------------------ MODULE MCConditionVariable ------------------------
(***************************************************************************)
(* Instances of ConditionVariable for TLC: the threads that may die are    *)
(* interchangeable, and so are the others.                                 *)
(***************************************************************************)
EXTENDS ConditionVariable, TLC

Symmetry == Permutations(Mortal) \union Permutations(Threads \ Mortal)
=============================================================================
