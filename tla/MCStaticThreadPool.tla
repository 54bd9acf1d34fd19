------------------------- MODULE MCStaticThreadPool -------------------------
(***************************************************************************)
(* Instances of StaticThreadPool for TLC.  The threads of a kind, the      *)
(* tasks and the external futures are interchangeable.                     *)
(***************************************************************************)
EXTENDS StaticThreadPool

Symmetry ==
    UNION {Permutations(S) : S \in {Workers, Clients, Tasks, External}}
=============================================================================
