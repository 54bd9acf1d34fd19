---------------------------- MODULE MCRobustMutex ----------------------------
(***************************************************************************)
(* Three threads for TLC: two in a process that survives and one in a      *)
(* process that may die.                                                   *)
(***************************************************************************)
EXTENDS RobustMutex

CONSTANTS t1, t2, t3, p1, p2

MCThreads == {t1, t2, t3}
MCProcessOf == [t \in MCThreads |-> IF t = t3 THEN p2 ELSE p1]
=============================================================================
