-------------------------- MODULE RobustMutexWin32 --------------------------
(***************************************************************************)
(* azul::ipc::sync::RobustMutex on Windows                                 *)
(* (src/ipc/win32/RobustMutex.cpp): a named kernel mutex, which is         *)
(* recursive, and a field that the threads of a process read and write     *)
(* without any lock to refuse recursive calls.  Every access of the field  *)
(* and every call of the kernel is a step.  A call that throws without a   *)
(* change is no step: a lock that finds its own thread in the field, and   *)
(* an unlock by a thread that does not own the kernel mutex.               *)
(***************************************************************************)
EXTENDS Naturals

CONSTANTS
    Threads,    \* the threads of all processes
    Processes,
    ProcessOf,  \* the process of each thread
    Mortal,     \* the processes that may die
    None        \* no thread

VARIABLES
    owner,      \* the thread that owns the kernel mutex
    depth,      \* how many times it has locked it
    abandoned,  \* TRUE if the last owner died with it
    current,    \* _currentLockingThread of each process
    pc,         \* where each thread is
    wiped       \* history: a thread has erased another one from current

vars == <<owner, depth, abandoned, current, pc, wiped>>

Locations == {"idle", "locking", "trying", "acquired", "critical", "unlocking", "dead"}

Init ==
    /\ owner = None
    /\ depth = 0
    /\ abandoned = FALSE
    /\ current = [p \in Processes |-> None]
    /\ pc = [t \in Threads |-> "idle"]
    /\ wiped = FALSE

Goto(t, l) == pc' = [pc EXCEPT ![t] = l]

\* Where a thread is when it is in no call.
Home(t) == IF owner = t THEN "critical" ELSE "idle"

-----------------------------------------------------------------------------
(* lock and try_lock                                                       *)

\* The check for a recursive call.
BeginLock(t) ==
    /\ pc[t] \in {"idle", "critical"} /\ current[ProcessOf[t]] # t
    /\ \E l \in {"locking", "trying"} : Goto(t, l)
    /\ UNCHANGED <<owner, depth, abandoned, current, wiped>>


\* WaitForSingleObject: WAIT_OBJECT_0, or WAIT_ABANDONED after a death.
Acquire(t) ==
    /\ pc[t] \in {"locking", "trying"} /\ owner \in {None, t}
    /\ owner' = t
    /\ depth' = depth + 1
    /\ abandoned' = FALSE
    /\ Goto(t, "acquired")
    /\ UNCHANGED <<current, wiped>>

\* try_lock returns false.
TryLockFails(t) ==
    /\ pc[t] = "trying" /\ owner \notin {None, t}
    /\ Goto(t, Home(t))
    /\ UNCHANGED <<owner, depth, abandoned, current, wiped>>

WriteCurrent(t) ==
    /\ pc[t] = "acquired"
    /\ current' = [current EXCEPT ![ProcessOf[t]] = t]
    /\ Goto(t, "critical")
    /\ UNCHANGED <<owner, depth, abandoned, wiped>>

-----------------------------------------------------------------------------
(* unlock                                                                  *)

\* ReleaseMutex.
Release(t) ==
    /\ pc[t] = "critical" /\ owner = t
    /\ depth' = depth - 1
    /\ owner' = IF depth = 1 THEN None ELSE t
    /\ Goto(t, "unlocking")
    /\ UNCHANGED <<abandoned, current, wiped>>

\* Fault: the field keeps the thread.
ClearCurrentNever(t) ==
    /\ pc[t] = "unlocking"
    /\ Goto(t, Home(t))
    /\ UNCHANGED <<owner, depth, abandoned, current, wiped>>

\* The field is cleared after the mutex is free, whoever is in it by then.
ClearCurrent(t) ==
    /\ pc[t] = "unlocking"
    /\ current' = [current EXCEPT ![ProcessOf[t]] = None]
    /\ wiped' = (wiped \/ current[ProcessOf[t]] \notin {None, t})
    /\ Goto(t, Home(t))
    /\ UNCHANGED <<owner, depth, abandoned>>

-----------------------------------------------------------------------------
\* The kernel takes the mutex from a process that is gone and marks it.
Die(p) ==
    /\ p \in Mortal
    /\ \E t \in Threads : ProcessOf[t] = p /\ pc[t] # "dead"
    /\ pc' = [t \in Threads |-> IF ProcessOf[t] = p THEN "dead" ELSE pc[t]]
    /\ current' = [current EXCEPT ![p] = None]
    /\ IF owner \in Threads /\ ProcessOf[owner] = p
         THEN owner' = None /\ depth' = 0 /\ abandoned' = TRUE
         ELSE UNCHANGED <<owner, depth, abandoned>>
    /\ UNCHANGED wiped

Step(t) ==
    \/ BeginLock(t) \/ Acquire(t) \/ TryLockFails(t) \/ WriteCurrent(t)
    \/ Release(t) \/ ClearCurrent(t)

Next ==
    \/ \E t \in Threads : Step(t)
    \/ \E p \in Processes : Die(p)

Spec == Init /\ [][Next]_vars

-----------------------------------------------------------------------------
(* Properties                                                              *)

\* The kernel mutex, the fields and the program counters stay well formed.
TypeOK ==
    /\ owner \in Threads \union {None}
    /\ depth \in Nat /\ (depth = 0 <=> owner = None)
    /\ abandoned \in BOOLEAN
    /\ current \in [Processes -> Threads \union {None}]
    /\ pc \in [Threads -> Locations]
    /\ wiped \in BOOLEAN

\* A thread is refused as a recursive caller only if it has the mutex: its id does not
\* survive its own unlock, in whatever order the threads of the process write the
\* field (lines 33-36, 41, 53-57, 67 and 81).
RefusedOnlyOwner ==
    \A t \in Threads : current[ProcessOf[t]] = t => owner = t \/ pc[t] = "unlocking"

\* A recursive lock gets through only after another thread, late in its unlock, has
\* erased the owner from the field (line 81 after line 76).
RecursionRefused == depth > 1 => wiped
=============================================================================
