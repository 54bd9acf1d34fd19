-------------------------- MODULE RobustMutexDarwin --------------------------
(***************************************************************************)
(* azul::ipc::sync::RobustMutex on macOS (src/ipc/darwin/RobustMutex.cpp): *)
(* a pthread mutex for the threads of one process, then flock on a file    *)
(* for the processes.  Taking and giving up each of the two is a step.  A  *)
(* call that throws or returns false without a change is no step: the lock *)
(* of a thread that has the pthread mutex (EDEADLK), try_lock while        *)
(* somebody has it (EBUSY).                                                *)
(***************************************************************************)
CONSTANTS
    Threads,    \* the threads of all processes
    Processes,
    ProcessOf,  \* the process of each thread
    Mortal,     \* the processes that may die
    None        \* no thread and no process

ASSUME ThreadsAssumption ==
    /\ ProcessOf \in [Threads -> Processes]
    /\ None \notin Threads /\ None \notin Processes

VARIABLES
    local,      \* the owner of the pthread mutex of each process
    file,       \* the process that has the lock of the file
    pc,         \* where each thread is
    \* history: threads whose lock or try_lock failed half-way, and whether a thread
    \* without the mutex has taken the file from its own process
    leaked, intruded

vars == <<local, file, pc, leaked, intruded>>

Locations == {"idle", "locking", "critical", "unlocking", "dead"}

Init ==
    /\ local = [p \in Processes |-> None]
    /\ file = None
    /\ pc = [t \in Threads |-> "idle"]
    /\ leaked = {}
    /\ intruded = FALSE

Goto(t, l) == pc' = [pc EXCEPT ![t] = l]

-----------------------------------------------------------------------------
(* lock and try_lock                                                       *)

LockLocal(t) ==
    /\ pc[t] = "idle" /\ local[ProcessOf[t]] = None
    /\ local' = [local EXCEPT ![ProcessOf[t]] = t]
    /\ Goto(t, "locking")
    /\ UNCHANGED <<file, leaked, intruded>>

\* flock succeeds at once for the process that has the file already.
Flock(t) ==
    /\ file \in {None, ProcessOf[t]}
    /\ file' = ProcessOf[t]
    /\ Goto(t, "critical")

LockFile(t) ==
    /\ pc[t] = "locking"
    /\ Flock(t)
    /\ UNCHANGED <<local, leaked, intruded>>

\* flock fails, because of a signal for example, and lock throws: the pthread mutex
\* stays locked.
LockFileFails(t) ==
    /\ pc[t] = "locking"
    /\ Goto(t, "idle")
    /\ leaked' = leaked \union {t}
    /\ UNCHANGED <<local, file, intruded>>

\* Fault: any answer of flock but EWOULDBLOCK, which it never returns, is success.
TryLockUnchecked(t) ==
    /\ pc[t] = "idle" /\ local[ProcessOf[t]] = None
    /\ local' = [local EXCEPT ![ProcessOf[t]] = t]
    /\ Goto(t, "critical")
    /\ UNCHANGED <<file, leaked, intruded>>

\* flock returns -1 and not EWOULDBLOCK: when another process has the file, try_lock
\* throws, and the pthread mutex stays locked.
TryLock(t) ==
    /\ pc[t] = "idle" /\ local[ProcessOf[t]] = None
    /\ local' = [local EXCEPT ![ProcessOf[t]] = t]
    /\ \/ Flock(t) /\ UNCHANGED leaked
       \/ /\ file \notin {None, ProcessOf[t]}
          /\ leaked' = leaked \union {t}
          /\ UNCHANGED <<file, pc>>
    /\ UNCHANGED intruded

-----------------------------------------------------------------------------
(* unlock: the file first, then the pthread mutex                          *)

UnlockFile(t) ==
    /\ file' = IF file = ProcessOf[t] THEN None ELSE file
    /\ Goto(t, "unlocking")
    /\ intruded' = (intruded \/ (pc[t] = "idle" /\ file = ProcessOf[t]))
    /\ UNCHANGED <<local, leaked>>

Unlock(t) == pc[t] = "critical" /\ UnlockFile(t)

\* As in Unlock_ByWrongThread_ThrowsRuntimeError.  A thread that leaked the pthread
\* mutex may unlock it like that.
UnlockByOther(t) == pc[t] = "idle" /\ UnlockFile(t)

\* Fault: the pthread mutex is not unlocked.
UnlockLocalNever(t) ==
    /\ pc[t] = "unlocking"
    /\ Goto(t, "idle")
    /\ UNCHANGED <<local, file, leaked, intruded>>

\* A thread that has not got the pthread mutex is told so by an exception.
UnlockLocal(t) ==
    /\ pc[t] = "unlocking"
    /\ local' = [local EXCEPT ![ProcessOf[t]] = IF @ = t THEN None ELSE @]
    /\ leaked' = leaked \ {t}
    /\ Goto(t, "idle")
    /\ UNCHANGED <<file, intruded>>

-----------------------------------------------------------------------------
\* The kernel closes the file of a process that is gone.  Its pthread mutex, named
\* after the process, is never seen again.
Die(p) ==
    /\ p \in Mortal
    /\ \E t \in Threads : ProcessOf[t] = p /\ pc[t] # "dead"
    /\ pc' = [t \in Threads |-> IF ProcessOf[t] = p THEN "dead" ELSE pc[t]]
    /\ local' = [local EXCEPT ![p] = None]
    /\ file' = IF file = p THEN None ELSE file
    /\ leaked' = {t \in leaked : ProcessOf[t] # p}
    /\ UNCHANGED intruded

Step(t) ==
    \/ LockLocal(t) \/ LockFile(t) \/ LockFileFails(t) \/ TryLock(t)
    \/ Unlock(t) \/ UnlockByOther(t) \/ UnlockLocal(t)

Next ==
    \/ \E t \in Threads : Step(t)
    \/ \E p \in Processes : Die(p)

Spec == Init /\ [][Next]_vars

-----------------------------------------------------------------------------
(* Properties                                                              *)

\* Both locks and the program counters stay well formed.
TypeOK ==
    /\ local \in [Processes -> Threads \union {None}]
    /\ file \in Processes \union {None}
    /\ pc \in [Threads -> Locations]
    /\ leaked \in SUBSET Threads
    /\ intruded \in BOOLEAN

\* Two threads are never inside together, whatever fails and whoever dies (lines
\* 43-96).  Only the unlock of a thread without the mutex, which gives up the file
\* before it is refused (lines 86-92), lets in one of another process.
MutualExclusion ==
    \A t, u \in Threads :
        pc[t] = "critical" /\ pc[u] = "critical" /\ t # u
            => intruded /\ ProcessOf[t] # ProcessOf[u]

\* The file is never left locked: a process has it only while one of its threads is
\* inside, so that a failure in one process does not keep the others out.
FileHeldInside ==
    file # None => \E t \in Threads : ProcessOf[t] = file /\ pc[t] = "critical"

\* A thread that is in no call has the pthread mutex only if its lock or try_lock
\* failed at the file (lines 50-53 and 70-78).
LocalHeldInside ==
    \A p \in Processes :
        local[p] # None =>
            /\ ProcessOf[local[p]] = p
            /\ pc[local[p]] \in {"locking", "critical", "unlocking"} \/ local[p] \in leaked

\* What makes MutualExclusion inductive: who is inside or on the way has the pthread
\* mutex, and inside also the file.
InsideHolds ==
    \A t \in Threads :
        /\ pc[t] \in {"locking", "critical"} => local[ProcessOf[t]] = t
        /\ pc[t] = "critical" => file = ProcessOf[t] \/ intruded

\* The inductive invariant.
IInv ==
    /\ TypeOK
    /\ InsideHolds
    /\ FileHeldInside
    /\ LocalHeldInside
=============================================================================
