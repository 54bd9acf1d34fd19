----------------------- MODULE ConditionVariableLinux -----------------------
(***************************************************************************)
(* azul::ipc::sync::RobustMutex and ConditionVariable on Linux             *)
(* (src/ipc/linux/RobustMutex.hpp, src/ipc/linux/ConditionVariable.cpp):   *)
(* wrappers of a robust pthread mutex and a pthread condition variable in  *)
(* shared memory.  What they add is what they do with the error codes of a *)
(* mutex whose owner died:                                                 *)
(*                                                                         *)
(*   ownerDead       free; who takes it next gets EOWNERDEAD               *)
(*   inconsistent    taken like that and not made consistent so far        *)
(*   notRecoverable  released while inconsistent: nobody gets it any more  *)
(*                                                                         *)
(* Every call that takes or gives up the mutex is one step.  A thread is   *)
(* "critical" while the std::unique_lock it uses says that it owns the     *)
(* mutex, whatever pthread thinks.                                         *)
(***************************************************************************)
EXTENDS Integers

CONSTANTS
    Threads,    \* the threads of all processes
    Mortal,     \* those whose process may die
    Second,     \* nanoseconds in a second
    None        \* no thread

VARIABLES
    owner,      \* the thread pthread takes for the owner of the mutex
    health,     \* what became of the mutex
    pc,         \* where each thread is
    outcome     \* how its last call ended

vars == <<owner, health, pc, outcome>>

Locations == {"idle", "locking", "critical", "Wait", "WaitFor", "relock", "relockFor", "dead"}
Outcomes == {"none", "locked", "unlocked", "busy", "deadlock", "ownerDead", "notRecoverable",
             "notOwner", "awoken", "failed"}

Init ==
    /\ owner = None
    /\ health = "consistent"
    /\ pc = [t \in Threads |-> "idle"]
    /\ outcome = [t \in Threads |-> "none"]

Return(t, l, o) ==
    /\ pc' = [pc EXCEPT ![t] = l]
    /\ outcome' = [outcome EXCEPT ![t] = o]

-----------------------------------------------------------------------------
(* The pthread mutex                                                       *)

Lockable == owner = None /\ health # "notRecoverable"

\* pthread gives the mutex to t, with EOWNERDEAD if the last owner died.
Acquire(t) ==
    /\ owner' = t
    /\ health' = IF health = "ownerDead" THEN "inconsistent" ELSE health

Release ==
    /\ owner' = None
    /\ health' = IF health = "inconsistent" THEN "notRecoverable" ELSE health

\* The kernel marks the mutex of a thread whose process is gone.
Die(t) ==
    /\ t \in Mortal /\ pc[t] # "dead"
    /\ Return(t, "dead", "none")
    /\ IF owner = t THEN owner' = None /\ health' = "ownerDead"
                    ELSE UNCHANGED <<owner, health>>

-----------------------------------------------------------------------------
(* RobustMutex                                                             *)

BeginLock(t) ==
    /\ pc[t] = "idle"
    /\ Return(t, "locking", "none")
    /\ UNCHANGED <<owner, health>>

\* EOWNERDEAD is answered with pthread_mutex_consistent.
Lock(t) ==
    /\ pc[t] = "locking"
    /\ \/ /\ Lockable
          /\ owner' = t
          /\ health' = "consistent"
          /\ Return(t, "critical", "locked")
       \/ /\ health = "notRecoverable" /\ owner = None
          /\ Return(t, "idle", "notRecoverable")
          /\ UNCHANGED <<owner, health>>
       \/ /\ owner = t
          /\ Return(t, "idle", "deadlock")
          /\ UNCHANGED <<owner, health>>

\* Every code but 0 and EBUSY throws, EOWNERDEAD included: the thread has the mutex
\* and is told that it has not.
TryLock(t) ==
    /\ pc[t] = "idle"
    /\ \/ /\ Lockable
          /\ Acquire(t)
          /\ IF health = "ownerDead" THEN Return(t, "idle", "ownerDead")
                                     ELSE Return(t, "critical", "locked")
       \/ /\ health = "notRecoverable" /\ owner = None
          /\ Return(t, "idle", "notRecoverable")
          /\ UNCHANGED <<owner, health>>
       \/ /\ owner # None
          /\ Return(t, "idle", IF owner = t THEN "deadlock" ELSE "busy")
          /\ UNCHANGED <<owner, health>>

\* Without the mutex pthread returns EPERM and unlock throws: out of an explicit
\* call, or out of the destructor of unique_lock, which ends the process.
Unlock(t) ==
    /\ pc[t] = "critical"
    /\ \/ /\ owner = t
          /\ Release
          /\ Return(t, "idle", "unlocked")
       \/ /\ owner # t
          /\ \E l \in {"critical", "dead"} : Return(t, l, "notOwner")
          /\ UNCHANGED <<owner, health>>

-----------------------------------------------------------------------------
(* ConditionVariable                                                       *)

\* The nanoseconds of the deadline, now and rest being those of the clock and of the
\* timeout.  The milliseconds are signed and / rounds towards zero: rest has the sign of
\* the timeout.
Rests == (1 - Second)..(Second - 1)

Nanoseconds(now, rest) ==
    IF now + rest > Second THEN now + rest - Second ELSE now + rest

Waiting == {t \in Threads : pc[t] \in {"Wait", "WaitFor"}}

\* pthread_cond_wait fails at once for a thread that has not got the mutex; Wait
\* returns as if it had waited, WaitFor throws.
BeginWait(t, call) ==
    /\ pc[t] = "critical"
    /\ \/ /\ owner = t
          /\ Release
          /\ Return(t, call, "none")
       \/ /\ owner # t
          /\ Return(t, "critical", IF call = "Wait" THEN "awoken" ELSE "failed")
          /\ UNCHANGED <<owner, health>>

\* getAbsoluteTime makes a deadline that pthread_cond_timedwait refuses, of a sum that
\* is not carried or of a negative timeout; WaitFor throws.
RefuseDeadline(t) ==
    /\ pc[t] = "critical"
    /\ \E now \in 0..(Second - 1), rest \in Rests :
           Nanoseconds(now, rest) \notin 0..(Second - 1)
    /\ Return(t, "critical", "failed")
    /\ UNCHANGED <<owner, health>>

\* With or without the mutex.
NotifyOne(t) ==
    /\ pc[t] \in {"idle", "critical"}
    /\ \E u \in Waiting : pc' = [pc EXCEPT ![u] = IF @ = "Wait" THEN "relock" ELSE "relockFor"]
    /\ UNCHANGED <<owner, health, outcome>>

NotifyAll(t) ==
    /\ pc[t] \in {"idle", "critical"}
    /\ pc' = [u \in Threads |-> CASE pc[u] = "Wait" -> "relock"
                                  [] pc[u] = "WaitFor" -> "relockFor"
                                  [] OTHER -> pc[u]]
    /\ UNCHANGED <<owner, health, outcome>>

\* A timeout, or a spurious wake-up.
WakeUp(t) ==
    /\ t \in Waiting
    /\ pc' = [pc EXCEPT ![t] = IF @ = "Wait" THEN "relock" ELSE "relockFor"]
    /\ UNCHANGED <<owner, health, outcome>>

\* pthread_cond_wait takes the mutex again before it returns.  Wait takes every code
\* but EINVAL for success; WaitFor throws on EOWNERDEAD and ENOTRECOVERABLE.  In both
\* the caller's unique_lock says that it owns the mutex.
EndWait(t) ==
    /\ pc[t] \in {"relock", "relockFor"} /\ owner = None
    /\ IF Lockable THEN Acquire(t) ELSE UNCHANGED <<owner, health>>
    /\ Return(t, "critical",
              IF pc[t] = "relock" \/ health = "consistent" THEN "awoken" ELSE "failed")

-----------------------------------------------------------------------------
Next == \E t \in Threads :
    \/ BeginLock(t) \/ Lock(t) \/ TryLock(t) \/ Unlock(t)
    \/ \E call \in {"Wait", "WaitFor"} : BeginWait(t, call)
    \/ RefuseDeadline(t)
    \/ NotifyOne(t) \/ NotifyAll(t)
    \/ WakeUp(t) \/ EndWait(t)
    \/ Die(t)

Spec == Init /\ [][Next]_vars

-----------------------------------------------------------------------------
(* Properties                                                              *)

\* The mutex, its owner and the program counters stay well formed.
TypeOK ==
    /\ owner \in Threads \union {None}
    /\ health \in {"consistent", "ownerDead", "inconsistent", "notRecoverable"}
    /\ health \in {"ownerDead", "notRecoverable"} => owner = None
    /\ health = "inconsistent" => owner # None
    /\ pc \in [Threads -> Locations]
    /\ outcome \in [Threads -> Outcomes]

\* Whoever leaves lock, Wait or WaitFor as the owner of its unique_lock has the mutex,
\* also after an exception out of WaitFor (ConditionVariable.cpp:74-99), until the mutex
\* is not recoverable: Wait returns then without it (line 77).
CriticalOwns ==
    \A t \in Threads : pc[t] = "critical" => owner = t \/ health = "notRecoverable"

\* The mutex has an owner in no critical section only after try_lock has thrown on
\* EOWNERDEAD (RobustMutex.hpp:86-89): that thread does not know that it has the mutex.
OwnerUnknowing == health = "inconsistent" /\ pc[owner] \in {"idle", "locking"}

OwnerInside == owner # None => pc[owner] = "critical" \/ OwnerUnknowing

\* lock recovers the mutex (RobustMutex.hpp:66-69): inside, it is inconsistent only with
\* a thread that got it back in Wait or WaitFor.
LockRecovers ==
    health = "inconsistent" /\ pc[owner] = "critical" => outcome[owner] \in {"awoken", "failed"}

\* As long as nobody dies the mutex works.
OnlyDeathsBreak == health # "consistent" => \E t \in Threads : pc[t] = "dead"

\* Claimed by the test lockMutex_mutexAbandoned_succeeds: a mutex abandoned by a
\* process can be locked by the others.  Only lock (RobustMutex.hpp:66-69) makes it
\* consistent again; Wait (ConditionVariable.cpp:74-81) and try_lock do not.
LockSucceeds == \A t \in Threads : outcome[t] # "notRecoverable"
=============================================================================
