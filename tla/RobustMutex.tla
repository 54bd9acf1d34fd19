---------------------------- MODULE RobustMutex ----------------------------
(***************************************************************************)
(* azul::ipc::sync::RobustMutex (include/azul/ipc/sync/RobustMutex.hpp)    *)
(* for a build on Windows, on macOS or on Linux.  The three have nothing   *)
(* in common but their callers; what they promise is stated here.  On      *)
(* Linux the condition variable, which gives up the mutex and takes it     *)
(* again inside pthread, belongs to it.                                    *)
(***************************************************************************)
EXTENDS Integers, FiniteSets, RobustMutexDarwin

CONSTANT Second     \* nanoseconds in a second

ASSUME SecondAssumption == Second \in Nat \ {0}

VARIABLES
    platform,   \* what the library is built for
    owner, depth, abandoned, current, wiped,    \* see RobustMutexWin32
    health, outcome                             \* see ConditionVariableLinux

win32 == <<depth, abandoned, current, wiped>>
darwin == <<local, file, leaked, intruded>>
linux == <<health, outcome>>

Win32 == INSTANCE RobustMutexWin32
Linux == INSTANCE ConditionVariableLinux WITH
    Mortal <- {t \in Threads : ProcessOf[t] \in Mortal}

BuildInit ==
    /\ platform \in {"win32", "darwin", "linux"}
    /\ Init
    /\ Win32!Init
    /\ Linux!Init

BuildNext ==
    \/ platform = "darwin" /\ Next /\ UNCHANGED <<platform, owner, win32, linux>>
    \/ platform = "win32" /\ Win32!Next /\ UNCHANGED <<platform, darwin, linux>>
    \/ platform = "linux" /\ Linux!Next /\ UNCHANGED <<platform, darwin, win32>>

all == <<platform, vars, owner, win32, linux>>

\* What a thread does on its own inside lock and unlock, and the unlock it owes.
Proceed(t) ==
    \/ /\ platform = "darwin"
       /\ LockFile(t) \/ Unlock(t) \/ UnlockLocal(t)
       /\ UNCHANGED <<platform, owner, win32, linux>>
    \/ /\ platform = "win32"
       /\ \/ Win32!Acquire(t) \/ Win32!TryLockFails(t) \/ Win32!WriteCurrent(t)
          \/ Win32!Release(t) \/ Win32!ClearCurrent(t)
       /\ UNCHANGED <<platform, darwin, linux>>
    \/ /\ platform = "linux"
       /\ Linux!Lock(t) \/ Linux!Unlock(t) \/ Linux!EndWait(t)
       /\ UNCHANGED <<platform, darwin, win32>>

\* A thread that has got through recursively unlocks as often as it has locked.
Unwind(t, n) == platform = "win32" /\ depth = n /\ Proceed(t)

\* A thread inside leaves some day, and a lock that is free again and again is granted
\* some day.  Nobody has to fail, to die, or to call.
BuildSpec ==
    /\ BuildInit
    /\ [][BuildNext]_all
    /\ \A t \in Threads :
        /\ SF_all(Proceed(t))
        /\ \A n \in 1..Cardinality(Threads) :
            SF_all(pc[t] = "critical" /\ Unwind(t, n))

-----------------------------------------------------------------------------
(* Properties                                                              *)

\* Two threads are never inside together, on macOS and on Linux with the exceptions that
\* MutualExclusion and CriticalOwns name; on Windows the kernel sees to it.
Exclusion ==
    CASE platform = "darwin" -> MutualExclusion
      [] platform = "win32" ->
           \A t, u \in Threads : pc[t] = "critical" /\ pc[u] = "critical" => t = u
      [] platform = "linux" -> Linux!CriticalOwns /\ Linux!OnlyDeathsBreak

\* See FileHeldInside and LocalHeldInside, and for Linux OwnerInside and LockRecovers.
NothingLeftLocked ==
    /\ platform = "darwin" => FileHeldInside /\ LocalHeldInside
    /\ platform = "linux" => Linux!OwnerInside /\ Linux!LockRecovers

\* See RefusedOnlyOwner and RecursionRefused.
RecursionDetected ==
    platform = "win32" => Win32!RefusedOnlyOwner /\ Win32!RecursionRefused

\* How lock throws at a thread that has waited: on macOS when flock fails (line 53), on
\* Linux (lines 70-73) when the thread has the mutex already and does not know it, or
\* when somebody has released it inconsistent after a death.  On Windows it does not.
LockThrew(t) ==
    CASE platform = "darwin" -> t \in leaked
      [] platform = "win32" -> FALSE
      [] platform = "linux" -> outcome[t] \in {"deadlock", "notRecoverable"}

=============================================================================
