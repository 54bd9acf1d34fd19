------------------------- MODULE ConditionVariable -------------------------
(***************************************************************************)
(* azul::ipc::sync::ConditionVariable                                      *)
(* (include/azul/ipc/sync/ConditionVariable.hpp) for a build on Windows or *)
(* on macOS.  Both queue the ids of the waiting threads; they differ in    *)
(* what a thread blocks on, a semaphore or a named pipe.  What the two     *)
(* promise is stated here.  The one on Linux is pthread's                  *)
(* (ConditionVariableLinux).                                               *)
(***************************************************************************)
EXTENDS ConditionVariableWin32

VARIABLES
    platform,                   \* what the library is built for
    fifos, message, orphans     \* see ConditionVariableDarwin

win32 == <<semaphore, result>>
darwin == <<fifos, message, orphans>>

Darwin == INSTANCE ConditionVariableDarwin

BuildInit ==
    /\ platform \in {"win32", "darwin"}
    /\ Init
    /\ Darwin!Init

BuildNext ==
    \/ platform = "win32" /\ Next /\ UNCHANGED <<platform, darwin>>
    \/ platform = "darwin" /\ Darwin!Next /\ UNCHANGED <<platform, win32>>

all == <<platform, vars, darwin>>

BuildSpec == BuildInit /\ [][BuildNext]_all

-----------------------------------------------------------------------------
(* Properties                                                              *)

\* Every variable has its type.
BuildTypeOK ==
    /\ platform \in {"win32", "darwin"}
    /\ platform = "win32" => TypeOK
    /\ platform = "darwin" => Darwin!TypeOK

\* No waiter is forgotten between the moment it gives up the mutex and the moment it
\* blocks, nor by a notifier that fails at another one; only its own notifier loses it,
\* by dying or by a semaphore or pipe it cannot open.  See WaiterReachable in the two
\* modules (win32 lines 57-94, darwin lines 55-96).
NobodyForgotten ==
    /\ platform = "win32" => WaiterReachable
    /\ platform = "darwin" => Darwin!WaiterReachable

\* No thread is woken by a notification of an earlier wait of its own, whose semaphore
\* is reset and whose pipe is gone: see WokenByNotification (win32 line 44, darwin
\* line 85).
WakesAreNew ==
    /\ platform = "win32" => WokenByNotification
    /\ platform = "darwin" => Darwin!WokenByNotification

\* But for the ids of threads that gave up, the queue is who waits to be notified: see
\* QueueIsWaiters.
QueueHoldsWaiters ==
    /\ platform = "win32" => QueueIsWaiters
    /\ platform = "darwin" => Darwin!QueueIsWaiters

\* On macOS a pipe has its path during a wait and not longer, unless its thread died
\* there or could not open it: see FifosOfWaits.
PipesOfWaits == platform = "darwin" => Darwin!FifosOfWaits

\* On macOS a notifier finds no pipe only at a thread that gave up: see
\* DesertersOnlyMissed.
MissingPipesOfDeserters == platform = "darwin" => Darwin!DesertersOnlyMissed

\* When NotifyAll returns without an exception nobody is left behind that it should have
\* notified: see NotifyAllReachesAll.
EverybodyNotified ==
    [][/\ platform = "win32" => NotifyAllReachesAll
       /\ platform = "darwin" => Darwin!NotifyAllReachesAll]_all
=============================================================================
