----------------------- MODULE ConditionVariableWin32 -----------------------
(***************************************************************************)
(* azul::ipc::sync::ConditionVariable on Windows                           *)
(* (src/ipc/win32/ConditionVariable.cpp), used by the threads of several   *)
(* processes together with one RobustMutex.  The ids of the waiting        *)
(* threads are in a queue in shared memory (module Queue, here as the      *)
(* BoundedDeque it implements), guarded by a RobustMutex of its own, and   *)
(* each thread blocks on a named semaphore with a count of at most one.    *)
(*                                                                         *)
(* What a thread does while it holds the queue's mutex is one step as far  *)
(* as its death in between makes no difference.  Both mutexes are robust:  *)
(* when the owner dies the next thread gets them (RobustMutex.cpp:38-43).  *)
(***************************************************************************)
EXTENDS Naturals, SequencesExt

CONSTANTS
    Threads,    \* the threads of all processes
    Mortal,     \* those whose process may die
    Capacity,   \* how many ids the queue has space for
    None        \* no thread

ASSUME ThreadsAssumption == Mortal \subseteq Threads /\ None \notin Threads
ASSUME CapacityAssumption == Capacity \in Nat \ {0}

VARIABLES
    mutex,      \* the thread that holds the user's mutex
    queueMutex, \* the thread that holds _threadQueueMutex
    queue,      \* _threadQueue
    semaphore,  \* the count of each thread's semaphore
    pc,         \* where each thread is
    popped,     \* the id it has taken from the queue in NotifyOne or NotifyAll
    result,     \* what WaitForSingleObject last returned to it
    \* history: threads notified since they called Wait, threads that left a wait or
    \* died without having been, and waiters whose id went with a notifier that died or
    \* threw
    notified, gaveUp, lost

history == <<notified, gaveUp, lost>>
vars == <<mutex, queueMutex, queue, semaphore, pc, popped, result, history>>

Calls == {"Wait", "WaitFor", "NotifyOne", "NotifyAll"}
Locations == {"idle", "critical", "blocked", "blockedFor", "relock", "relockMutex",
              "releaseOne", "releaseAll", "dead"} \union Calls
Results == {"none", "object", "timeout", "failed"}

Deque == INSTANCE BoundedDeque WITH Items <- Threads

Init ==
    /\ mutex = None
    /\ queueMutex = None
    /\ queue = <<>>
    /\ semaphore = [t \in Threads |-> 0]
    /\ pc = [t \in Threads |-> "idle"]
    /\ popped = [t \in Threads |-> None]
    /\ result = [t \in Threads |-> "none"]
    /\ notified = {}
    /\ gaveUp = {}
    /\ lost = {}

Goto(t, l) == pc' = [pc EXCEPT ![t] = l]

\* Where a thread is when it is not in a call.
Home(t) == IF mutex = t THEN "critical" ELSE "idle"

Blocked == {t \in Threads : pc[t] \in {"blocked", "blockedFor"}}

\* The id that t has taken, if it has one, goes with the call of t: who waits for it is
\* lost until it leaves the wait by itself.
LoseId(t) == lost' = (lost \union ({popped[t]} \intersect Blocked)) \ {t}

-----------------------------------------------------------------------------
(* The threads that use the condition variable                             *)

Lock(t) ==
    /\ pc[t] = "idle" /\ mutex = None
    /\ mutex' = t
    /\ Goto(t, "critical")
    /\ UNCHANGED <<queueMutex, queue, semaphore, popped, result, history>>

Unlock(t) ==
    /\ pc[t] = "critical"
    /\ mutex' = None
    /\ Goto(t, "idle")
    /\ UNCHANGED <<queueMutex, queue, semaphore, popped, result, history>>

\* A thread waits with the mutex and notifies with or without it.
Call(t, c) ==
    /\ pc[t] = "critical" \/ (pc[t] = "idle" /\ c \in {"NotifyOne", "NotifyAll"})
    /\ Goto(t, c)
    /\ UNCHANGED <<mutex, queueMutex, queue, semaphore, popped, result, history>>

\* The process of t is gone: whoever locks its mutexes next gets them, its id stays
\* where it is.
Die(t) ==
    /\ t \in Mortal /\ pc[t] # "dead"
    /\ Goto(t, "dead")
    /\ mutex' = IF mutex = t THEN None ELSE mutex
    /\ queueMutex' = IF queueMutex = t THEN None ELSE queueMutex
    /\ popped' = [popped EXCEPT ![t] = None]
    /\ gaveUp' = gaveUp \union {t}
    /\ LoseId(t)
    /\ UNCHANGED <<queue, semaphore, result, notified>>

-----------------------------------------------------------------------------
(* Wait and WaitFor                                                        *)

\* Fault: a semaphore that is known already is used as it is.
GetSemaphoreUnreset(t) == UNCHANGED semaphore

\* GetSemaphore for the thread's own id: a count left over is taken away.  A semaphore
\* that is new to the object starts with none.
GetSemaphore(t) == semaphore' = [semaphore EXCEPT ![t] = 0]

\* With the queue's mutex: the id is queued and both mutexes are released.
BeginWait(t) ==
    /\ pc[t] \in {"Wait", "WaitFor"} /\ queueMutex = None
    /\ GetSemaphore(t)
    /\ Deque!PushBack(t)
    /\ mutex' = None
    /\ Goto(t, IF pc[t] = "Wait" THEN "blocked" ELSE "blockedFor")
    /\ notified' = notified \ {t}
    /\ UNCHANGED <<queueMutex, popped, result, gaveUp, lost>>

\* PushBack throws: the caller keeps its mutex.
RefuseWait(t) ==
    /\ pc[t] \in {"Wait", "WaitFor"} /\ queueMutex = None
    /\ Len(queue) = Capacity
    /\ GetSemaphore(t)
    /\ Goto(t, "critical")
    /\ UNCHANGED <<mutex, queueMutex, queue, popped, result, history>>

\* CreateSemaphoreA fails, which GetSemaphore calls for an id that is new to the object:
\* the caller keeps its mutex.
NoSemaphore(t) ==
    /\ pc[t] \in {"Wait", "WaitFor"} /\ queueMutex = None
    /\ Goto(t, "critical")
    /\ UNCHANGED <<mutex, queueMutex, queue, semaphore, popped, result, history>>

WakeUp(t) ==
    /\ t \in Blocked /\ semaphore[t] = 1
    /\ semaphore' = [semaphore EXCEPT ![t] = 0]
    /\ result' = [result EXCEPT ![t] = "object"]
    /\ Goto(t, "relock")
    /\ lost' = lost \ {t}
    /\ UNCHANGED <<mutex, queueMutex, queue, popped, notified, gaveUp>>

\* The timeout, or a failure of WaitForSingleObject.
GiveUp(t) ==
    /\ t \in Blocked /\ semaphore[t] = 0
    /\ \/ pc[t] = "blockedFor" /\ result' = [result EXCEPT ![t] = "timeout"]
       \/ result' = [result EXCEPT ![t] = "failed"]
    /\ Goto(t, "relock")
    /\ gaveUp' = gaveUp \union {t}
    /\ lost' = lost \ {t}
    /\ UNCHANGED <<mutex, queueMutex, queue, semaphore, popped, notified>>

\* The queue's mutex is taken first, the user's mutex while it is held.
LockQueue(t) ==
    /\ pc[t] = "relock" /\ queueMutex = None
    /\ queueMutex' = t
    /\ Goto(t, "relockMutex")
    /\ UNCHANGED <<mutex, queue, semaphore, popped, result, history>>

\* Fault: the id in front is removed instead of the thread's own.
WithdrawFront(t) ==
    IF result[t] = "failed" /\ t \in ToSet(queue) THEN Deque!Pop ELSE UNCHANGED queue

\* Only after a failure the id is removed from the queue, if it is there.
Withdraw(t) ==
    IF result[t] = "failed" /\ t \in ToSet(queue) THEN Deque!Remove(t) ELSE UNCHANGED queue

EndWait(t) ==
    /\ pc[t] = "relockMutex" /\ mutex = None
    /\ mutex' = t
    /\ queueMutex' = None
    /\ Withdraw(t)
    /\ Goto(t, "critical")
    /\ UNCHANGED <<semaphore, popped, result, history>>

-----------------------------------------------------------------------------
(* NotifyOne and NotifyAll                                                 *)

\* Fault: the loop of NotifyAll ends after the first id.
ContinueNotifyOnce(t) ==
    /\ queueMutex' = None
    /\ Goto(t, Home(t))

\* NotifyOne is done with one id, NotifyAll goes on and keeps the queue's mutex.
ContinueNotify(t) ==
    IF pc[t] = "releaseAll"
      THEN Goto(t, "NotifyAll") /\ UNCHANGED queueMutex
      ELSE Goto(t, Home(t)) /\ queueMutex' = None

\* Fault: the id stays in the queue.
PopWaiterKeepingIt(t) ==
    /\ \/ pc[t] = "NotifyOne" /\ Goto(t, "releaseOne")
       \/ pc[t] = "NotifyAll" /\ Goto(t, "releaseAll")
    /\ queueMutex \in {None, t}
    /\ queue # <<>> /\ UNCHANGED queue
    /\ queueMutex' = t
    /\ popped' = [popped EXCEPT ![t] = Head(queue)]
    /\ UNCHANGED <<mutex, semaphore, result, history>>

PopWaiter(t) ==
    /\ \/ pc[t] = "NotifyOne" /\ Goto(t, "releaseOne")
       \/ pc[t] = "NotifyAll" /\ Goto(t, "releaseAll")
    /\ queueMutex \in {None, t}
    /\ Deque!Pop
    /\ queueMutex' = t
    /\ popped' = [popped EXCEPT ![t] = Head(queue)]
    /\ UNCHANGED <<mutex, semaphore, result, history>>

\* GetSemaphore and ReleaseSemaphore for the id: its count becomes one.
ReleaseWaiter(t) ==
    /\ pc[t] \in {"releaseOne", "releaseAll"}
    /\ semaphore' = [semaphore EXCEPT ![popped[t]] = 1]
    /\ notified' = notified \union {popped[t]}
    /\ popped' = [popped EXCEPT ![t] = None]
    /\ ContinueNotify(t)
    /\ UNCHANGED <<mutex, queue, result, gaveUp, lost>>

\* CreateSemaphoreA fails for the id, which has left the queue already: the call throws,
\* NotifyAll with the other ids still queued.
ReleaseFails(t) ==
    /\ pc[t] \in {"releaseOne", "releaseAll"}
    /\ LoseId(t)
    /\ popped' = [popped EXCEPT ![t] = None]
    /\ queueMutex' = None
    /\ Goto(t, Home(t))
    /\ UNCHANGED <<mutex, queue, semaphore, result, notified, gaveUp>>

\* The queue is empty: nobody waits, or NotifyAll has notified everybody.
EndNotify(t) ==
    /\ pc[t] \in {"NotifyOne", "NotifyAll"}
    /\ queueMutex \in {None, t} /\ queue = <<>>
    /\ queueMutex' = None
    /\ Goto(t, Home(t))
    /\ UNCHANGED <<mutex, queue, semaphore, popped, result, history>>

-----------------------------------------------------------------------------
\* What a thread does once it is inside a call and nobody keeps it from it.
Proceed(t) ==
    \/ BeginWait(t) \/ RefuseWait(t) \/ WakeUp(t)
    \/ LockQueue(t) \/ EndWait(t)
    \/ PopWaiter(t) \/ ReleaseWaiter(t) \/ EndNotify(t)

Next == \E t \in Threads :
    \/ Lock(t) \/ Unlock(t)
    \/ \E c \in Calls : Call(t, c)
    \/ Proceed(t)
    \/ NoSemaphore(t) \/ ReleaseFails(t)
    \/ GiveUp(t)
    \/ Die(t)

Spec == Init /\ [][Next]_vars

\* A mutex that is free again and again is granted some day, and a thread in a
\* critical section leaves it some day.
FairSpec == Spec /\ \A t \in Threads : SF_vars(Proceed(t)) /\ SF_vars(Unlock(t))

-----------------------------------------------------------------------------
(* Properties                                                              *)

\* Mutexes, queue, semaphores and program counters stay well formed.
TypeOK ==
    /\ mutex \in Threads \union {None}
    /\ queueMutex \in Threads \union {None}
    /\ queue \in Seq(Threads) /\ Len(queue) <= Capacity
    /\ semaphore \in [Threads -> {0, 1}]
    /\ pc \in [Threads -> Locations]
    /\ popped \in [Threads -> Threads \union {None}]
    /\ result \in [Threads -> Results]
    /\ lost \in SUBSET Threads
    /\ notified \in SUBSET Threads
    /\ gaveUp \in SUBSET Threads

\* Some thread is about to release the semaphore of t.
InHand(t) == \E u \in Threads : popped[u] = t

\* No waiter is forgotten between the moment it gives up the mutex and the moment
\* it blocks (lines 83-94 against 57-81): the id of a blocked thread is in the
\* queue or in the hands of a notifier, or its semaphore is released.  A waiter is lost
\* only with the notifier that has taken its id, which dies between lines 64 and 66, or
\* 77 and 79, or throws there because it gets no semaphore (line 36); nothing that
\* happens to other threads, and no NotifyAll that throws at an earlier id, loses one.
WaiterReachable ==
    \A t \in Blocked : t \in ToSet(queue) \/ InHand(t) \/ semaphore[t] = 1 \/ t \in lost

\* A thread does not leave Wait because of a notification that an earlier wait of
\* its own missed: its semaphore is released only if a notification took its id
\* from the queue since it called Wait (the reset in line 44).
WokenByNotification == \A t \in Blocked : semaphore[t] = 1 => t \in notified

\* Unless a thread has timed out, failed or died, an id is in the queue exactly
\* while its thread waits for a notification.
QueueIsWaiters ==
    /\ \A i \in 1..Len(queue) :
           queue[i] \in gaveUp \/ (queue[i] \in Blocked /\ queue[i] \notin notified)
    /\ \A i, j \in 1..Len(queue) : queue[i] = queue[j] /\ i # j => queue[i] \in gaveUp

\* NotifyAll empties the queue: when it returns without an exception, whoever was in the
\* queue has been notified, although each semaphore is released on its own (lines 74-80).
NotifyAllReachesAll ==
    \A t \in Threads :
        /\ pc[t] \in {"NotifyAll", "releaseAll"} /\ pc'[t] \in {"idle", "critical"}
        /\ ~ReleaseFails(t)
        => \A u \in Blocked : u \in notified' \/ u \in lost

\* Claimed by the tests, which join every thread they have notified: a notified
\* thread returns from Wait with the mutex.  It takes the queue's mutex first
\* (lines 96-97), which a holder of the user's mutex may be waiting for.
NotifiedReturns ==
    \A t \in Threads : (t \in Blocked /\ semaphore[t] = 1) ~> (pc[t] = "critical")
=============================================================================
