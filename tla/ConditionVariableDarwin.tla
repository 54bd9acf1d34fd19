---------------------- MODULE ConditionVariableDarwin ----------------------
(***************************************************************************)
(* azul::ipc::sync::ConditionVariable on macOS                             *)
(* (src/ipc/darwin/ConditionVariable.cpp and FiFo.hpp).  As on Windows the *)
(* ids of the waiting threads are in a queue in shared memory, but each    *)
(* wait creates a named pipe for its thread and removes it at its end: a   *)
(* notifier finds no pipe for the id of a thread that has given up, and a  *)
(* thread finds one already if its namesake died in a wait, or if it could *)
(* not open the one it made.                                               *)
(*                                                                         *)
(* Both mutexes are robust: when the owner dies the next thread gets them  *)
(* (module RobustMutexDarwin).                                             *)
(***************************************************************************)
EXTENDS Naturals, SequencesExt

CONSTANTS
    Threads,    \* the threads of all processes, by their ids
    Mortal,     \* those whose process may die and be started again
    Capacity,   \* how many ids the queue has space for
    None        \* no thread, as in ConditionVariableWin32

VARIABLES
    mutex,      \* the thread that holds the user's mutex
    queueMutex, \* the thread that holds _threadQueueMutex
    queue,      \* _threadQueue
    fifos,      \* the threads whose pipe has a path in the file system
    message,    \* those whose pipe has a message in it
    pc,         \* where each thread is
    popped,     \* the id it has taken from the queue in NotifyOne or NotifyAll
    \* history: threads notified since they called Wait, threads that left a wait or
    \* died without having been, waiters whose id went with a notifier that died or
    \* threw, and threads that left their path behind
    notified, gaveUp, lost, orphans

history == <<notified, gaveUp, lost, orphans>>
vars == <<mutex, queueMutex, queue, fifos, message, pc, popped, history>>

Calls == {"Wait", "WaitFor", "NotifyOne", "NotifyAll"}
Waiting == {"queueing", "queueingFor", "blocked", "blockedFor", "relock", "relockMutex"}
Locations == {"idle", "critical", "sendOne", "sendAll", "dead"} \union Calls \union Waiting

Deque == INSTANCE BoundedDeque WITH Items <- Threads

Init ==
    /\ mutex = None
    /\ queueMutex = None
    /\ queue = <<>>
    /\ fifos = {}
    /\ message = {}
    /\ pc = [t \in Threads |-> "idle"]
    /\ popped = [t \in Threads |-> None]
    /\ notified = {} /\ gaveUp = {} /\ lost = {} /\ orphans = {}

Goto(t, l) == pc' = [pc EXCEPT ![t] = l]

\* Where a thread is when it is not in a call.
Home(t) == IF mutex = t THEN "critical" ELSE "idle"

Blocked == {t \in Threads : pc[t] \in {"blocked", "blockedFor"}}

\* The id that t has taken, if it has one, goes with the call of t: who waits for it is
\* lost until it leaves the wait by itself.
LoseId(t) == lost' = (lost \union ({popped[t]} \intersect Blocked)) \ {t}

\* The pipe of t is closed and its path removed (FiFo's disposer for the owner).
RemoveFifo(t) ==
    /\ fifos' = fifos \ {t}
    /\ message' = message \ {t}

-----------------------------------------------------------------------------
(* The threads that use the condition variable                             *)

Lock(t) ==
    /\ pc[t] = "idle" /\ mutex = None
    /\ mutex' = t
    /\ Goto(t, "critical")
    /\ UNCHANGED <<queueMutex, queue, fifos, message, popped, history>>

Unlock(t) ==
    /\ pc[t] = "critical"
    /\ mutex' = None
    /\ Goto(t, "idle")
    /\ UNCHANGED <<queueMutex, queue, fifos, message, popped, history>>

\* A thread waits with the mutex and notifies with or without it.
Call(t, c) ==
    /\ pc[t] = "critical" \/ (pc[t] = "idle" /\ c \in {"NotifyOne", "NotifyAll"})
    /\ Goto(t, c)
    /\ UNCHANGED <<mutex, queueMutex, queue, fifos, message, popped, history>>

\* The process of t is gone: the mutexes are free, what is in its pipe is gone, but its
\* id stays in the queue and the path in the file system.
Die(t) ==
    /\ t \in Mortal /\ pc[t] # "dead"
    /\ Goto(t, "dead")
    /\ mutex' = IF mutex = t THEN None ELSE mutex
    /\ queueMutex' = IF queueMutex = t THEN None ELSE queueMutex
    /\ message' = message \ {t}
    /\ popped' = [popped EXCEPT ![t] = None]
    /\ gaveUp' = gaveUp \union {t}
    /\ LoseId(t)
    /\ orphans' = IF pc[t] \in Waiting THEN orphans \union {t} ELSE orphans
    /\ UNCHANGED <<queue, fifos, notified>>

\* A new process has a thread with the same id.
Restart(t) ==
    /\ pc[t] = "dead"
    /\ Goto(t, "idle")
    /\ UNCHANGED <<mutex, queueMutex, queue, fifos, message, popped, history>>

-----------------------------------------------------------------------------
(* Wait and WaitFor                                                        *)

\* The queue's mutex is taken and the pipe created.
CreateFifo(t) ==
    /\ \/ pc[t] = "Wait" /\ Goto(t, "queueing")
       \/ pc[t] = "WaitFor" /\ Goto(t, "queueingFor")
    /\ queueMutex = None /\ t \notin fifos
    /\ queueMutex' = t
    /\ fifos' = fifos \union {t}
    /\ notified' = notified \ {t}
    /\ UNCHANGED <<mutex, queue, message, popped, gaveUp, lost, orphans>>

\* mkfifo fails, as it does for a path that exists and may do for any other: the caller
\* keeps its mutex.
RefuseWait(t) ==
    /\ pc[t] \in {"Wait", "WaitFor"} /\ queueMutex = None
    /\ Goto(t, "critical")
    /\ UNCHANGED <<mutex, queueMutex, queue, fifos, message, popped, history>>

\* mkfifo has made the path and open fails, before the disposer knows of either: the
\* caller keeps its mutex and the path stays.
OpenOwnFails(t) ==
    /\ pc[t] \in {"Wait", "WaitFor"}
    /\ queueMutex = None /\ t \notin fifos
    /\ fifos' = fifos \union {t}
    /\ orphans' = orphans \union {t}
    /\ Goto(t, "critical")
    /\ UNCHANGED <<mutex, queueMutex, queue, message, popped, notified, gaveUp, lost>>

\* The id is queued, and both mutexes are released.
Block(t) ==
    /\ mutex' = None
    /\ Goto(t, IF pc[t] = "queueing" THEN "blocked" ELSE "blockedFor")
    /\ UNCHANGED <<fifos, message>>

\* PushBack throws when the queue is full: the pipe is removed and the caller keeps its
\* mutex.
QueueSelf(t) ==
    /\ pc[t] \in {"queueing", "queueingFor"}
    /\ queueMutex' = None
    /\ \/ Deque!PushBack(t) /\ Block(t)
       \/ /\ Len(queue) = Capacity
          /\ RemoveFifo(t)
          /\ Goto(t, "critical")
          /\ UNCHANGED <<mutex, queue>>
    /\ UNCHANGED <<popped, history>>

ReadMessage(t) ==
    /\ t \in Blocked /\ t \in message
    /\ message' = message \ {t}
    /\ Goto(t, "relock")
    /\ lost' = lost \ {t}
    /\ UNCHANGED <<mutex, queueMutex, queue, fifos, popped, notified, gaveUp, orphans>>

\* The timeout: the id stays in the queue.
TimeOut(t) ==
    /\ pc[t] = "blockedFor" /\ t \notin message
    /\ Goto(t, "relock")
    /\ gaveUp' = gaveUp \union {t}
    /\ lost' = lost \ {t}
    /\ UNCHANGED <<mutex, queueMutex, queue, fifos, message, popped, notified, orphans>>

\* poll fails, because of a signal for example: the call throws without any mutex, and
\* the id stays in the queue.  A message may have come since.
PollFails(t) ==
    /\ t \in Blocked
    /\ RemoveFifo(t)
    /\ Goto(t, "idle")
    /\ gaveUp' = gaveUp \union {t}
    /\ lost' = lost \ {t}
    /\ UNCHANGED <<mutex, queueMutex, queue, popped, notified, orphans>>

\* The queue's mutex is taken first, the user's mutex while it is held.
LockQueue(t) ==
    /\ pc[t] = "relock" /\ queueMutex = None
    /\ queueMutex' = t
    /\ Goto(t, "relockMutex")
    /\ UNCHANGED <<mutex, queue, fifos, message, popped, history>>

\* Fault: the path is left behind.
EndWaitKeepingFifo(t) ==
    /\ pc[t] = "relockMutex" /\ mutex = None
    /\ mutex' = t
    /\ queueMutex' = None
    /\ Goto(t, "critical")
    /\ UNCHANGED <<queue, fifos, message, popped, history>>

\* The pipe is removed before the queue's mutex is released.
EndWait(t) ==
    /\ pc[t] = "relockMutex" /\ mutex = None
    /\ mutex' = t
    /\ queueMutex' = None
    /\ RemoveFifo(t)
    /\ Goto(t, "critical")
    /\ UNCHANGED <<queue, popped, history>>

-----------------------------------------------------------------------------
(* NotifyOne and NotifyAll                                                 *)

\* Fault: the id stays in the queue.
PopWaiterKeepingIt(t) ==
    /\ \/ pc[t] = "NotifyOne" /\ Goto(t, "sendOne")
       \/ pc[t] = "NotifyAll" /\ Goto(t, "sendAll")
    /\ queueMutex \in {None, t}
    /\ queue # <<>> /\ UNCHANGED queue
    /\ queueMutex' = t
    /\ popped' = [popped EXCEPT ![t] = Head(queue)]
    /\ UNCHANGED <<mutex, fifos, message, history>>

PopWaiter(t) ==
    /\ \/ pc[t] = "NotifyOne" /\ Goto(t, "sendOne")
       \/ pc[t] = "NotifyAll" /\ Goto(t, "sendAll")
    /\ queueMutex \in {None, t}
    /\ Deque!Pop
    /\ queueMutex' = t
    /\ popped' = [popped EXCEPT ![t] = Head(queue)]
    /\ UNCHANGED <<mutex, fifos, message, history>>

\* Fault: the loop of NotifyAll ends after the first id.
ContinueNotifyOnce(t) ==
    /\ queueMutex' = None
    /\ Goto(t, Home(t))

\* NotifyOne is done with one id, NotifyAll goes on and keeps the queue's mutex.
ContinueNotify(t) ==
    IF pc[t] = "sendAll"
      THEN Goto(t, "NotifyAll") /\ UNCHANGED queueMutex
      ELSE Goto(t, Home(t)) /\ queueMutex' = None

\* Fault: nothing is written.
SendMessageNever(t) ==
    /\ pc[t] \in {"sendOne", "sendAll"}
    /\ popped[t] \in fifos
    /\ popped' = [popped EXCEPT ![t] = None]
    /\ ContinueNotify(t)
    /\ UNCHANGED <<mutex, queue, fifos, message, history>>

\* The pipe is opened by its path and written.  What is written is gone when nobody else
\* has the pipe open.
SendMessage(t) ==
    /\ pc[t] \in {"sendOne", "sendAll"}
    /\ popped[t] \in fifos
    /\ message' = IF pc[popped[t]] \in Waiting THEN message \union {popped[t]} ELSE message
    /\ notified' = notified \union {popped[t]}
    /\ popped' = [popped EXCEPT ![t] = None]
    /\ ContinueNotify(t)
    /\ UNCHANGED <<mutex, queue, fifos, gaveUp, lost, orphans>>

\* open fails, always when there is no such path and perhaps for one that exists (no
\* descriptors left): the call throws and the id is gone, NotifyAll leaves the other ids
\* queued.
SendFails(t) ==
    /\ pc[t] \in {"sendOne", "sendAll"}
    /\ LoseId(t)
    /\ popped' = [popped EXCEPT ![t] = None]
    /\ queueMutex' = None
    /\ Goto(t, Home(t))
    /\ UNCHANGED <<mutex, queue, fifos, message, notified, gaveUp, orphans>>

\* The queue is empty: nobody waits, or NotifyAll has notified everybody.
EndNotify(t) ==
    /\ pc[t] \in {"NotifyOne", "NotifyAll"}
    /\ queueMutex \in {None, t} /\ queue = <<>>
    /\ queueMutex' = None
    /\ Goto(t, Home(t))
    /\ UNCHANGED <<mutex, queue, fifos, message, popped, history>>

-----------------------------------------------------------------------------
Step(t) ==
    \/ Lock(t) \/ Unlock(t)
    \/ \E c \in Calls : Call(t, c)
    \/ CreateFifo(t) \/ RefuseWait(t) \/ OpenOwnFails(t) \/ QueueSelf(t)
    \/ ReadMessage(t) \/ TimeOut(t) \/ PollFails(t)
    \/ LockQueue(t) \/ EndWait(t)
    \/ PopWaiter(t) \/ SendMessage(t) \/ SendFails(t) \/ EndNotify(t)
    \/ Die(t) \/ Restart(t)

Next == \E t \in Threads : Step(t)

Spec == Init /\ [][Next]_vars

-----------------------------------------------------------------------------
(* Properties                                                              *)

\* Mutexes, queue, pipes and program counters stay well formed.
TypeOK ==
    /\ mutex \in Threads \union {None}
    /\ queueMutex \in Threads \union {None}
    /\ queue \in Seq(Threads) /\ Len(queue) <= Capacity
    /\ fifos \in SUBSET Threads
    /\ message \in SUBSET Threads
    /\ pc \in [Threads -> Locations]
    /\ popped \in [Threads -> Threads \union {None}]
    /\ notified \in SUBSET Threads
    /\ gaveUp \in SUBSET Threads
    /\ lost \in SUBSET Threads
    /\ orphans \in SUBSET Threads

\* Some thread is about to open the pipe of t.
InHand(t) == \E u \in Threads : popped[u] = t

\* No waiter is forgotten between giving up the mutex and the poll (lines 87-96 against
\* 57-66 and 71-78), nor by a NotifyAll that throws at the id before it: the id of a
\* blocked thread is queued or in the hands of a notifier, or its pipe has a message.
\* A waiter is lost only with the notifier that has taken its id, which dies before the
\* write or cannot open the pipe.
WaiterReachable ==
    \A t \in Blocked : t \in ToSet(queue) \/ InHand(t) \/ t \in message \/ t \in lost

\* A thread does not leave a wait because of an earlier notification: the pipe is a new
\* one for each wait (lines 85 and 107), and has a message only if a notification took
\* the id of the thread from the queue since.
WokenByNotification == \A t \in Blocked : t \in message => t \in notified

\* Unless a thread has timed out, failed or died, an id is in the queue exactly while its
\* thread waits for a message.
QueueIsWaiters ==
    /\ \A i \in 1..Len(queue) :
           queue[i] \in gaveUp \/ (queue[i] \in Blocked /\ queue[i] \notin message)
    /\ \A i, j \in 1..Len(queue) : queue[i] = queue[j] /\ i # j => queue[i] \in gaveUp

\* A path exists during a wait and not longer, so that the next wait of the thread can
\* create it again (lines 85 and 107, FiFo.hpp lines 89 and 105-111), but for those of
\* the threads that died in a wait or failed to open what they had created (FiFo.hpp
\* line 103): these do not get into a wait again.
FifosOfWaits ==
    LET waiting == {t \in Threads : pc[t] \in Waiting}
    IN  fifos = waiting \union orphans /\ waiting \intersect orphans = {}

\* From the moment a notifier has taken an id until it opens the pipe (lines 61-64 and
\* 73-76), unless the thread has timed out, failed or died, the thread is blocked, its
\* path is there and no other notification has been sent to it.  A notification finds
\* no path only at a deserter's id; if open fails elsewhere it is for another reason.
DesertersOnlyMissed ==
    \A t \in Threads :
        popped[t] # None =>
            popped[t] \in gaveUp \/ popped[t] \in (Blocked \intersect fifos) \ message

\* A NotifyAll that returns without an exception has notified whoever was in the queue,
\* although each pipe is written on its own (lines 72-78).
NotifyAllReachesAll ==
    \A t \in Threads :
        /\ pc[t] \in {"NotifyAll", "sendAll"} /\ pc'[t] \in {"idle", "critical"}
        /\ ~SendFails(t)
        => \A u \in Blocked : u \in notified' \/ u \in lost
=============================================================================
