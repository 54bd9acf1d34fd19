---------------------- MODULE ConditionVariable_proofs ----------------------
(***************************************************************************)
(* The condition variables on Windows and on macOS forget no waiter, for   *)
(* any number of threads, processes that die and any size of the queue,    *)
(* and on macOS leave no pipe behind and stop at no faithful waiter.  The  *)
(* two keep their waiters in the same queue.                               *)
(***************************************************************************)
EXTENDS ConditionVariable, SequenceTheorems, TLAPS

USE ThreadsAssumption, CapacityAssumption

-----------------------------------------------------------------------------
(* The queue                                                               *)

\* What the operations of the deque do to the queued ids and their places.
LEMMA PushBackResult ==
    ASSUME queue \in Seq(Threads), Len(queue) <= Capacity,
           NEW t \in Threads, Deque!PushBack(t)
    PROVE  /\ queue' \in Seq(Threads) /\ Len(queue') <= Capacity
           /\ Len(queue') = Len(queue) + 1 /\ queue'[Len(queue')] = t
           /\ \A i \in 1..Len(queue) : queue'[i] = queue[i]
           /\ ToSet(queue') = ToSet(queue) \union {t}
  <1>1. /\ queue \in Seq(Threads) /\ Len(queue) < Capacity
        /\ queue' = Append(queue, t)
    BY DEF Deque!PushBack
  <1>2. /\ queue' \in Seq(Threads)
        /\ Len(queue') = Len(queue) + 1
        /\ queue'[Len(queue')] = t
        /\ \A i \in 1..Len(queue) : queue'[i] = queue[i]
    BY <1>1
  <1>. QED  BY <1>1, <1>2 DEF ToSet

LEMMA PopResult ==
    ASSUME queue \in Seq(Threads), Len(queue) <= Capacity, Deque!Pop
    PROVE  /\ queue' \in Seq(Threads) /\ Len(queue') <= Capacity
           /\ Head(queue) \in Threads /\ Len(queue) > 0 /\ Head(queue) = queue[1]
           /\ Len(queue') = Len(queue) - 1
           /\ \A i \in 1..Len(queue') : queue'[i] = queue[i + 1]
           /\ ToSet(queue) = ToSet(queue') \union {Head(queue)}
  <1>1. queue \in Seq(Threads) /\ queue # <<>> /\ queue' = Tail(queue) /\ Len(queue) <= Capacity
    BY DEF Deque!Pop
  <1>2. /\ queue' \in Seq(Threads) /\ Head(queue) \in Threads
        /\ Len(queue') = Len(queue) - 1
        /\ \A i \in 1..Len(queue') : queue'[i] = queue[i + 1]
    BY <1>1, HeadTailProperties
  <1>3. Len(queue) > 0 /\ Head(queue) = queue[1]
    BY <1>1
  <1>4. ASSUME NEW i \in 1..Len(queue)
        PROVE  queue[i] \in ToSet(queue') \union {Head(queue)}
    <2>1. CASE i = 1
      BY <1>3, <2>1
    <2>2. CASE i # 1
      <3>1. i - 1 \in 1..Len(queue') /\ queue'[i - 1] = queue[i]
        BY <1>1, <1>2, <2>2
      <3>. QED  BY <3>1, <1>2 DEF ToSet
    <2>. QED  BY <2>1, <2>2
  <1>5. ASSUME NEW i \in 1..Len(queue')
        PROVE  queue'[i] \in ToSet(queue)
    <2>1. i + 1 \in 1..Len(queue)
      BY <1>1, <1>2
    <2>. QED  BY <1>1, <1>2, <2>1 DEF ToSet
  <1>6. Head(queue) \in ToSet(queue)
    BY <1>1, <1>3 DEF ToSet
  <1>7. /\ ToSet(queue) = {queue[i] : i \in 1..Len(queue)}
        /\ ToSet(queue') = {queue'[i] : i \in 1..Len(queue')}
    <2>1. DOMAIN queue = 1..Len(queue) /\ DOMAIN queue' = 1..Len(queue')
      BY <1>1, <1>2
    <2>. QED  BY <2>1, Zenon DEF ToSet
  <1>8. ToSet(queue) \subseteq ToSet(queue') \union {Head(queue)}
    BY <1>4, <1>7
  <1>9. ToSet(queue') \subseteq ToSet(queue)
    BY <1>5, <1>7
  <1>. QED  BY <1>1, <1>2, <1>3, <1>6, <1>8, <1>9

LEMMA RemoveResult ==
    ASSUME TypeOK, NEW t \in Threads, Deque!Remove(t)
    PROVE  /\ queue' \in Seq(Threads) /\ Len(queue') <= Capacity
           /\ ToSet(queue) \subseteq ToSet(queue') \union {t}
           /\ Len(queue') = Len(queue) - 1
           /\ \E k \in 1..Len(queue) : \A i \in 1..Len(queue') :
                 queue'[i] = IF i = k THEN queue[Len(queue)] ELSE queue[i]
  <1>1. queue \in Seq(Threads) /\ Len(queue) <= Capacity
    BY DEF TypeOK
  <1>2. PICK k \in 1..Len(queue) :
            /\ queue[k] = t
            /\ queue' = SubSeq([queue EXCEPT ![k] = queue[Len(queue)]], 1, Len(queue) - 1)
    BY DEF Deque!Remove
  <1>. DEFINE swapped == [queue EXCEPT ![k] = queue[Len(queue)]]
  <1>3. /\ swapped \in Seq(Threads) /\ Len(swapped) = Len(queue)
        /\ \A i \in 1..Len(queue) : swapped[i] = IF i = k THEN queue[Len(queue)] ELSE queue[i]
    BY <1>1, ExceptSeq
  <1>4. /\ queue' \in Seq(Threads) /\ Len(queue') = Len(queue) - 1
        /\ \A i \in 1..Len(queue') : queue'[i] = swapped[i]
    <2>. HIDE DEF swapped
    <2>. QED  BY <1>1, <1>2, <1>3
  <1>5. ASSUME NEW i \in 1..Len(queue)
        PROVE  queue[i] \in ToSet(queue') \union {t}
    <2>1. CASE i = k
      BY <1>2, <2>1
    <2>2. CASE i # k /\ i = Len(queue)
      <3>1. k \in 1..Len(queue') /\ queue'[k] = queue[i]
        BY <1>1, <1>3, <1>4, <2>2
      <3>. QED  BY <1>4, <3>1 DEF ToSet
    <2>3. CASE i # k /\ i # Len(queue)
      <3>1. i \in 1..Len(queue') /\ queue'[i] = queue[i]
        BY <1>1, <1>3, <1>4, <2>3
      <3>. QED  BY <1>4, <3>1 DEF ToSet
    <2>. QED  BY <2>1, <2>2, <2>3
  <1>6. \A i \in 1..Len(queue') : queue'[i] = IF i = k THEN queue[Len(queue)] ELSE queue[i]
    BY <1>1, <1>3, <1>4
  <1>7. ToSet(queue) \subseteq ToSet(queue') \union {t}
    BY <1>1, <1>5 DEF ToSet
  <1>. HIDE DEF swapped
  <1>. QED  BY <1>1, <1>4, <1>6, <1>7

-----------------------------------------------------------------------------
(* Windows: the inductive invariant                                        *)

\* A thread has an id in its hands between Pop and ReleaseSemaphore only.
PoppedInPlace ==
    \A t \in Threads : popped[t] # None <=> pc[t] \in {"releaseOne", "releaseAll"}

IInv ==
    /\ TypeOK
    /\ PoppedInPlace
    /\ WaiterReachable

LEMMA InitInv == Init => IInv
  BY DEF Init, IInv, TypeOK, PoppedInPlace, WaiterReachable, Blocked, Locations, Results

\* Each step preserves the types.
LEMMA StepType ==
    ASSUME TypeOK, PoppedInPlace, Next
    PROVE  TypeOK'
  <1>. PICK t \in Threads :
           \/ Lock(t) \/ Unlock(t)
           \/ \E c \in Calls : Call(t, c)
           \/ Proceed(t)
           \/ NoSemaphore(t) \/ ReleaseFails(t)
           \/ GiveUp(t)
           \/ Die(t)
    BY DEF Next
  <1>. USE DEF TypeOK, history, Goto, Locations, Calls
  <1>1. CASE Lock(t) \/ Unlock(t) \/ \E c \in Calls : Call(t, c)
    BY <1>1 DEF Lock, Unlock, Call
  <1>2. CASE BeginWait(t)
    BY <1>2, PushBackResult DEF BeginWait, GetSemaphore
  <1>3. CASE RefuseWait(t) \/ NoSemaphore(t) \/ WakeUp(t)
    BY <1>3 DEF RefuseWait, NoSemaphore, WakeUp, GetSemaphore, Results
  <1>4. CASE LockQueue(t)
    BY <1>4 DEF LockQueue
  <1>5. CASE EndWait(t)
    <2>1. queue' \in Seq(Threads) /\ Len(queue') <= Capacity
      BY <1>5, RemoveResult DEF EndWait, Withdraw
    <2>. QED  BY <1>5, <2>1 DEF EndWait
  <1>6. CASE PopWaiter(t)
    BY <1>6, PopResult DEF PopWaiter
  <1>7. CASE ReleaseWaiter(t)
    BY <1>7 DEF ReleaseWaiter, ContinueNotify, Home, PoppedInPlace
  <1>8. CASE EndNotify(t)
    BY <1>8 DEF EndNotify, Home
  <1>9. CASE GiveUp(t)
    BY <1>9 DEF GiveUp, Results
  <1>10. CASE Die(t)
    BY <1>10 DEF Die, LoseId, Blocked
  <1>11. CASE ReleaseFails(t)
    BY <1>11 DEF ReleaseFails, LoseId, Blocked, Home
  <1>. QED  BY <1>1, <1>2, <1>3, <1>4, <1>5, <1>6, <1>7, <1>8, <1>9, <1>10, <1>11
        DEF Proceed

LEMMA StepPopped ==
    ASSUME TypeOK, PoppedInPlace, Next
    PROVE  PoppedInPlace'
  <1>. PICK t \in Threads :
           \/ Lock(t) \/ Unlock(t)
           \/ \E c \in Calls : Call(t, c)
           \/ Proceed(t)
           \/ NoSemaphore(t) \/ ReleaseFails(t)
           \/ GiveUp(t)
           \/ Die(t)
    BY DEF Next
  <1>. USE DEF TypeOK, PoppedInPlace, history, Goto, Calls
  <1>1. CASE Lock(t) \/ Unlock(t) \/ \E c \in Calls : Call(t, c)
    BY <1>1 DEF Lock, Unlock, Call
  <1>2. CASE BeginWait(t) \/ RefuseWait(t) \/ NoSemaphore(t) \/ WakeUp(t)
    BY <1>2 DEF BeginWait, RefuseWait, NoSemaphore, WakeUp, Blocked
  <1>3. CASE LockQueue(t) \/ EndWait(t) \/ GiveUp(t)
    BY <1>3 DEF LockQueue, EndWait, GiveUp, Blocked
  <1>4. CASE PopWaiter(t)
    BY <1>4, PopResult DEF PopWaiter
  <1>5. CASE ReleaseWaiter(t) \/ ReleaseFails(t)
    BY <1>5 DEF ReleaseWaiter, ReleaseFails, ContinueNotify, Home
  <1>6. CASE EndNotify(t)
    BY <1>6 DEF EndNotify, Home
  <1>7. CASE Die(t)
    BY <1>7 DEF Die
  <1>. QED  BY <1>1, <1>2, <1>3, <1>4, <1>5, <1>6, <1>7 DEF Proceed

\* A step that leaves the queue, the semaphores and the popped ids to the threads
\* that are still blocked keeps them reachable.
LEMMA StillReachable ==
    ASSUME WaiterReachable,
           Blocked' \subseteq Blocked,
           \A u \in Blocked' : u \in ToSet(queue) => u \in ToSet(queue'),
           \A u \in Blocked' : semaphore[u] = 1 => semaphore'[u] = 1,
           \A u \in Blocked' : InHand(u) => InHand(u)' \/ semaphore'[u] = 1 \/ u \in lost',
           \A u \in Blocked' : u \in lost => u \in lost'
    PROVE  WaiterReachable'
  BY DEF WaiterReachable

\* The same for a step of t that puts t itself into the queue.
LEMMA OthersStillReachable ==
    ASSUME WaiterReachable, NEW t, t \in ToSet(queue'),
           \A u \in Blocked' : u # t =>
               /\ u \in Blocked
               /\ u \in ToSet(queue) => u \in ToSet(queue')
               /\ semaphore'[u] = semaphore[u]
               /\ InHand(u) => InHand(u)'
               /\ u \in lost => u \in lost'
    PROVE  WaiterReachable'
  BY DEF WaiterReachable

LEMMA StepReachable ==
    ASSUME TypeOK, PoppedInPlace, WaiterReachable, Next
    PROVE  WaiterReachable'
  <1>. PICK t \in Threads :
           \/ Lock(t) \/ Unlock(t)
           \/ \E c \in Calls : Call(t, c)
           \/ Proceed(t)
           \/ NoSemaphore(t) \/ ReleaseFails(t)
           \/ GiveUp(t)
           \/ Die(t)
    BY DEF Next
  <1>. USE DEF TypeOK, history, Goto, Calls, Blocked
  <1>1. CASE Lock(t) \/ Unlock(t) \/ \E c \in Calls : Call(t, c)
    BY <1>1, StillReachable DEF Lock, Unlock, Call, InHand
  <1>2. CASE BeginWait(t)
    <2>1. ToSet(queue) \subseteq ToSet(queue') /\ t \in ToSet(queue')
      BY <1>2, PushBackResult DEF BeginWait
    <2>2. \A u \in Blocked' : u # t =>
              /\ u \in Blocked
              /\ semaphore'[u] = semaphore[u]
              /\ InHand(u) => InHand(u)'
              /\ u \in lost => u \in lost'
      BY <1>2 DEF BeginWait, GetSemaphore, InHand
    <2>. QED
      <3>. HIDE DEF Blocked
      <3>. QED  BY <2>1, <2>2, OthersStillReachable
  <1>3. CASE RefuseWait(t) \/ NoSemaphore(t)
    BY <1>3, StillReachable DEF RefuseWait, NoSemaphore, GetSemaphore, InHand
  <1>4. CASE WakeUp(t)
    BY <1>4, StillReachable DEF WakeUp, InHand
  <1>5. CASE LockQueue(t) \/ GiveUp(t)
    BY <1>5, StillReachable DEF LockQueue, GiveUp, InHand
  <1>6. CASE EndWait(t)
    <2>1. ToSet(queue) \subseteq ToSet(queue') \union {t}
      BY <1>6, RemoveResult DEF EndWait, Withdraw
    <2>. QED  BY <1>6, <2>1, StillReachable DEF EndWait, InHand
  <1>7. CASE PopWaiter(t)
    <2>1. ToSet(queue) \subseteq ToSet(queue') \union {Head(queue)}
      BY <1>7, PopResult DEF PopWaiter
    <2>2. popped[t] = None
      BY <1>7 DEF PopWaiter, PoppedInPlace
    <2>3. popped'[t] = Head(queue) /\ \A u \in Threads : u # t => popped'[u] = popped[u]
      BY <1>7 DEF PopWaiter
    <2>4. \A u \in Threads : InHand(u) => InHand(u)'
      BY <2>2, <2>3 DEF InHand
    <2>5. \A u \in Threads : u = Head(queue) => InHand(u)'
      BY <2>3 DEF InHand
    <2>6. Blocked' \subseteq Blocked /\ semaphore' = semaphore /\ lost' = lost
      BY <1>7 DEF PopWaiter
    <2>7. \A u \in Blocked' : u \in ToSet(queue') \/ InHand(u)' \/ semaphore'[u] = 1 \/ u \in lost'
      BY <2>1, <2>4, <2>5, <2>6 DEF WaiterReachable
    <2>. QED  BY <2>7 DEF WaiterReachable
  <1>8. CASE ReleaseWaiter(t)
    <2>1. popped[t] \in Threads /\ semaphore'[popped[t]] = 1
      BY <1>8 DEF ReleaseWaiter, PoppedInPlace
    <2>2. \A u \in Threads : InHand(u) => InHand(u)' \/ semaphore'[u] = 1
      BY <1>8, <2>1 DEF ReleaseWaiter, InHand
    <2>3. \A u \in Threads : semaphore[u] = 1 => semaphore'[u] = 1
      BY <1>8 DEF ReleaseWaiter
    <2>4. Blocked' \subseteq Blocked /\ queue' = queue /\ lost' = lost
      BY <1>8 DEF ReleaseWaiter, ContinueNotify, Home
    <2>. QED  BY <2>2, <2>3, <2>4, StillReachable
  <1>9. CASE EndNotify(t)
    BY <1>9, StillReachable DEF EndNotify, Home, InHand
  <1>10. CASE Die(t)
    <2>1. \A u \in Blocked' : InHand(u) => InHand(u)' \/ u \in lost'
      BY <1>10 DEF Die, LoseId, InHand
    <2>2. /\ Blocked' \subseteq Blocked /\ queue' = queue /\ semaphore' = semaphore
          /\ \A u \in Blocked' : u \in lost => u \in lost'
      BY <1>10 DEF Die, LoseId
    <2>. QED  BY <2>1, <2>2, StillReachable
  <1>11. CASE ReleaseFails(t)
    <2>1. \A u \in Blocked' : InHand(u) => InHand(u)' \/ u \in lost'
      BY <1>11 DEF ReleaseFails, LoseId, Home, InHand
    <2>2. /\ Blocked' \subseteq Blocked /\ queue' = queue /\ semaphore' = semaphore
          /\ \A u \in Blocked' : u \in lost => u \in lost'
      BY <1>11 DEF ReleaseFails, LoseId, Home
    <2>. QED  BY <2>1, <2>2, StillReachable
  <1>. QED  BY <1>1, <1>2, <1>3, <1>4, <1>5, <1>6, <1>7, <1>8, <1>9, <1>10, <1>11
        DEF Proceed

LEMMA StepInv == IInv /\ [Next]_vars => IInv'
  <1>. SUFFICES ASSUME IInv, [Next]_vars
                PROVE  IInv'
    OBVIOUS
  <1>1. CASE Next
    BY <1>1, StepType, StepPopped, StepReachable DEF IInv
  <1>2. CASE UNCHANGED vars
    BY <1>2 DEF vars, history, IInv, TypeOK, PoppedInPlace, WaiterReachable, Blocked,
                InHand
  <1>. QED  BY <1>1, <1>2

-----------------------------------------------------------------------------
(* Windows: who is in the queue                                            *)

\* Who is in the middle of a change of the queue has its mutex.
QueueLocked ==
    \A t \in Threads : pc[t] \in {"relockMutex", "releaseOne", "releaseAll"} => queueMutex = t

\* The id of a thread that never gave up a wait is in one place: at most once in the
\* queue or with one notifier, and then the thread is still to be notified.
Loyal ==
    \A x \in Threads \ gaveUp :
        /\ \A i \in 1..Len(queue) : queue[i] = x => x \in Blocked /\ x \notin notified
        /\ InHand(x) => x \in Blocked /\ x \notin notified
        /\ InHand(x) => \A i \in 1..Len(queue) : queue[i] # x
        /\ \A u, v \in Threads : popped[u] = x /\ popped[v] = x => u = v
        /\ \A i, j \in 1..Len(queue) : queue[i] = x /\ queue[j] = x => i = j

QueueInv ==
    /\ QueueLocked
    /\ WokenByNotification
    /\ Loyal

LEMMA StepLocked ==
    ASSUME TypeOK, QueueLocked, Next
    PROVE  QueueLocked'
  <1>. PICK t \in Threads :
           \/ Lock(t) \/ Unlock(t)
           \/ \E c \in Calls : Call(t, c)
           \/ Proceed(t)
           \/ NoSemaphore(t) \/ ReleaseFails(t)
           \/ GiveUp(t)
           \/ Die(t)
    BY DEF Next
  <1>. USE DEF TypeOK, QueueLocked, history, Goto, Calls, Blocked, Home
  <1>1. CASE Lock(t) \/ Unlock(t) \/ \E c \in Calls : Call(t, c)
    BY <1>1 DEF Lock, Unlock, Call
  <1>2. CASE BeginWait(t) \/ RefuseWait(t) \/ NoSemaphore(t) \/ WakeUp(t)
    BY <1>2 DEF BeginWait, RefuseWait, NoSemaphore, WakeUp
  <1>3. CASE LockQueue(t) \/ EndWait(t) \/ GiveUp(t)
    BY <1>3 DEF LockQueue, EndWait, GiveUp
  <1>4. CASE PopWaiter(t) \/ ReleaseWaiter(t) \/ ReleaseFails(t) \/ EndNotify(t)
    BY <1>4 DEF PopWaiter, ReleaseWaiter, ReleaseFails, EndNotify, ContinueNotify
  <1>5. CASE Die(t)
    BY <1>5 DEF Die
  <1>. QED  BY <1>1, <1>2, <1>3, <1>4, <1>5 DEF Proceed

LEMMA StepWoken ==
    ASSUME TypeOK, PoppedInPlace, WokenByNotification, Next
    PROVE  WokenByNotification'
  <1>. PICK t \in Threads :
           \/ Lock(t) \/ Unlock(t)
           \/ \E c \in Calls : Call(t, c)
           \/ Proceed(t)
           \/ NoSemaphore(t) \/ ReleaseFails(t)
           \/ GiveUp(t)
           \/ Die(t)
    BY DEF Next
  <1>. USE DEF TypeOK, WokenByNotification, history, Goto, Calls, Blocked, Home
  <1>1. CASE Lock(t) \/ Unlock(t) \/ \E c \in Calls : Call(t, c)
    BY <1>1 DEF Lock, Unlock, Call
  <1>2. CASE BeginWait(t) \/ RefuseWait(t) \/ NoSemaphore(t) \/ WakeUp(t)
    BY <1>2 DEF BeginWait, RefuseWait, NoSemaphore, WakeUp, GetSemaphore
  <1>3. CASE LockQueue(t) \/ EndWait(t) \/ GiveUp(t)
    BY <1>3 DEF LockQueue, EndWait, GiveUp
  <1>4. CASE PopWaiter(t) \/ ReleaseFails(t) \/ EndNotify(t)
    BY <1>4 DEF PopWaiter, ReleaseFails, EndNotify
  <1>5. CASE ReleaseWaiter(t)
    BY <1>5 DEF ReleaseWaiter, ContinueNotify, PoppedInPlace
  <1>6. CASE Die(t)
    BY <1>6 DEF Die
  <1>. QED  BY <1>1, <1>2, <1>3, <1>4, <1>5, <1>6 DEF Proceed

\* A step that moves no id, but may drop some, keeps what is known of the loyal threads
\* as long as they stay blocked and unnotified.
LEMMA StillLoyal ==
    ASSUME Loyal, queue' = queue, gaveUp \subseteq gaveUp',
           \A u \in Threads : popped'[u] \in {popped[u], None},
           \A x \in Threads \ gaveUp' :
               (\E i \in 1..Len(queue) : queue[i] = x) \/ InHand(x)' =>
                   x \in Blocked' /\ x \notin notified'
    PROVE  Loyal'
  <1>1. \A x \in Threads : InHand(x)' => InHand(x)
    BY DEF InHand
  <1>. QED  BY <1>1 DEF Loyal

LEMMA StepLoyal ==
    ASSUME TypeOK, PoppedInPlace, WokenByNotification, Loyal, Next
    PROVE  Loyal'
  <1>. PICK t \in Threads :
           \/ Lock(t) \/ Unlock(t)
           \/ \E c \in Calls : Call(t, c)
           \/ Proceed(t)
           \/ NoSemaphore(t) \/ ReleaseFails(t)
           \/ GiveUp(t)
           \/ Die(t)
    BY DEF Next
  <1>. USE DEF TypeOK, history, Goto, Calls
  <1>1. CASE Lock(t) \/ Unlock(t) \/ \E c \in Calls : Call(t, c)
    <2>1. /\ queue' = queue /\ popped' = popped /\ notified' = notified /\ gaveUp' = gaveUp
          /\ Blocked \subseteq Blocked'
      BY <1>1 DEF Lock, Unlock, Call, Blocked
    <2>. QED  BY <2>1, StillLoyal DEF Loyal, InHand
  <1>2. CASE RefuseWait(t) \/ NoSemaphore(t) \/ LockQueue(t) \/ EndNotify(t)
    <2>1. /\ queue' = queue /\ popped' = popped /\ notified' = notified /\ gaveUp' = gaveUp
          /\ Blocked \subseteq Blocked'
      BY <1>2 DEF RefuseWait, NoSemaphore, LockQueue, EndNotify, Home, Blocked
    <2>. QED  BY <2>1, StillLoyal DEF Loyal, InHand
  <1>3. CASE BeginWait(t)
    <2>1. /\ popped' = popped /\ notified' = notified \ {t} /\ gaveUp' = gaveUp
          /\ Blocked' = Blocked \union {t} /\ t \notin Blocked
      BY <1>3 DEF BeginWait, Blocked
    <2>2. /\ queue \in Seq(Threads) /\ Len(queue') = Len(queue) + 1
          /\ queue'[Len(queue')] = t
          /\ \A i \in 1..Len(queue) : queue'[i] = queue[i]
      BY <1>3, PushBackResult DEF BeginWait
    <2>3. t \notin gaveUp => ~InHand(t) /\ \A i \in 1..Len(queue) : queue[i] # t
      BY <2>1 DEF Loyal
    <2>4. \A i \in 1..Len(queue') :
              \/ i \in 1..Len(queue) /\ queue'[i] = queue[i]
              \/ i = Len(queue') /\ queue'[i] = t
      BY <2>2
    <2>5. \A x \in Threads : InHand(x)' <=> InHand(x)
      BY <2>1 DEF InHand
    <2>6. ASSUME NEW x \in Threads \ gaveUp', NEW i \in 1..Len(queue'), queue'[i] = x
          PROVE  x \in Blocked' /\ x \notin notified' /\ ~InHand(x)'
      <3>1. CASE i \in 1..Len(queue) /\ queue'[i] = queue[i]
        BY <2>1, <2>5, <2>6, <3>1 DEF Loyal
      <3>2. CASE x = t
        BY <2>1, <2>3, <2>5, <3>2
      <3>. QED  BY <2>4, <2>6, <3>1, <3>2
    <2>7. ASSUME NEW x \in Threads \ gaveUp', InHand(x)'
          PROVE  x \in Blocked' /\ x \notin notified'
      BY <2>1, <2>5, <2>7 DEF Loyal
    <2>8. ASSUME NEW x \in Threads \ gaveUp', NEW i \in 1..Len(queue'),
                 NEW j \in 1..Len(queue'),
                 queue'[i] = x, queue'[j] = x
          PROVE  i = j
      <3>1. CASE i \in 1..Len(queue) /\ j \in 1..Len(queue)
        BY <2>1, <2>2, <2>8, <3>1 DEF Loyal
      <3>2. CASE x = t
        BY <2>1, <2>2, <2>3, <2>4, <2>8, <3>2
      <3>. QED  BY <2>4, <2>8, <3>1, <3>2
    <2>9. ASSUME NEW x \in Threads \ gaveUp', NEW u \in Threads, NEW v \in Threads,
                 popped'[u] = x, popped'[v] = x
          PROVE  u = v
      BY <2>1, <2>9 DEF Loyal
    <2>. QED  BY <2>6, <2>7, <2>8, <2>9 DEF Loyal
  <1>4. CASE WakeUp(t)
    <2>1. /\ queue' = queue /\ popped' = popped /\ notified' = notified /\ gaveUp' = gaveUp
          /\ Blocked \ {t} \subseteq Blocked' /\ t \in notified
      BY <1>4 DEF WakeUp, Blocked, WokenByNotification
    <2>. QED  BY <2>1, StillLoyal DEF Loyal, InHand
  <1>5. CASE GiveUp(t) \/ Die(t)
    <2>1. /\ queue' = queue /\ notified' = notified /\ gaveUp' = gaveUp \union {t}
          /\ \A u \in Threads : popped'[u] \in {popped[u], None}
          /\ Blocked \ {t} \subseteq Blocked'
      BY <1>5 DEF GiveUp, Die, Blocked
    <2>. QED  BY <2>1, StillLoyal DEF Loyal, InHand
  <1>6. CASE EndWait(t)
    <2>1. /\ popped' = popped /\ notified' = notified /\ gaveUp' = gaveUp
          /\ Blocked \subseteq Blocked'
      BY <1>6 DEF EndWait, Blocked
    <2>2. CASE queue' = queue
      BY <2>1, <2>2, StillLoyal DEF Loyal, InHand
    <2>3. CASE Deque!Remove(t)
      <3>1. PICK k \in 1..Len(queue) :
                /\ Len(queue') = Len(queue) - 1 /\ queue \in Seq(Threads)
                /\ \A i \in 1..Len(queue') :
                      queue'[i] = IF i = k THEN queue[Len(queue)] ELSE queue[i]
        BY <2>3, RemoveResult
      <3>. DEFINE from(i) == IF i = k THEN Len(queue) ELSE i
      <3>2. \A i \in 1..Len(queue') : from(i) \in 1..Len(queue) /\ queue'[i] = queue[from(i)]
        BY <3>1
      <3>3. \A i, j \in 1..Len(queue') : from(i) = from(j) => i = j
        BY <3>1
      <3>. HIDE DEF from
      <3>4. \A x \in Threads : InHand(x)' <=> InHand(x)
        BY <2>1 DEF InHand
      <3>5. ASSUME NEW x \in Threads \ gaveUp', NEW i \in 1..Len(queue'), queue'[i] = x
            PROVE  x \in Blocked' /\ x \notin notified' /\ ~InHand(x)'
        BY <2>1, <3>2, <3>4, <3>5 DEF Loyal
      <3>6. ASSUME NEW x \in Threads \ gaveUp', InHand(x)'
            PROVE  x \in Blocked' /\ x \notin notified'
        BY <2>1, <3>4, <3>6 DEF Loyal
      <3>7. ASSUME NEW x \in Threads \ gaveUp', NEW i \in 1..Len(queue'),
                   NEW j \in 1..Len(queue'),
                   queue'[i] = x, queue'[j] = x
            PROVE  i = j
        <4>1. from(i) = from(j)
          BY <2>1, <3>2, <3>7 DEF Loyal
        <4>. QED  BY <3>3, <4>1
      <3>8. ASSUME NEW x \in Threads \ gaveUp', NEW u \in Threads, NEW v \in Threads,
                   popped'[u] = x, popped'[v] = x
            PROVE  u = v
        BY <2>1, <3>8 DEF Loyal
      <3>. QED  BY <3>5, <3>6, <3>7, <3>8 DEF Loyal
    <2>. QED  BY <1>6, <2>2, <2>3 DEF EndWait, Withdraw
  <1>7. CASE PopWaiter(t)
    <2>1. /\ notified' = notified /\ gaveUp' = gaveUp /\ Blocked \subseteq Blocked'
          /\ popped[t] = None /\ popped'[t] = Head(queue)
          /\ \A u \in Threads : u # t => popped'[u] = popped[u]
      BY <1>7, PopResult DEF PopWaiter, PoppedInPlace, Blocked
    <2>2. /\ queue \in Seq(Threads) /\ Head(queue) \in Threads
          /\ Len(queue) > 0 /\ Head(queue) = queue[1]
          /\ Len(queue') = Len(queue) - 1
          /\ \A i \in 1..Len(queue') : queue'[i] = queue[i + 1]
      BY <1>7, PopResult DEF PopWaiter
    <2>3. \A x \in Threads : InHand(x)' <=> InHand(x) \/ x = Head(queue)
      BY <2>1, <2>2 DEF InHand
    <2>4. \A i \in 1..Len(queue') : i + 1 \in 1..Len(queue) /\ i + 1 # 1 /\ 1 \in 1..Len(queue)
      BY <2>2
    <2>5. ASSUME NEW x \in Threads \ gaveUp', NEW i \in 1..Len(queue'),
                 NEW j \in 1..Len(queue'),
                 queue'[i] = x, queue'[j] = x
          PROVE  i = j
      <3>1. i + 1 = j + 1
        BY <2>1, <2>2, <2>4, <2>5 DEF Loyal
      <3>. QED  BY <2>2, <3>1
    <2>6. ASSUME NEW x \in Threads \ gaveUp', x = Head(queue), NEW i \in 1..Len(queue'),
                 queue'[i] = x
          PROVE  FALSE
      BY <2>1, <2>2, <2>4, <2>6 DEF Loyal
    <2>7. ASSUME NEW x \in Threads \ gaveUp', x = Head(queue)
          PROVE  x \in Blocked /\ x \notin notified /\ ~InHand(x)
      BY <2>1, <2>2, <2>7 DEF Loyal
    <2>8. ASSUME NEW x \in Threads \ gaveUp'
          PROVE  /\ \A i \in 1..Len(queue') : queue'[i] = x => x \in Blocked' /\ x \notin notified'
                 /\ InHand(x)' => x \in Blocked' /\ x \notin notified'
                 /\ InHand(x)' => \A i \in 1..Len(queue') : queue'[i] # x
      BY <2>1, <2>2, <2>3, <2>4, <2>6, <2>7 DEF Loyal
    <2>9. ASSUME NEW x \in Threads \ gaveUp', NEW u \in Threads, NEW v \in Threads,
                 popped'[u] = x, popped'[v] = x
          PROVE  u = v
      BY <2>1, <2>7, <2>9 DEF Loyal, InHand
    <2>. QED  BY <2>5, <2>8, <2>9 DEF Loyal
  <1>8. CASE ReleaseWaiter(t)
    <2>1. /\ queue' = queue /\ gaveUp' = gaveUp /\ Blocked \subseteq Blocked'
          /\ notified' = notified \union {popped[t]}
          /\ popped[t] \in Threads /\ popped'[t] = None
          /\ \A u \in Threads : u # t => popped'[u] = popped[u]
      BY <1>8 DEF ReleaseWaiter, ContinueNotify, Home, Blocked, PoppedInPlace
    <2>2. ASSUME NEW x \in Threads \ gaveUp, x = popped[t]
          PROVE  ~InHand(x)' /\ \A i \in 1..Len(queue) : queue[i] # x
      BY <2>1, <2>2 DEF Loyal, InHand
    <2>3. \A x \in Threads : InHand(x)' => InHand(x)
      BY <2>1 DEF InHand
    <2>. QED  BY <2>1, <2>2, <2>3, StillLoyal DEF Loyal
  <1>9. CASE ReleaseFails(t)
    <2>1. /\ queue' = queue /\ notified' = notified /\ gaveUp' = gaveUp
          /\ Blocked \subseteq Blocked'
          /\ \A u \in Threads : popped'[u] \in {popped[u], None}
      BY <1>9 DEF ReleaseFails, Home, Blocked
    <2>. QED  BY <2>1, StillLoyal DEF Loyal, InHand
  <1>. QED  BY <1>1, <1>2, <1>3, <1>4, <1>5, <1>6, <1>7, <1>8, <1>9 DEF Proceed

LEMMA InitQueueInv == Init => QueueInv
  BY DEF Init, QueueInv, QueueLocked, WokenByNotification, Loyal, InHand, Blocked

LEMMA StepQueueInv == IInv /\ QueueInv /\ [Next]_vars => QueueInv'
  <1>. SUFFICES ASSUME IInv, QueueInv, [Next]_vars
                PROVE  QueueInv'
    OBVIOUS
  <1>1. CASE Next
    BY <1>1, StepLocked, StepWoken, StepLoyal DEF IInv, QueueInv
  <1>2. CASE UNCHANGED vars
    BY <1>2 DEF vars, history, QueueInv, QueueLocked, WokenByNotification, Loyal,
                Blocked, InHand
  <1>. QED  BY <1>1, <1>2

\* NotifyAll returns when it finds the queue empty.
LEMMA StepNotifyAll ==
    ASSUME IInv, QueueInv, Next
    PROVE  NotifyAllReachesAll
  <1>. SUFFICES ASSUME NEW t \in Threads, NEW u \in Blocked,
                       pc[t] \in {"NotifyAll", "releaseAll"}, pc'[t] \in {"idle", "critical"},
                       ~ReleaseFails(t)
                PROVE  u \in notified' \/ u \in lost
    BY DEF NotifyAllReachesAll
  <1>. PICK v \in Threads :
           \/ Lock(v) \/ Unlock(v)
           \/ \E c \in Calls : Call(v, c)
           \/ Proceed(v)
           \/ NoSemaphore(v) \/ ReleaseFails(v)
           \/ GiveUp(v)
           \/ Die(v)
    BY DEF Next
  <1>. USE DEF Goto, Blocked
  <1>1. v = t /\ EndNotify(t)
    <2>. USE DEF IInv, TypeOK
    <2>1. CASE Lock(v) \/ Unlock(v) \/ \E c \in Calls : Call(v, c)
      BY <2>1 DEF Lock, Unlock, Call, Calls
    <2>2. CASE BeginWait(v) \/ RefuseWait(v) \/ NoSemaphore(v) \/ WakeUp(v)
      BY <2>2 DEF BeginWait, RefuseWait, NoSemaphore, WakeUp
    <2>3. CASE LockQueue(v) \/ EndWait(v) \/ GiveUp(v)
      BY <2>3 DEF LockQueue, EndWait, GiveUp
    <2>4. CASE PopWaiter(v)
      BY <2>4 DEF PopWaiter
    <2>5. CASE ReleaseWaiter(v) \/ ReleaseFails(v)
      BY <2>5 DEF ReleaseWaiter, ReleaseFails, ContinueNotify, Home
    <2>6. CASE EndNotify(v)
      BY <2>6 DEF EndNotify
    <2>7. CASE Die(v)
      BY <2>7 DEF Die
    <2>. QED  BY <2>1, <2>2, <2>3, <2>4, <2>5, <2>6, <2>7 DEF Proceed
  <1>2. /\ queue = <<>> /\ queueMutex \in {None, t} /\ notified' = notified
    BY <1>1 DEF EndNotify, history
  <1>3. u \notin ToSet(queue)
    BY <1>2 DEF ToSet
  <1>4. ~InHand(u)
    BY <1>1, <1>2 DEF InHand, EndNotify, IInv, TypeOK, PoppedInPlace, QueueInv, QueueLocked
  <1>. QED  BY <1>2, <1>3, <1>4 DEF IInv, WaiterReachable, QueueInv, WokenByNotification

-----------------------------------------------------------------------------
(* macOS: the queue                                                        *)

\* What the operations of the deque do to the queued ids and their places.
LEMMA DarwinPushBackResult ==
    ASSUME Darwin!TypeOK, NEW t \in Threads, Darwin!Deque!PushBack(t)
    PROVE  /\ queue' \in Seq(Threads) /\ Len(queue') <= Capacity
           /\ Len(queue') = Len(queue) + 1 /\ queue'[Len(queue')] = t
           /\ \A i \in 1..Len(queue) : queue'[i] = queue[i]
           /\ ToSet(queue') = ToSet(queue) \union {t}
  BY PushBackResult DEF Darwin!TypeOK, Darwin!Deque!PushBack, Deque!PushBack

LEMMA DarwinPopResult ==
    ASSUME Darwin!TypeOK, Darwin!Deque!Pop
    PROVE  /\ queue' \in Seq(Threads) /\ Len(queue') <= Capacity
           /\ Head(queue) \in Threads /\ Len(queue) > 0 /\ Head(queue) = queue[1]
           /\ Len(queue') = Len(queue) - 1
           /\ \A i \in 1..Len(queue') : queue'[i] = queue[i + 1]
           /\ ToSet(queue) = ToSet(queue') \union {Head(queue)}
  BY PopResult DEF Darwin!TypeOK, Darwin!Deque!Pop, Deque!Pop

-----------------------------------------------------------------------------
(* macOS: the inductive invariant                                          *)

\* A thread has an id in its hands between Pop and the write only.
DarwinPoppedInPlace ==
    \A t \in Threads : popped[t] # None <=> pc[t] \in {"sendOne", "sendAll"}

\* Who is in the middle of a change of the queue has its mutex.
DarwinQueueLocked ==
    \A t \in Threads :
        pc[t] \in {"queueing", "queueingFor", "relockMutex", "sendOne", "sendAll"}
            => queueMutex = t

\* There is a message only in a pipe that exists, since a notification.
DarwinMessageSent == message \subseteq fifos /\ message \subseteq notified

\* The id of a thread that never gave up a wait is in one place: at most once in the
\* queue or with one notifier, and then the thread is still blocked, without a message.
DarwinLoyal ==
    \A x \in Threads \ gaveUp :
        /\ x \in ToSet(queue) \/ Darwin!InHand(x) => x \in Darwin!Blocked /\ x \notin message
        /\ x \in message => x \in Darwin!Blocked
        /\ \A u, v \in Threads : popped[u] = x /\ popped[v] = x => u = v
        /\ Darwin!InHand(x) => x \notin ToSet(queue)
        /\ \A i, j \in 1..Len(queue) : queue[i] = x /\ queue[j] = x => i = j

DarwinInv ==
    /\ Darwin!TypeOK
    /\ DarwinPoppedInPlace
    /\ DarwinQueueLocked
    /\ Darwin!FifosOfWaits
    /\ DarwinMessageSent
    /\ Darwin!WaiterReachable
    /\ DarwinLoyal

LEMMA DarwinInitInv == Darwin!Init => DarwinInv
  <1>. SUFFICES ASSUME Darwin!Init
                PROVE  DarwinInv
    OBVIOUS
  <1>. USE DEF Darwin!Init, Darwin!Blocked, Darwin!InHand, ToSet
  <1>1. Darwin!TypeOK /\ DarwinPoppedInPlace /\ DarwinQueueLocked
    BY DEF Darwin!TypeOK, DarwinPoppedInPlace, DarwinQueueLocked, Darwin!Locations
  <1>2. Darwin!FifosOfWaits /\ DarwinMessageSent
    BY DEF Darwin!FifosOfWaits, DarwinMessageSent, Darwin!Waiting
  <1>3. Darwin!WaiterReachable /\ DarwinLoyal
    BY DEF Darwin!WaiterReachable, DarwinLoyal
  <1>. QED  BY <1>1, <1>2, <1>3 DEF DarwinInv

\* Each step preserves the types.
LEMMA DarwinStepType ==
    ASSUME Darwin!TypeOK, DarwinPoppedInPlace, NEW t \in Threads, Darwin!Step(t)
    PROVE  Darwin!TypeOK'
  <1>. USE DEF Darwin!TypeOK, Darwin!history, Darwin!Goto, Darwin!Locations, Darwin!Calls,
               Darwin!Waiting, Darwin!RemoveFifo
  <1>1. CASE Darwin!Lock(t) \/ Darwin!Unlock(t) \/ \E c \in Darwin!Calls : Darwin!Call(t, c)
    BY <1>1 DEF Darwin!Lock, Darwin!Unlock, Darwin!Call
  <1>2. CASE Darwin!CreateFifo(t) \/ Darwin!RefuseWait(t) \/ Darwin!OpenOwnFails(t)
    BY <1>2 DEF Darwin!CreateFifo, Darwin!RefuseWait, Darwin!OpenOwnFails
  <1>3. CASE Darwin!QueueSelf(t)
    BY <1>3, DarwinPushBackResult DEF Darwin!QueueSelf, Darwin!Block
  <1>4. CASE Darwin!ReadMessage(t) \/ Darwin!TimeOut(t) \/ Darwin!PollFails(t)
    BY <1>4 DEF Darwin!ReadMessage, Darwin!TimeOut, Darwin!PollFails
  <1>5. CASE Darwin!LockQueue(t) \/ Darwin!EndWait(t)
    BY <1>5 DEF Darwin!LockQueue, Darwin!EndWait
  <1>6. CASE Darwin!PopWaiter(t)
    BY <1>6, DarwinPopResult DEF Darwin!PopWaiter
  <1>7. CASE Darwin!SendMessage(t)
    <2>1. popped[t] \in Threads
      BY <1>7 DEF Darwin!SendMessage, DarwinPoppedInPlace
    <2>. QED  BY <1>7, <2>1 DEF Darwin!SendMessage, Darwin!ContinueNotify, Darwin!Home
  <1>8. CASE Darwin!SendFails(t) \/ Darwin!EndNotify(t)
    BY <1>8 DEF Darwin!SendFails, Darwin!LoseId, Darwin!Blocked, Darwin!EndNotify, Darwin!Home
  <1>9. CASE Darwin!Die(t)
    BY <1>9 DEF Darwin!Die, Darwin!LoseId, Darwin!Blocked
  <1>10. CASE Darwin!Restart(t)
    BY <1>10 DEF Darwin!Restart
  <1>. QED  BY <1>1, <1>2, <1>3, <1>4, <1>5, <1>6, <1>7, <1>8, <1>9, <1>10 DEF Darwin!Step

LEMMA DarwinStepPopped ==
    ASSUME Darwin!TypeOK, DarwinPoppedInPlace, NEW t \in Threads, Darwin!Step(t)
    PROVE  DarwinPoppedInPlace'
  <1>. USE DEF Darwin!TypeOK, DarwinPoppedInPlace, Darwin!history, Darwin!Goto,
               Darwin!Calls, Darwin!Blocked, Darwin!Home
  <1>1. CASE Darwin!Lock(t) \/ Darwin!Unlock(t) \/ \E c \in Darwin!Calls : Darwin!Call(t, c)
    BY <1>1 DEF Darwin!Lock, Darwin!Unlock, Darwin!Call
  <1>2. CASE \/ Darwin!CreateFifo(t) \/ Darwin!RefuseWait(t)
             \/ Darwin!OpenOwnFails(t) \/ Darwin!QueueSelf(t)
    BY <1>2 DEF Darwin!CreateFifo, Darwin!RefuseWait, Darwin!OpenOwnFails,
                Darwin!QueueSelf, Darwin!Block
  <1>3. CASE Darwin!ReadMessage(t) \/ Darwin!TimeOut(t) \/ Darwin!PollFails(t)
    BY <1>3 DEF Darwin!ReadMessage, Darwin!TimeOut, Darwin!PollFails
  <1>4. CASE Darwin!LockQueue(t) \/ Darwin!EndWait(t)
    BY <1>4 DEF Darwin!LockQueue, Darwin!EndWait
  <1>5. CASE Darwin!PopWaiter(t)
    BY <1>5, DarwinPopResult DEF Darwin!PopWaiter
  <1>6. CASE Darwin!SendMessage(t) \/ Darwin!SendFails(t) \/ Darwin!EndNotify(t)
    BY <1>6 DEF Darwin!SendMessage, Darwin!SendFails, Darwin!EndNotify,
                Darwin!ContinueNotify
  <1>7. CASE Darwin!Die(t) \/ Darwin!Restart(t)
    BY <1>7 DEF Darwin!Die, Darwin!Restart
  <1>. QED  BY <1>1, <1>2, <1>3, <1>4, <1>5, <1>6, <1>7 DEF Darwin!Step

LEMMA DarwinStepLocked ==
    ASSUME Darwin!TypeOK, DarwinPoppedInPlace, DarwinQueueLocked, NEW t \in Threads,
           Darwin!Step(t)
    PROVE  DarwinQueueLocked'
  <1>. USE DEF Darwin!TypeOK, DarwinQueueLocked, Darwin!history, Darwin!Goto, Darwin!Calls,
               Darwin!Blocked, Darwin!Home
  <1>1. CASE Darwin!Lock(t) \/ Darwin!Unlock(t) \/ \E c \in Darwin!Calls : Darwin!Call(t, c)
    BY <1>1 DEF Darwin!Lock, Darwin!Unlock, Darwin!Call
  <1>2. CASE \/ Darwin!CreateFifo(t) \/ Darwin!RefuseWait(t)
             \/ Darwin!OpenOwnFails(t) \/ Darwin!QueueSelf(t)
    BY <1>2 DEF Darwin!CreateFifo, Darwin!RefuseWait, Darwin!OpenOwnFails,
                Darwin!QueueSelf, Darwin!Block
  <1>3. CASE Darwin!ReadMessage(t) \/ Darwin!TimeOut(t) \/ Darwin!PollFails(t)
    BY <1>3 DEF Darwin!ReadMessage, Darwin!TimeOut, Darwin!PollFails
  <1>4. CASE Darwin!LockQueue(t) \/ Darwin!EndWait(t)
    BY <1>4 DEF Darwin!LockQueue, Darwin!EndWait
  <1>5. CASE Darwin!PopWaiter(t)
    BY <1>5 DEF Darwin!PopWaiter
  <1>6. CASE Darwin!SendMessage(t) \/ Darwin!SendFails(t) \/ Darwin!EndNotify(t)
    BY <1>6 DEF Darwin!SendMessage, Darwin!SendFails, Darwin!EndNotify,
                Darwin!ContinueNotify
  <1>7. CASE Darwin!Die(t) \/ Darwin!Restart(t)
    BY <1>7 DEF Darwin!Die, Darwin!Restart
  <1>. QED  BY <1>1, <1>2, <1>3, <1>4, <1>5, <1>6, <1>7 DEF Darwin!Step

\* The pipes: who has one and what is in it.
LEMMA DarwinStepFifos ==
    ASSUME Darwin!TypeOK, DarwinPoppedInPlace, Darwin!FifosOfWaits, DarwinMessageSent,
           NEW t \in Threads, Darwin!Step(t)
    PROVE  Darwin!FifosOfWaits' /\ DarwinMessageSent'
  <1>. USE DEF Darwin!TypeOK, Darwin!FifosOfWaits, DarwinMessageSent,
               Darwin!history, Darwin!Goto, Darwin!Calls, Darwin!Waiting,
               Darwin!Blocked, Darwin!Home, Darwin!RemoveFifo
  <1>1. CASE Darwin!Lock(t) \/ Darwin!Unlock(t) \/ \E c \in Darwin!Calls : Darwin!Call(t, c)
    BY <1>1 DEF Darwin!Lock, Darwin!Unlock, Darwin!Call
  <1>2. CASE Darwin!CreateFifo(t) \/ Darwin!RefuseWait(t) \/ Darwin!OpenOwnFails(t)
    BY <1>2 DEF Darwin!CreateFifo, Darwin!RefuseWait, Darwin!OpenOwnFails
  <1>3. CASE Darwin!QueueSelf(t)
    BY <1>3 DEF Darwin!QueueSelf, Darwin!Block
  <1>4. CASE Darwin!ReadMessage(t) \/ Darwin!TimeOut(t) \/ Darwin!PollFails(t)
    BY <1>4 DEF Darwin!ReadMessage, Darwin!TimeOut, Darwin!PollFails
  <1>5. CASE Darwin!LockQueue(t) \/ Darwin!EndWait(t)
    BY <1>5 DEF Darwin!LockQueue, Darwin!EndWait
  <1>6. CASE \/ Darwin!PopWaiter(t) \/ Darwin!SendMessage(t)
             \/ Darwin!SendFails(t) \/ Darwin!EndNotify(t)
    BY <1>6 DEF Darwin!PopWaiter, Darwin!SendMessage, Darwin!SendFails, Darwin!EndNotify,
                Darwin!ContinueNotify
  <1>7. CASE Darwin!Die(t) \/ Darwin!Restart(t)
    BY <1>7 DEF Darwin!Die, Darwin!Restart
  <1>. QED  BY <1>1, <1>2, <1>3, <1>4, <1>5, <1>6, <1>7 DEF Darwin!Step

\* A step that takes no id from the threads that are still blocked keeps them reachable.
LEMMA DarwinStillReachable ==
    ASSUME Darwin!WaiterReachable,
           Darwin!Blocked' \subseteq Darwin!Blocked,
           \A u \in Darwin!Blocked' :
               /\ u \in ToSet(queue) => u \in ToSet(queue') \/ Darwin!InHand(u)'
               /\ Darwin!InHand(u) => Darwin!InHand(u)' \/ u \in message' \/ u \in lost'
               /\ u \in message => u \in message'
               /\ u \in lost => u \in lost'
    PROVE  Darwin!WaiterReachable'
  BY DEF Darwin!WaiterReachable, Darwin!ToSet, ToSet

LEMMA DarwinStepReachable ==
    ASSUME Darwin!TypeOK, DarwinPoppedInPlace, Darwin!FifosOfWaits, Darwin!WaiterReachable,
           NEW t \in Threads, Darwin!Step(t)
    PROVE  Darwin!WaiterReachable'
  <1>. USE DEF Darwin!TypeOK, Darwin!history, Darwin!Goto, Darwin!Calls, Darwin!Blocked,
               Darwin!RemoveFifo
  <1>1. CASE Darwin!Lock(t) \/ Darwin!Unlock(t) \/ \E c \in Darwin!Calls : Darwin!Call(t, c)
    BY <1>1, DarwinStillReachable DEF Darwin!Lock, Darwin!Unlock, Darwin!Call, Darwin!InHand
  <1>2. CASE Darwin!CreateFifo(t) \/ Darwin!RefuseWait(t) \/ Darwin!OpenOwnFails(t)
    BY <1>2, DarwinStillReachable DEF Darwin!CreateFifo, Darwin!RefuseWait,
                                      Darwin!OpenOwnFails, Darwin!InHand
  <1>3. CASE Darwin!QueueSelf(t)
    <2>1. CASE Darwin!Deque!PushBack(t)
      <3>1. ToSet(queue') = ToSet(queue) \union {t}
        BY <2>1, DarwinPushBackResult
      <3>2. Darwin!Blocked' \subseteq Darwin!Blocked \union {t}
        BY <1>3 DEF Darwin!QueueSelf, Darwin!Block
      <3>3. /\ popped' = popped
             /\ lost' = lost /\ \A u \in Threads : u # t /\ u \in message => u \in message'
        BY <1>3 DEF Darwin!QueueSelf, Darwin!Block
      <3>. QED
        <4>. HIDE DEF Darwin!Blocked
        <4>. QED  BY <3>1, <3>2, <3>3 DEF Darwin!WaiterReachable, Darwin!InHand,
                                          Darwin!ToSet, ToSet
    <2>2. CASE ~Darwin!Deque!PushBack(t)
      BY <1>3, <2>2, DarwinStillReachable DEF Darwin!QueueSelf, Darwin!InHand
    <2>. QED  BY <2>1, <2>2
  <1>4. CASE Darwin!ReadMessage(t) \/ Darwin!TimeOut(t) \/ Darwin!PollFails(t)
    BY <1>4, DarwinStillReachable DEF Darwin!ReadMessage, Darwin!TimeOut, Darwin!PollFails,
                                      Darwin!InHand
  <1>5. CASE Darwin!LockQueue(t) \/ Darwin!EndWait(t)
    BY <1>5, DarwinStillReachable DEF Darwin!LockQueue, Darwin!EndWait, Darwin!InHand
  <1>6. CASE Darwin!PopWaiter(t)
    <2>1. ToSet(queue) = ToSet(queue') \union {Head(queue)}
      BY <1>6, DarwinPopResult DEF Darwin!PopWaiter
    <2>2. popped[t] = None
      BY <1>6 DEF Darwin!PopWaiter, DarwinPoppedInPlace
    <2>3. popped'[t] = Head(queue) /\ \A u \in Threads : u # t => popped'[u] = popped[u]
      BY <1>6 DEF Darwin!PopWaiter
    <2>4. \A u \in Threads : Darwin!InHand(u) => Darwin!InHand(u)'
      BY <2>2, <2>3 DEF Darwin!InHand
    <2>5. \A u \in Threads : u = Head(queue) => Darwin!InHand(u)'
      BY <2>3 DEF Darwin!InHand
    <2>6. Darwin!Blocked' \subseteq Darwin!Blocked /\ message' = message /\ lost' = lost
      BY <1>6 DEF Darwin!PopWaiter
    <2>. QED  BY <2>1, <2>4, <2>5, <2>6, DarwinStillReachable
  <1>7. CASE Darwin!SendMessage(t)
    <2>1. \A u \in Darwin!Blocked : Darwin!InHand(u) => Darwin!InHand(u)' \/ u \in message'
      BY <1>7 DEF Darwin!SendMessage, Darwin!InHand, Darwin!Waiting
    <2>2. /\ Darwin!Blocked' \subseteq Darwin!Blocked /\ message \subseteq message'
          /\ queue' = queue /\ lost' = lost
      BY <1>7 DEF Darwin!SendMessage, Darwin!ContinueNotify, Darwin!Home
    <2>. QED
      <3>. HIDE DEF Darwin!Blocked
      <3>. QED  BY <2>1, <2>2, DarwinStillReachable
  <1>8. CASE Darwin!SendFails(t)
    <2>1. \A u \in Darwin!Blocked' : Darwin!InHand(u) => Darwin!InHand(u)' \/ u \in lost'
      BY <1>8 DEF Darwin!SendFails, Darwin!LoseId, Darwin!Home, Darwin!InHand
    <2>2. /\ Darwin!Blocked' \subseteq Darwin!Blocked
          /\ message' = message /\ queue' = queue
          /\ \A u \in Darwin!Blocked' : u \in lost => u \in lost'
      BY <1>8 DEF Darwin!SendFails, Darwin!LoseId, Darwin!Home
    <2>. QED
      <3>. HIDE DEF Darwin!Blocked
      <3>. QED  BY <2>1, <2>2, DarwinStillReachable
  <1>9. CASE Darwin!EndNotify(t)
    BY <1>9, DarwinStillReachable DEF Darwin!EndNotify, Darwin!Home, Darwin!InHand
  <1>10. CASE Darwin!Die(t)
    <2>1. \A u \in Darwin!Blocked' : Darwin!InHand(u) => Darwin!InHand(u)' \/ u \in lost'
      BY <1>10 DEF Darwin!Die, Darwin!LoseId, Darwin!InHand
    <2>2. /\ Darwin!Blocked' \subseteq Darwin!Blocked /\ queue' = queue
          /\ \A u \in Darwin!Blocked' :
                (u \in message => u \in message') /\ (u \in lost => u \in lost')
      BY <1>10 DEF Darwin!Die, Darwin!LoseId
    <2>. QED  BY <2>1, <2>2, DarwinStillReachable
  <1>11. CASE Darwin!Restart(t)
    BY <1>11, DarwinStillReachable DEF Darwin!Restart, Darwin!InHand
  <1>. QED
    BY <1>1, <1>2, <1>3, <1>4, <1>5, <1>6, <1>7, <1>8, <1>9, <1>10, <1>11 DEF Darwin!Step

\* A step that moves no id, but may drop some, keeps what is known of the loyal threads
\* as long as they stay blocked without a message.
LEMMA DarwinStillLoyal ==
    ASSUME DarwinLoyal, queue' = queue, gaveUp \subseteq gaveUp',
           \A u \in Threads : popped'[u] \in {popped[u], None},
           \A x \in Threads \ gaveUp' :
               /\ x \in ToSet(queue) \/ Darwin!InHand(x)' => x \in Darwin!Blocked' /\ x \notin message'
               /\ x \in message' => x \in Darwin!Blocked'
    PROVE  DarwinLoyal'
  <1>1. \A x \in Threads : Darwin!InHand(x)' => Darwin!InHand(x)
    BY DEF Darwin!InHand
  <1>. QED  BY <1>1 DEF DarwinLoyal

LEMMA DarwinStepLoyal ==
    ASSUME Darwin!TypeOK, DarwinPoppedInPlace, DarwinMessageSent, DarwinLoyal,
           NEW t \in Threads, Darwin!Step(t)
    PROVE  DarwinLoyal'
  <1>. USE DEF Darwin!TypeOK, Darwin!history, Darwin!Goto, Darwin!Calls, Darwin!RemoveFifo
  <1>1. CASE Darwin!Lock(t) \/ Darwin!Unlock(t) \/ \E c \in Darwin!Calls : Darwin!Call(t, c)
    <2>1. queue' = queue /\ popped' = popped /\ message' = message /\ gaveUp' = gaveUp
      BY <1>1 DEF Darwin!Lock, Darwin!Unlock, Darwin!Call
    <2>2. Darwin!Blocked \subseteq Darwin!Blocked'
      BY <1>1 DEF Darwin!Lock, Darwin!Unlock, Darwin!Call, Darwin!Blocked
    <2>. QED  BY <2>1, <2>2, DarwinStillLoyal DEF DarwinLoyal, Darwin!InHand
  <1>2. CASE \/ Darwin!CreateFifo(t) \/ Darwin!RefuseWait(t) \/ Darwin!OpenOwnFails(t)
             \/ Darwin!LockQueue(t) \/ Darwin!Restart(t)
    <2>1. queue' = queue /\ popped' = popped /\ message' = message /\ gaveUp' = gaveUp
      BY <1>2 DEF Darwin!CreateFifo, Darwin!RefuseWait, Darwin!OpenOwnFails,
                  Darwin!LockQueue, Darwin!Restart
    <2>2. Darwin!Blocked \subseteq Darwin!Blocked'
      BY <1>2 DEF Darwin!CreateFifo, Darwin!RefuseWait, Darwin!OpenOwnFails,
                  Darwin!LockQueue, Darwin!Restart, Darwin!Blocked
    <2>. QED  BY <2>1, <2>2, DarwinStillLoyal DEF DarwinLoyal, Darwin!InHand
  <1>3. CASE Darwin!QueueSelf(t) /\ Darwin!Deque!PushBack(t)
    <2>1. /\ popped' = popped /\ message' = message /\ gaveUp' = gaveUp
          /\ Darwin!Blocked' = Darwin!Blocked \union {t} /\ t \notin Darwin!Blocked
      BY <1>3, DarwinPushBackResult DEF Darwin!QueueSelf, Darwin!Block, Darwin!Blocked
    <2>2. /\ queue \in Seq(Threads) /\ Len(queue') = Len(queue) + 1
          /\ \A i \in 1..Len(queue) : queue'[i] = queue[i]
          /\ queue'[Len(queue')] = t
          /\ ToSet(queue') = ToSet(queue) \union {t}
      BY <1>3, DarwinPushBackResult
    <2>3. t \notin gaveUp => t \notin ToSet(queue) /\ ~Darwin!InHand(t)
      BY <2>1 DEF DarwinLoyal
    <2>4. ASSUME NEW x \in Threads \ gaveUp', NEW i \in 1..Len(queue'),
                 NEW j \in 1..Len(queue'),
                 queue'[i] = x, queue'[j] = x
          PROVE  i = j
      <3>1. CASE i \in 1..Len(queue) /\ j \in 1..Len(queue)
        BY <2>1, <2>2, <2>4, <3>1 DEF DarwinLoyal
      <3>2. ASSUME NEW k \in 1..Len(queue), queue[k] = t, t \notin gaveUp
            PROVE  FALSE
        BY <2>2, <2>3, <3>2 DEF ToSet
      <3>3. CASE i = Len(queue') /\ j \in 1..Len(queue)
        BY <2>1, <2>2, <2>4, <3>2, <3>3
      <3>4. CASE j = Len(queue') /\ i \in 1..Len(queue)
        BY <2>1, <2>2, <2>4, <3>2, <3>4
      <3>. QED  BY <2>2, <3>1, <3>3, <3>4
    <2>5. \A x \in Threads : Darwin!InHand(x)' <=> Darwin!InHand(x)
      BY <2>1 DEF Darwin!InHand
    <2>6. t \notin gaveUp => t \notin message
      BY <2>1 DEF DarwinLoyal
    <2>. QED  BY <2>1, <2>2, <2>3, <2>4, <2>5, <2>6 DEF DarwinLoyal
  <1>4. CASE Darwin!QueueSelf(t) /\ ~Darwin!Deque!PushBack(t)
    <2>1. /\ queue' = queue /\ popped' = popped /\ message' = message \ {t}
          /\ gaveUp' = gaveUp
      BY <1>4 DEF Darwin!QueueSelf
    <2>2. Darwin!Blocked \subseteq Darwin!Blocked'
      BY <1>4 DEF Darwin!QueueSelf, Darwin!Blocked
    <2>. QED  BY <2>1, <2>2, DarwinStillLoyal DEF DarwinLoyal, Darwin!InHand
  <1>5. CASE Darwin!ReadMessage(t)
    <2>1. /\ queue' = queue /\ popped' = popped /\ message' = message \ {t} /\ t \in message
          /\ gaveUp' = gaveUp /\ Darwin!Blocked \ {t} \subseteq Darwin!Blocked'
      BY <1>5 DEF Darwin!ReadMessage, Darwin!Blocked
    <2>. QED  BY <2>1, DarwinStillLoyal DEF DarwinLoyal, Darwin!InHand
  <1>6. CASE Darwin!TimeOut(t) \/ Darwin!PollFails(t)
    <2>1. /\ queue' = queue /\ popped' = popped /\ message' \subseteq message
          /\ gaveUp' = gaveUp \union {t} /\ Darwin!Blocked \ {t} \subseteq Darwin!Blocked'
      BY <1>6 DEF Darwin!TimeOut, Darwin!PollFails, Darwin!Blocked
    <2>. QED  BY <2>1, DarwinStillLoyal DEF DarwinLoyal, Darwin!InHand
  <1>7. CASE Darwin!EndWait(t)
    <2>1. /\ queue' = queue /\ popped' = popped /\ message' = message \ {t}
          /\ gaveUp' = gaveUp /\ Darwin!Blocked \subseteq Darwin!Blocked'
      BY <1>7 DEF Darwin!EndWait, Darwin!Blocked
    <2>. QED  BY <2>1, DarwinStillLoyal DEF DarwinLoyal, Darwin!InHand
  <1>8. CASE Darwin!PopWaiter(t)
    <2>1. /\ message' = message /\ gaveUp' = gaveUp /\ Darwin!Blocked \subseteq Darwin!Blocked'
          /\ popped[t] = None /\ popped'[t] = Head(queue)
          /\ \A u \in Threads : u # t => popped'[u] = popped[u]
      BY <1>8, DarwinPopResult DEF Darwin!PopWaiter, DarwinPoppedInPlace, Darwin!Blocked
    <2>2. /\ queue \in Seq(Threads) /\ queue' \in Seq(Threads)
          /\ Head(queue) \in Threads /\ Len(queue) > 0 /\ Head(queue) = queue[1]
          /\ Len(queue') = Len(queue) - 1
          /\ \A i \in 1..Len(queue') : queue'[i] = queue[i + 1]
          /\ ToSet(queue) = ToSet(queue') \union {Head(queue)}
      BY <1>8, DarwinPopResult DEF Darwin!PopWaiter
    <2>3. \A x \in Threads : Darwin!InHand(x)' <=> Darwin!InHand(x) \/ x = Head(queue)
      BY <2>1, <2>2 DEF Darwin!InHand
    <2>4. ASSUME NEW x \in Threads \ gaveUp', NEW i \in 1..Len(queue'),
                 NEW j \in 1..Len(queue'),
                 queue'[i] = x, queue'[j] = x
          PROVE  i = j
      <3>1. /\ i + 1 \in 1..Len(queue) /\ j + 1 \in 1..Len(queue)
            /\ queue[i + 1] = x /\ queue[j + 1] = x
        BY <2>2, <2>4
      <3>2. i + 1 = j + 1
        BY <2>1, <3>1 DEF DarwinLoyal
      <3>. QED  BY <2>2, <3>2
    <2>5. ASSUME NEW i \in 1..Len(queue'), queue'[i] = Head(queue)
          PROVE  Head(queue) \in gaveUp
      <3>1. /\ i + 1 \in 1..Len(queue) /\ 1 \in 1..Len(queue) /\ i + 1 # 1
            /\ queue[i + 1] = Head(queue) /\ queue[1] = Head(queue)
        BY <2>2, <2>5
      <3>. QED  BY <2>2, <3>1 DEF DarwinLoyal
    <2>6. Head(queue) \notin gaveUp => Head(queue) \notin ToSet(queue')
      BY <2>2, <2>5 DEF ToSet
    <2>7. ASSUME NEW x \in Threads \ gaveUp'
          PROVE  /\ x \in ToSet(queue') \/ Darwin!InHand(x)' => x \in Darwin!Blocked' /\ x \notin message'
                 /\ Darwin!InHand(x)' => x \notin ToSet(queue')
                 /\ x \in message' => x \in Darwin!Blocked'
      BY <2>1, <2>2, <2>3, <2>6 DEF DarwinLoyal
    <2>8. ASSUME NEW x \in Threads \ gaveUp', NEW u \in Threads, NEW v \in Threads,
                 popped'[u] = x, popped'[v] = x
          PROVE  u = v
      <3>1. ASSUME NEW w \in Threads, w # t, popped[w] = Head(queue), Head(queue) \notin gaveUp
            PROVE  FALSE
        BY <2>2, <3>1 DEF DarwinLoyal, Darwin!InHand
      <3>. QED  BY <2>1, <2>8, <3>1 DEF DarwinLoyal
    <2>. QED  BY <2>4, <2>7, <2>8 DEF DarwinLoyal
  <1>9. CASE Darwin!SendMessage(t)
    <2>1. /\ queue' = queue /\ gaveUp' = gaveUp /\ Darwin!Blocked \subseteq Darwin!Blocked'
          /\ message' \subseteq message \union {popped[t]}
          /\ popped[t] \in Threads /\ popped'[t] = None
          /\ \A u \in Threads : u # t => popped'[u] = popped[u]
      BY <1>9 DEF Darwin!SendMessage, Darwin!ContinueNotify, Darwin!Home, Darwin!Blocked,
                  DarwinPoppedInPlace
    <2>2. ASSUME NEW x \in Threads \ gaveUp, x = popped[t]
          PROVE  x \in Darwin!Blocked /\ x \notin ToSet(queue) /\ ~Darwin!InHand(x)'
      BY <2>1, <2>2 DEF DarwinLoyal, Darwin!InHand
    <2>3. \A x \in Threads : Darwin!InHand(x)' => Darwin!InHand(x)
      BY <2>1 DEF Darwin!InHand
    <2>4. ASSUME NEW x \in Threads \ gaveUp'
          PROVE  /\ x \in ToSet(queue) \/ Darwin!InHand(x)' => x \in Darwin!Blocked' /\ x \notin message'
                 /\ x \in message' => x \in Darwin!Blocked'
      BY <2>1, <2>2, <2>3 DEF DarwinLoyal
    <2>. QED  BY <2>1, <2>4, DarwinStillLoyal
  <1>10. CASE Darwin!SendFails(t) \/ Darwin!EndNotify(t)
    <2>1. /\ queue' = queue /\ gaveUp' = gaveUp /\ Darwin!Blocked \subseteq Darwin!Blocked'
          /\ message' = message
          /\ \A u \in Threads : popped'[u] \in {popped[u], None}
      BY <1>10 DEF Darwin!SendFails, Darwin!EndNotify, Darwin!Home, Darwin!Blocked
    <2>. QED  BY <2>1, DarwinStillLoyal DEF DarwinLoyal, Darwin!InHand
  <1>11. CASE Darwin!Die(t)
    <2>1. /\ queue' = queue /\ gaveUp' = gaveUp \union {t}
          /\ Darwin!Blocked \ {t} \subseteq Darwin!Blocked'
          /\ message' = message \ {t}
          /\ \A u \in Threads : popped'[u] \in {popped[u], None}
      BY <1>11 DEF Darwin!Die, Darwin!Blocked
    <2>. QED  BY <2>1, DarwinStillLoyal DEF DarwinLoyal, Darwin!InHand
  <1>. QED
    BY <1>1, <1>2, <1>3, <1>4, <1>5, <1>6, <1>7, <1>8, <1>9, <1>10, <1>11 DEF Darwin!Step

LEMMA DarwinStepInv == DarwinInv /\ [Darwin!Next]_Darwin!vars => DarwinInv'
  <1>. SUFFICES ASSUME DarwinInv, [Darwin!Next]_Darwin!vars
                PROVE  DarwinInv'
    OBVIOUS
  <1>1. ASSUME NEW t \in Threads, Darwin!Step(t)
        PROVE  DarwinInv'
    BY <1>1, DarwinStepType, DarwinStepPopped, DarwinStepLocked, DarwinStepFifos,
       DarwinStepReachable, DarwinStepLoyal DEF DarwinInv
  <1>2. CASE UNCHANGED Darwin!vars
    BY <1>2 DEF Darwin!vars, Darwin!history, DarwinInv, Darwin!TypeOK,
                DarwinPoppedInPlace, DarwinQueueLocked, Darwin!FifosOfWaits,
                DarwinMessageSent, Darwin!WaiterReachable,
                DarwinLoyal, Darwin!Blocked, Darwin!InHand
  <1>. QED  BY <1>1, <1>2 DEF Darwin!Next

\* A notifier with the id of a thread that has not given up finds its pipe.
LEMMA DarwinDesertersOnly == DarwinInv => Darwin!DesertersOnlyMissed
  <1>. SUFFICES ASSUME DarwinInv, NEW t \in Threads, popped[t] # None, popped[t] \notin gaveUp
                PROVE  popped[t] \in (Darwin!Blocked \intersect fifos) \ message
    BY DEF Darwin!DesertersOnlyMissed
  <1>1. popped[t] \in Threads \ gaveUp /\ Darwin!InHand(popped[t])
    BY DEF DarwinInv, Darwin!TypeOK, Darwin!InHand
  <1>2. popped[t] \in Darwin!Blocked /\ popped[t] \notin message
    BY <1>1 DEF DarwinInv, DarwinLoyal
  <1>. QED  BY <1>1, <1>2 DEF DarwinInv, Darwin!FifosOfWaits, Darwin!Blocked, Darwin!Waiting

LEMMA DarwinQueueCorrect == DarwinInv => Darwin!QueueIsWaiters
  <1>. SUFFICES ASSUME DarwinInv
                PROVE  Darwin!QueueIsWaiters
    OBVIOUS
  <1>1. \A i \in 1..Len(queue) : queue[i] \in Threads /\ queue[i] \in ToSet(queue)
    BY DEF DarwinInv, Darwin!TypeOK, ToSet
  <1>. QED  BY <1>1 DEF DarwinInv, DarwinLoyal, Darwin!QueueIsWaiters

LEMMA DarwinStepNotifyAll ==
    ASSUME DarwinInv, Darwin!Next
    PROVE  Darwin!NotifyAllReachesAll
  <1>. SUFFICES ASSUME NEW t \in Threads, NEW u \in Darwin!Blocked,
                       pc[t] \in {"NotifyAll", "sendAll"}, pc'[t] \in {"idle", "critical"},
                       ~Darwin!SendFails(t)
                PROVE  u \in notified' \/ u \in lost
    BY DEF Darwin!NotifyAllReachesAll
  <1>. PICK v \in Threads : Darwin!Step(v)
    BY DEF Darwin!Next
  <1>. USE DEF Darwin!Goto, Darwin!Blocked
  <1>1. v = t /\ Darwin!EndNotify(t)
    <2>. USE DEF DarwinInv, Darwin!TypeOK
    <2>1. CASE Darwin!Lock(v) \/ Darwin!Unlock(v) \/ \E c \in Darwin!Calls : Darwin!Call(v, c)
      BY <2>1 DEF Darwin!Lock, Darwin!Unlock, Darwin!Call, Darwin!Calls
    <2>2. CASE \/ Darwin!CreateFifo(v) \/ Darwin!RefuseWait(v)
               \/ Darwin!OpenOwnFails(v) \/ Darwin!QueueSelf(v)
      BY <2>2 DEF Darwin!CreateFifo, Darwin!RefuseWait, Darwin!OpenOwnFails,
                  Darwin!QueueSelf, Darwin!Block
    <2>3. CASE Darwin!ReadMessage(v) \/ Darwin!TimeOut(v) \/ Darwin!PollFails(v)
      BY <2>3 DEF Darwin!ReadMessage, Darwin!TimeOut, Darwin!PollFails
    <2>4. CASE Darwin!LockQueue(v) \/ Darwin!EndWait(v)
      BY <2>4 DEF Darwin!LockQueue, Darwin!EndWait
    <2>5. CASE Darwin!PopWaiter(v)
      BY <2>5 DEF Darwin!PopWaiter
    <2>6. CASE Darwin!SendMessage(v) \/ Darwin!SendFails(v)
      BY <2>6 DEF Darwin!SendMessage, Darwin!SendFails, Darwin!ContinueNotify,
                  Darwin!Home, DarwinPoppedInPlace
    <2>7. CASE Darwin!EndNotify(v)
      BY <2>7 DEF Darwin!EndNotify
    <2>8. CASE Darwin!Die(v) \/ Darwin!Restart(v)
      BY <2>8 DEF Darwin!Die, Darwin!Restart
    <2>. QED  BY <2>1, <2>2, <2>3, <2>4, <2>5, <2>6, <2>7, <2>8 DEF Darwin!Step
  <1>2. /\ queue = <<>> /\ queueMutex \in {None, t} /\ notified' = notified
    BY <1>1 DEF Darwin!EndNotify, Darwin!history
  <1>3. u \notin ToSet(queue)
    BY <1>2 DEF ToSet
  <1>4. ~Darwin!InHand(u)
    BY <1>1, <1>2 DEF Darwin!InHand, Darwin!EndNotify, DarwinInv, DarwinPoppedInPlace,
                      DarwinQueueLocked
  <1>. QED  BY <1>2, <1>3, <1>4 DEF DarwinInv, Darwin!WaiterReachable, DarwinMessageSent,
                                    Darwin!ToSet, ToSet

-----------------------------------------------------------------------------
(* Both builds                                                             *)

BuildInv ==
    /\ platform \in {"win32", "darwin"}
    /\ platform = "win32" => IInv /\ QueueInv
    /\ platform = "darwin" => DarwinInv

\* A step of the build is one of its platform.
LEMMA StepOfPlatform ==
    ASSUME BuildInv, [BuildNext]_all
    PROVE  /\ platform' = platform
           /\ platform = "win32" => [Next]_vars
           /\ platform = "darwin" => [Darwin!Next]_Darwin!vars
  <1>1. UNCHANGED all => UNCHANGED vars /\ UNCHANGED Darwin!vars
    BY DEF all, vars, history, darwin, Darwin!vars, Darwin!history
  <1>. QED  BY <1>1 DEF BuildInv, BuildNext, all

LEMMA Invariance == BuildSpec => []BuildInv
  <1>1. BuildInit => BuildInv
    BY InitInv, InitQueueInv, DarwinInitInv DEF BuildInit, BuildInv
  <1>2. BuildInv /\ [BuildNext]_all => BuildInv'
    BY StepOfPlatform, StepInv, StepQueueInv, DarwinStepInv DEF BuildInv
  <1>. QED  BY <1>1, <1>2, PTL DEF BuildSpec

\* The mutexes, the queue, the semaphores and the pipes stay well formed; in particular
\* the queue never holds more ids than it has space for (win32 lines 57-134, darwin
\* lines 55-160).
THEOREM TypeCorrect == BuildSpec => []BuildTypeOK
  <1>1. BuildInv => BuildTypeOK
    BY DEF BuildInv, BuildTypeOK, IInv, DarwinInv
  <1>. QED  BY Invariance, <1>1, PTL

\* A thread blocked in Wait or WaitFor is in the queue or in the hands of a notifier, or
\* its semaphore is released or its pipe has a message, unless the notifier that took its
\* id died or threw before the wake-up (win32 lines 25-134, darwin lines 36-96).
THEOREM NoWaiterForgotten == BuildSpec => []NobodyForgotten
  <1>1. BuildInv => NobodyForgotten
    BY DEF BuildInv, NobodyForgotten, IInv, DarwinInv
  <1>. QED  BY Invariance, <1>1, PTL

\* A thread leaves Wait only because of a notification since it called Wait (win32
\* lines 38-55, darwin line 85).
THEOREM WokenCorrect == BuildSpec => []WakesAreNew
  <1>1. DarwinInv => Darwin!WokenByNotification
    BY DEF DarwinInv, DarwinMessageSent, Darwin!WokenByNotification
  <1>2. BuildInv => WakesAreNew
    BY <1>1 DEF BuildInv, WakesAreNew, QueueInv
  <1>. QED  BY Invariance, <1>2, PTL

\* But for threads that gave up a wait or died, the queue holds exactly once the ids of
\* those that still wait for a notification, also after Remove has moved one of them.
THEOREM QueueCorrect == BuildSpec => []QueueHoldsWaiters
  <1>1. IInv /\ QueueInv => QueueIsWaiters
    BY DEF IInv, TypeOK, QueueInv, Loyal, QueueIsWaiters
  <1>2. BuildInv => QueueHoldsWaiters
    BY <1>1, DarwinQueueCorrect DEF BuildInv, QueueHoldsWaiters
  <1>. QED  BY Invariance, <1>2, PTL

\* A pipe exists during the wait of its thread; one exists without a wait only for a
\* thread that died in one or failed to open its pipe, which gets into no wait any more
\* (darwin lines 85-132, FiFo.hpp lines 85-114).
THEOREM FifosCorrect == BuildSpec => []PipesOfWaits
  <1>1. BuildInv => PipesOfWaits
    BY DEF BuildInv, PipesOfWaits, DarwinInv
  <1>. QED  BY Invariance, <1>1, PTL

\* The thread whose id a notifier has taken is blocked with its pipe in place and empty,
\* or has given up a wait: only there can the path be missing (darwin lines 61-64 and
\* 73-76).
THEOREM PipeMissingAtDesertersOnly == BuildSpec => []MissingPipesOfDeserters
  <1>1. BuildInv => MissingPipesOfDeserters
    BY DarwinDesertersOnly DEF BuildInv, MissingPipesOfDeserters
  <1>. QED  BY Invariance, <1>1, PTL

\* Whoever is blocked when NotifyAll returns without an exception has been notified, or
\* was lost with an earlier notifier (win32 lines 74-80, darwin lines 72-78).
THEOREM NotifyAllCorrect == BuildSpec => EverybodyNotified
  <1>1. ASSUME BuildInv, BuildNext
        PROVE  /\ platform = "win32" => NotifyAllReachesAll
               /\ platform = "darwin" => Darwin!NotifyAllReachesAll
    BY <1>1, StepNotifyAll, DarwinStepNotifyAll DEF BuildInv, BuildNext
  <1>2. BuildInv /\ [BuildNext]_all
            => [/\ platform = "win32" => NotifyAllReachesAll
                /\ platform = "darwin" => Darwin!NotifyAllReachesAll]_all
    BY <1>1
  <1>. QED  BY Invariance, <1>2, PTL DEF BuildSpec, EverybodyNotified
=============================================================================
