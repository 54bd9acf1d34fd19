----------------------- MODULE StaticThreadPool_proofs -----------------------
(***************************************************************************)
(* Proofs about StaticThreadPool, for any number of workers, clients and   *)
(* tasks and every graph of dependencies.                                  *)
(***************************************************************************)
EXTENDS StaticThreadPool, FiniteSetTheorems, SequenceTheorems, TLAPS

-----------------------------------------------------------------------------
(* Sequences and locations                                                 *)

LEMMA RemoveAtFacts ==
    ASSUME NEW S, NEW s \in Seq(S), NEW i \in 1..Len(s)
    PROVE  /\ RemoveAt(s, i) \in Seq(S)
           /\ Len(RemoveAt(s, i)) = Len(s) - 1
           /\ \A j \in 1..(Len(s) - 1) : RemoveAt(s, i)[j] = IF j < i THEN s[j] ELSE s[j + 1]
<1> DEFINE a == SubSeq(s, 1, i - 1)
           b == SubSeq(s, i + 1, Len(s))
<1>1. a \in Seq(S) /\ Len(a) = i - 1 /\ \A j \in 1..(i - 1) : a[j] = s[j]
  OBVIOUS
<1>2. b \in Seq(S) /\ Len(b) = Len(s) - i /\ \A j \in 1..(Len(s) - i) : b[j] = s[i + j]
  OBVIOUS
<1>3. RemoveAt(s, i) = a \o b
  BY DEF RemoveAt
<1> HIDE DEF a, b
<1>4. /\ a \o b \in Seq(S)
      /\ Len(a \o b) = Len(s) - 1
      /\ \A j \in 1..(Len(s) - 1) : (a \o b)[j] = IF j < i THEN a[j] ELSE b[j - i + 1]
  <2> DEFINE c == a \o b
  <2>1. /\ c \in Seq(S)
        /\ Len(c) = Len(a) + Len(b)
        /\ \A j \in 1..(Len(a) + Len(b)) :
               c[j] = IF j <= Len(a) THEN a[j] ELSE b[j - Len(a)]
    BY <1>1, <1>2, ConcatProperties
  <2> HIDE DEF c
  <2>2. Len(a) = i - 1 /\ Len(b) = Len(s) - i /\ Len(s) \in Nat
    BY <1>1, <1>2
  <2>3. Len(c) = Len(s) - 1
    BY <2>1, <2>2
  <2>4. ASSUME NEW j \in 1..(Len(s) - 1)
        PROVE  c[j] = IF j < i THEN a[j] ELSE b[j - i + 1]
    <3>1. j \in 1..(Len(a) + Len(b)) /\ (j <= Len(a) <=> j < i) /\ j - Len(a) = j - i + 1
      BY <2>2
    <3> QED
      BY <2>1, <3>1
  <2> QED
    BY <2>1, <2>3, <2>4 DEF c
<1>5. \A j \in 1..(Len(s) - 1) : (IF j < i THEN a[j] ELSE b[j - i + 1]) =
                                 (IF j < i THEN s[j] ELSE s[j + 1])
  BY <1>1, <1>2
<1> QED
  BY <1>3, <1>4, <1>5

LEMMA TailFacts ==
    ASSUME NEW S, NEW s \in Seq(S), s # <<>>
    PROVE  /\ Tail(s) \in Seq(S) /\ Head(s) \in S /\ Head(s) = s[1]
           /\ Len(Tail(s)) = Len(s) - 1
           /\ \A j \in 1..(Len(s) - 1) : Tail(s)[j] = s[j + 1]
OBVIOUS

LEMMA AppendFacts ==
    ASSUME NEW S, NEW s \in Seq(S), NEW e \in S
    PROVE  /\ Append(s, e) \in Seq(S)
           /\ Len(Append(s, e)) = Len(s) + 1
           /\ \A j \in 1..Len(s) : Append(s, e)[j] = s[j]
           /\ Append(s, e)[Len(s) + 1] = e
OBVIOUS

LEMMA GoType ==
    ASSUME TypeOK, NEW x \in Threads, NEW l \in Locations, NEW S, GoNotifying(x, l, S)
    PROVE  pc' \in [Threads -> Locations]
BY DEF TypeOK, GoNotifying, Locations

\* Where everybody is after a step that notifies some sleepers.
LEMMA GoFacts ==
    ASSUME TypeOK, NEW x \in Threads, NEW l, NEW S \in SUBSET Asleep, GoNotifying(x, l, S)
    PROVE  /\ pc'[x] = l
           /\ \A y \in Threads \ {x} :
                  \/ pc'[y] = pc[y]
                  \/ y \in Workers /\ pc[y] = "asleep" /\ pc'[y] = "locking"
BY DEF TypeOK, GoNotifying, Asleep, Threads

LEMMA NotifiedAsleep == \A n : \A S \in Notified(n) : S \in SUBSET Asleep
BY DEF Notified

-----------------------------------------------------------------------------
(* Type correctness                                                        *)

LEMMA InitTypeOK == Init => TypeOK
<1> SUFFICES ASSUME Init PROVE TypeOK
  OBVIOUS
<1>1. pc \in [Threads -> Locations] /\ idx \in [Threads -> Nat \ {0}]
  BY DEF Init, Locations
<1>2. /\ target \in [Threads -> Futures \union {None}]
      /\ creating \in [Threads -> Tasks \union {None}]
      /\ todo \in [Threads -> SUBSET Futures]
  BY DEF Init
<1>3. <<>> \in Seq(Tasks)
  OBVIOUS
<1>4. /\ state \in [Futures -> FutureStates]
      /\ continuations \in [Futures -> Seq(Tasks)]
  BY <1>3 DEF Init, FutureStates
<1>5. /\ activator \in [Tasks -> SUBSET (Futures \union {Local})]
      /\ dependencies \in [Tasks -> SUBSET Futures]
      /\ runs \in [Tasks -> Nat]
  BY DEF Init
<1>6. /\ owner \in Threads \union {None} /\ tasks \in Seq(Tasks)
      /\ shutdown \in BOOLEAN /\ submitted \in SUBSET Tasks
      /\ destructor \in {"alive", "join", "destroy", "done"}
  BY <1>3 DEF Init
<1> QED
  BY <1>1, <1>2, <1>4, <1>5, <1>6 DEF TypeOK

LEMMA SettlingType ==
    ASSUME TypeOK, NEW x \in Threads, NEW f \in Futures, NEW s \in FutureStates,
           StartSettling(x, f, s)
    PROVE  /\ state' \in [Futures -> FutureStates]
           /\ pc' \in [Threads -> Locations]
           /\ target' \in [Threads -> Futures \union {None}]
           /\ idx' \in [Threads -> Nat \ {0}]
<1>1. pc' \in [Threads -> Locations]
  BY GoType DEF StartSettling, Goto, Locations
<1>2. state' = [state EXCEPT ![f] = s] /\ state \in [Futures -> FutureStates]
  BY DEF StartSettling, TypeOK
<1>3. target' = [target EXCEPT ![x] = f] /\ target \in [Threads -> Futures \union {None}]
  BY DEF StartSettling, TypeOK
<1>4. idx' = [idx EXCEPT ![x] = 1] /\ idx \in [Threads -> Nat \ {0}]
  BY DEF StartSettling, TypeOK
<1> QED
  BY <1>1, <1>2, <1>3, <1>4

LEMMA ExecuteTypeOK ==
    ASSUME TypeOK, ThreadsInPlace, NEW x \in Threads, Execute(x) PROVE TypeOK'
<1> USE DEF TypeOK
<1>1. ASSUME NEW t \in Tasks, NEW D \in SUBSET (submitted \union External), BeginExecute(x, t, D)
      PROVE  TypeOK'
  <2>1. pc' \in [Threads -> Locations]
    BY <1>1, GoType DEF BeginExecute, Goto, Locations
  <2>2. D \in SUBSET Futures
    BY DEF Futures
  <2>3. /\ creating' \in [Threads -> Tasks \union {None}]
        /\ todo' \in [Threads -> SUBSET Futures]
        /\ activator' \in [Tasks -> SUBSET (Futures \union {Local})]
        /\ dependencies' \in [Tasks -> SUBSET Futures]
        /\ submitted' \in SUBSET Tasks
        /\ owner' \in Threads \union {None}
    BY <1>1, <2>2 DEF BeginExecute
  <2> QED
    BY <1>1, <2>1, <2>3 DEF BeginExecute
<1>2. ASSUME NEW f \in Futures, RegisterDependency(x, f) PROVE TypeOK'
  <2>1. creating[x] \in Tasks
    BY <1>2 DEF RegisterDependency, ThreadsInPlace
  <2>2. todo' \in [Threads -> SUBSET Futures]
    BY <1>2 DEF RegisterDependency
  <2>3. Append(continuations[f], creating[x]) \in Seq(Tasks)
    BY <2>1
  <2>4. continuations' \in [Futures -> Seq(Tasks)]
    BY <1>2, <2>3 DEF RegisterDependency
  <2>5. activator' \in [Tasks -> SUBSET (Futures \union {Local})]
    <3>1. activator[creating[x]] \union {f} \in SUBSET (Futures \union {Local})
      BY <2>1
    <3>2. activator' \in {activator, [activator EXCEPT ![creating[x]] = @ \union {f}]}
      BY <1>2 DEF RegisterDependency
    <3> QED
      BY <2>1, <3>1, <3>2
  <2> QED
    BY <1>2, <2>2, <2>4, <2>5 DEF RegisterDependency
<1>3. ASSUME EndExecute(x) PROVE TypeOK'
  <2>1. creating[x] \in Tasks
    BY <1>3 DEF EndExecute, ThreadsInPlace
  <2>2. tasks' \in Seq(Tasks)
    BY <1>3, <2>1, AppendFacts DEF EndExecute
  <2>3. pc' \in [Threads -> Locations]
    <3>1. PICK S \in Notified(1) :
              GoNotifying(x, IF x \in Workers THEN "body" ELSE "idle", S)
      BY <1>3 DEF EndExecute
    <3>2. (IF x \in Workers THEN "body" ELSE "idle") \in Locations
      BY DEF Locations
    <3> QED
      BY <3>1, <3>2, GoType
  <2>4. /\ creating' \in [Threads -> Tasks \union {None}]
        /\ activator' \in [Tasks -> SUBSET (Futures \union {Local})]
    BY <1>3, <2>1 DEF EndExecute, Drop
  <2> QED
    BY <1>3, <2>2, <2>3, <2>4 DEF EndExecute
<1> QED
  BY <1>1, <1>2, <1>3 DEF Execute

LEMMA DropType ==
    ASSUME TypeOK, NEW t, NEW f, Drop(t, f)
    PROVE  activator' \in [Tasks -> SUBSET (Futures \union {Local})]
BY DEF TypeOK, Drop

LEMMA SettleTypeOK ==
    ASSUME TypeOK, ThreadsInPlace, NEW x \in Threads, Settle(x) PROVE TypeOK'
<1> USE DEF TypeOK
<1>1. ASSUME NEW e \in External, SettleExternal(x, e) PROVE TypeOK'
  <2>1. PICK s \in {"Ready", "Exception", "BrokenPromise"} : StartSettling(x, e, s)
    BY <1>1 DEF SettleExternal
  <2>2. e \in Futures /\ s \in FutureStates
    BY DEF Futures, FutureStates
  <2> QED
    BY <1>1, <2>1, <2>2, SettlingType DEF SettleExternal
<1>2. CASE RunContinuation(x)
  <2>1. activator' \in [Tasks -> SUBSET (Futures \union {Local})]
    BY <1>2, DropType DEF RunContinuation
  <2>2. idx' \in [Threads -> Nat \ {0}]
    BY <1>2 DEF RunContinuation
  <2> QED
    BY <1>2, <2>1, <2>2 DEF RunContinuation
<1>3. CASE EndSettling(x)
  <2>1. pc' \in [Threads -> Locations]
    BY <1>3, GoType DEF EndSettling, Goto, Locations
  <2>2. target' \in [Threads -> Futures \union {None}]
    BY <1>3 DEF EndSettling
  <2>3. idx' \in [Threads -> Nat \ {0}]
    BY <1>3 DEF EndSettling
  <2> QED
    BY <1>3, <2>1, <2>2, <2>3 DEF EndSettling
<1> QED
  BY <1>1, <1>2, <1>3 DEF Settle

LEMMA ThreadLoopTypeOK ==
    ASSUME TypeOK, ThreadsInPlace, NEW w \in Workers, ThreadLoop(w) PROVE TypeOK'
<1> USE DEF TypeOK
<1>0. w \in Threads
  BY DEF Threads
<1>1. ASSUME NEW S, LoopHead(w, S)
      PROVE  pc' \in [Threads -> Locations] /\ owner' \in Threads \union {None}
  <2>1. (IF shutdown THEN "done" ELSE "scan") \in Locations
    BY DEF Locations
  <2> QED
    BY <1>0, <1>1, <2>1, GoType DEF LoopHead
<1>2. CASE EnterLoop(w)
  BY <1>1, <1>2 DEF EnterLoop
<1>3. CASE SkipTask(w)
  <2>1. idx' \in [Threads -> Nat \ {0}]
    BY <1>0, <1>3 DEF SkipTask
  <2> QED
    BY <1>3, <2>1 DEF SkipTask
<1>4. CASE TakeTask(w)
  <2>1. idx[w] \in 1..Len(tasks)
    BY <1>0, <1>4 DEF TakeTask
  <2>2. tasks[idx[w]] \in Tasks /\ RemoveAt(tasks, idx[w]) \in Seq(Tasks)
    BY <2>1, RemoveAtFacts
  <2>3. pc' \in [Threads -> Locations]
    BY <1>0, <1>4, GoType DEF TakeTask, Goto, Locations
  <2>4. target' \in [Threads -> Futures \union {None}]
    BY <1>4, <2>2 DEF TakeTask, Futures
  <2>5. runs' \in [Tasks -> Nat]
    BY <1>4, <2>2 DEF TakeTask
  <2>6. tasks' \in Seq(Tasks)
    BY <1>4, <2>2 DEF TakeTask
  <2>7. idx' \in [Threads -> Nat \ {0}]
    BY <1>0, <1>4 DEF TakeTask
  <2> QED
    BY <1>4, <2>3, <2>4, <2>5, <2>6, <2>7 DEF TakeTask
<1>5. CASE Sleep(w)
  <2>1. pc' \in [Threads -> Locations]
    BY <1>0, <1>5, GoType DEF Sleep, Goto, Locations
  <2>2. idx' \in [Threads -> Nat \ {0}]
    BY <1>0, <1>5 DEF Sleep
  <2> QED
    BY <1>5, <2>1, <2>2 DEF Sleep
<1>6. CASE WakeUp(w)
  <2>1. pc' \in [Threads -> Locations]
    BY <1>0, <1>6, GoType DEF WakeUp, Goto, Locations
  <2> QED
    BY <1>6, <2>1 DEF WakeUp
<1>7. CASE FinishBody(w)
  <2>1. target[w] \in Futures
    BY <1>7 DEF FinishBody, ThreadsInPlace, Futures
  <2>2. PICK s \in TaskOutcomes : StartSettling(w, target[w], s)
    BY <1>7 DEF FinishBody
  <2>3. s \in FutureStates
    BY OutcomeAssumption DEF FutureStates
  <2> QED
    BY <1>0, <1>7, <2>1, <2>2, <2>3, SettlingType DEF FinishBody
<1>8. CASE AfterTask(w)
  <2>1. PICK S : LoopHead(w, S)
    BY <1>8 DEF AfterTask
  <2>2. continuations' \in [Futures -> Seq(Tasks)]
    <3>1. <<>> \in Seq(Tasks)
      OBVIOUS
    <3> QED
      BY <1>8, <3>1 DEF AfterTask
  <2>3. target' \in [Threads -> Futures \union {None}]
    BY <1>8 DEF AfterTask
  <2> QED
    BY <1>1, <1>8, <2>1, <2>2, <2>3 DEF AfterTask
<1> QED
  BY <1>2, <1>3, <1>4, <1>5, <1>6, <1>7, <1>8 DEF ThreadLoop

LEMMA DestroyTypeOK ==
    ASSUME TypeOK, Destroy PROVE TypeOK'
<1> USE DEF TypeOK
<1>1. CASE ShutdownNotifyThreads
  <2>1. pc' \in [Threads -> Locations]
    BY <1>1 DEF ShutdownNotifyThreads, Locations
  <2> QED
    BY <1>1, <2>1 DEF ShutdownNotifyThreads
<1>2. CASE ShutdownJoinThreads \/ DestructorReturns
  BY <1>2 DEF ShutdownJoinThreads, DestructorReturns
<1>3. CASE DestroyTask
  <2>1. tasks' \in Seq(Tasks)
    BY <1>3, TailFacts DEF DestroyTask
  <2>2. state' \in [Futures -> FutureStates]
    BY <1>3 DEF DestroyTask, FutureStates
  <2>3. activator' \in [Tasks -> SUBSET (Futures \union {Local})]
    BY <1>3 DEF DestroyTask
  <2>4. continuations' \in [Futures -> Seq(Tasks)]
    <3>1. <<>> \in Seq(Tasks)
      OBVIOUS
    <3> QED
      BY <1>3, <3>1 DEF DestroyTask
  <2> QED
    BY <1>3, <2>1, <2>2, <2>3, <2>4 DEF DestroyTask
<1> QED
  BY <1>1, <1>2, <1>3 DEF Destroy

LEMMA NextTypeOK == TypeOK /\ ThreadsInPlace /\ [Next]_vars => TypeOK'
<1> SUFFICES ASSUME TypeOK, ThreadsInPlace, [Next]_vars PROVE TypeOK'
  OBVIOUS
<1>1. CASE UNCHANGED vars
  BY <1>1 DEF vars, TypeOK
<1> QED
  BY <1>1, ExecuteTypeOK, SettleTypeOK, ThreadLoopTypeOK, DestroyTypeOK DEF Next, Gone

-----------------------------------------------------------------------------
(* Where the threads are                                                   *)

LEMMA InitThreads == Init => ThreadsInPlace
BY NoneAssumption, DisjointAssumption DEF Init, ThreadsInPlace, Threads

LEMMA GotoFacts ==
    ASSUME TypeOK, NEW x \in Threads, NEW l, Goto(x, l)
    PROVE  pc'[x] = l /\ \A y \in Threads \ {x} : pc'[y] = pc[y]
BY DEF TypeOK, Goto, GoNotifying

LEMMA ExecuteThreads ==
    ASSUME TypeOK, ThreadsInPlace, NEW x \in Threads, Execute(x) PROVE ThreadsInPlace'
<1> USE DEF ThreadsInPlace, IsSettled
<1>0. Workers \subseteq Threads /\ Clients \subseteq Threads
  BY DEF Threads
<1>1. ASSUME NEW t \in Tasks, NEW D, BeginExecute(x, t, D) PROVE ThreadsInPlace'
  <2>1. pc'[x] = "register" /\ \A y \in Threads \ {x} : pc'[y] = pc[y]
    BY <1>1, GotoFacts DEF BeginExecute
  <2>2. t # None
    BY NoneAssumption DEF Futures
  <2>3. creating'[x] = t /\ \A y \in Threads \ {x} : creating'[y] = creating[y]
    BY <1>1 DEF BeginExecute, TypeOK
  <2>4. /\ owner = None /\ owner' = x
        /\ pc[x] = "body" \/ (pc[x] = "idle" /\ destructor = "alive")
        /\ UNCHANGED <<shutdown, destructor, target, state>>
    BY <1>1 DEF BeginExecute
  <2>5. \A y \in Threads : y # None
    BY NoneAssumption
  <2> QED
    BY <1>0, <2>1, <2>2, <2>3, <2>4, <2>5
<1>2. ASSUME NEW f, RegisterDependency(x, f) PROVE ThreadsInPlace'
  BY <1>2 DEF RegisterDependency
<1>3. CASE EndExecute(x)
  <2>1. PICK S \in SUBSET Asleep :
            GoNotifying(x, IF x \in Workers THEN "body" ELSE "idle", S)
    BY <1>3, NotifiedAsleep DEF EndExecute
  <2>2. /\ pc'[x] = IF x \in Workers THEN "body" ELSE "idle"
        /\ \A y \in Threads \ {x} :
               \/ pc'[y] = pc[y]
               \/ y \in Workers /\ pc[y] = "asleep" /\ pc'[y] = "locking"
    BY <2>1, GoFacts
  <2>3. creating'[x] = None /\ \A y \in Threads \ {x} : creating'[y] = creating[y]
    BY <1>3 DEF EndExecute, TypeOK
  <2>4. pc[x] = "register" /\ owner' = None /\ UNCHANGED <<shutdown, destructor, target, state>>
    BY <1>3 DEF EndExecute
  <2>5. \A y \in Threads \ {x} : pc[y] \notin {"register", "scan"}
    BY <2>4
  <2>6. Workers \intersect Clients = {}
    BY DisjointAssumption
  <2> QED
    BY <1>0, <2>2, <2>3, <2>4, <2>5, <2>6 DEF Threads
<1> QED
  BY <1>1, <1>2, <1>3 DEF Execute

LEMMA SettlingThreads ==
    ASSUME TypeOK, ThreadsInPlace, NEW x \in Threads, NEW f \in Futures, NEW s,
           StartSettling(x, f, s), s # "Undefined",
           UNCHANGED <<owner, shutdown, destructor, creating>>,
           x \in Workers => pc[x] = "body" /\ f \in Tasks,
           x \in Clients => pc[x] = "idle" /\ f \in External
    PROVE  ThreadsInPlace'
<1> USE DEF ThreadsInPlace, IsSettled
<1>1. pc'[x] = "settle" /\ \A y \in Threads \ {x} : pc'[y] = pc[y]
  BY GotoFacts DEF StartSettling
<1>2. target'[x] = f /\ \A y \in Threads \ {x} : target'[y] = target[y]
  BY DEF StartSettling, TypeOK
<1>3. state'[f] = s /\ \A g \in Futures \ {f} : state'[g] = state[g]
  BY DEF StartSettling, TypeOK
<1>4. x \in Workers \/ x \in Clients
  BY DEF Threads
<1>5. Workers \subseteq Threads /\ Clients \subseteq Threads /\ Workers \intersect Clients = {}
  BY DisjointAssumption DEF Threads
<1>6. None \notin Futures /\ Tasks \subseteq Futures /\ External \subseteq Futures
  BY NoneAssumption DEF Futures
<1> QED
  BY <1>1, <1>2, <1>3, <1>4, <1>5, <1>6

LEMMA SettleThreads ==
    ASSUME TypeOK, ThreadsInPlace, NEW x \in Threads, Settle(x) PROVE ThreadsInPlace'
<1> USE DEF ThreadsInPlace, IsSettled
<1>0. Workers \subseteq Threads /\ Clients \subseteq Threads /\ Workers \intersect Clients = {}
  BY DisjointAssumption DEF Threads
<1>1. ASSUME NEW e \in External, x \in Clients, SettleExternal(x, e) PROVE ThreadsInPlace'
  <2>1. PICK s \in {"Ready", "Exception", "BrokenPromise"} : StartSettling(x, e, s)
    BY <1>1 DEF SettleExternal
  <2> QED
    BY <1>0, <1>1, <2>1, SettlingThreads DEF SettleExternal, Futures
<1>2. CASE RunContinuation(x)
  BY <1>2 DEF RunContinuation
<1>3. CASE EndSettling(x)
  <2>1. /\ pc'[x] = IF x \in Workers THEN "relock" ELSE "idle"
        /\ \A y \in Threads \ {x} : pc'[y] = pc[y]
    BY <1>3, GotoFacts DEF EndSettling
  <2>2. /\ target'[x] = IF x \in Workers THEN target[x] ELSE None
        /\ \A y \in Threads \ {x} : target'[y] = target[y]
    BY <1>3 DEF EndSettling, TypeOK
  <2>3. pc[x] = "settle" /\ UNCHANGED <<owner, shutdown, destructor, creating, state>>
    BY <1>3 DEF EndSettling
  <2> QED
    BY <1>0, <2>1, <2>2, <2>3 DEF Threads
<1> QED
  BY <1>1, <1>2, <1>3 DEF Settle

LEMMA ThreadLoopThreads ==
    ASSUME TypeOK, ThreadsInPlace, NEW w \in Workers, ThreadLoop(w) PROVE ThreadsInPlace'
<1> USE DEF ThreadsInPlace, IsSettled
<1>0. /\ Workers \subseteq Threads /\ Clients \subseteq Threads
      /\ Workers \intersect Clients = {}
      /\ w \in Threads /\ w \notin Clients
  BY DisjointAssumption DEF Threads
<1>1. ASSUME NEW S \in SUBSET Asleep, LoopHead(w, S)
      PROVE  /\ pc'[w] = IF shutdown THEN "done" ELSE "scan"
             /\ owner' = IF shutdown THEN None ELSE w
             /\ \A y \in Threads \ {w} :
                    \/ pc'[y] = pc[y]
                    \/ y \in Workers /\ pc[y] = "asleep" /\ pc'[y] = "locking"
  BY <1>0, <1>1, GoFacts DEF LoopHead
<1>2. CASE EnterLoop(w)
  <2>1. /\ pc[w] = "locking" /\ owner = None
        /\ LoopHead(w, {}) /\ {} \in SUBSET Asleep
        /\ UNCHANGED <<shutdown, destructor, target, creating, state>>
    BY <1>2 DEF EnterLoop
  <2>2. \A y \in Threads : pc[y] \notin {"register", "scan"}
    BY <2>1, NoneAssumption
  <2> QED
    BY <1>0, <1>1, <2>1, <2>2
<1>3. CASE SkipTask(w)
  BY <1>3 DEF SkipTask
<1>4. CASE TakeTask(w)
  <2>1. pc[w] = "scan" /\ owner' = None /\ UNCHANGED <<shutdown, destructor, creating, state>>
    BY <1>4 DEF TakeTask
  <2>2. pc'[w] = "body" /\ \A y \in Threads \ {w} : pc'[y] = pc[y]
    BY <1>0, <1>4, GotoFacts DEF TakeTask
  <2>3. idx[w] \in 1..Len(tasks) /\ tasks[idx[w]] \in Tasks
    BY <1>0, <1>4 DEF TakeTask, TypeOK
  <2>4. target'[w] \in Tasks /\ \A y \in Threads \ {w} : target'[y] = target[y]
    BY <1>0, <1>4, <2>3 DEF TakeTask, TypeOK
  <2>5. \A y \in Threads \ {w} : pc[y] \notin {"register", "scan"}
    BY <1>0, <2>1
  <2> QED
    BY <1>0, <2>1, <2>2, <2>4, <2>5
<1>5. CASE Sleep(w)
  <2>1. pc[w] = "scan" /\ owner' = None
        /\ UNCHANGED <<shutdown, destructor, creating, target, state>>
    BY <1>5 DEF Sleep
  <2>2. pc'[w] = "asleep" /\ \A y \in Threads \ {w} : pc'[y] = pc[y]
    BY <1>0, <1>5, GotoFacts DEF Sleep
  <2>3. \A y \in Threads \ {w} : pc[y] \notin {"register", "scan"}
    BY <1>0, <2>1
  <2> QED
    BY <1>0, <2>1, <2>2, <2>3
<1>6. CASE WakeUp(w)
  <2>1. pc'[w] = "locking" /\ \A y \in Threads \ {w} : pc'[y] = pc[y]
    BY <1>0, <1>6, GotoFacts DEF WakeUp
  <2> QED
    BY <1>0, <1>6, <2>1 DEF WakeUp
<1>7. CASE FinishBody(w)
  <2>1. PICK s \in TaskOutcomes : StartSettling(w, target[w], s)
    BY <1>7 DEF FinishBody
  <2>2. s # "Undefined" /\ target[w] \in Tasks /\ Tasks \subseteq Futures
    BY <1>7, OutcomeAssumption DEF FinishBody, Futures
  <2> QED
    BY <1>0, <1>7, <2>1, <2>2, SettlingThreads DEF FinishBody
<1>8. CASE AfterTask(w)
  <2>1. PICK S \in SUBSET Asleep : LoopHead(w, S)
    BY <1>8, NotifiedAsleep DEF AfterTask
  <2>2. pc[w] = "relock" /\ owner = None /\ UNCHANGED <<shutdown, destructor, creating, state>>
    BY <1>8 DEF AfterTask
  <2>3. target'[w] = None /\ \A y \in Threads \ {w} : target'[y] = target[y]
    BY <1>0, <1>8 DEF AfterTask, TypeOK
  <2>4. \A y \in Threads : pc[y] \notin {"register", "scan"}
    BY <2>2, NoneAssumption
  <2> QED
    BY <1>0, <1>1, <2>1, <2>2, <2>3, <2>4
<1> QED
  BY <1>2, <1>3, <1>4, <1>5, <1>6, <1>7, <1>8 DEF ThreadLoop

LEMMA DestroyThreads ==
    ASSUME TypeOK, ThreadsInPlace, Destroy PROVE ThreadsInPlace'
<1> USE DEF ThreadsInPlace, IsSettled
<1>1. CASE ShutdownNotifyThreads
  <2>1. \A y \in Threads : \/ pc'[y] = pc[y]
                           \/ y \in Workers /\ pc[y] = "asleep" /\ pc'[y] = "locking"
    BY <1>1 DEF ShutdownNotifyThreads, Asleep
  <2>2. /\ owner = None /\ destructor = "alive" /\ shutdown' = TRUE /\ destructor' = "join"
        /\ UNCHANGED <<owner, target, creating, state>>
    BY <1>1 DEF ShutdownNotifyThreads
  <2>3. \A y \in Threads : pc[y] \notin {"register", "scan"}
    BY <2>2, NoneAssumption
  <2> QED
    BY <2>1, <2>2, <2>3, DisjointAssumption DEF Threads
<1>2. CASE ShutdownJoinThreads \/ DestructorReturns
  BY <1>2 DEF ShutdownJoinThreads, DestructorReturns
<1>3. CASE DestroyTask
  <2>1. \A f \in Futures : state'[f] = state[f] \/ state'[f] = "BrokenPromise"
    BY <1>3 DEF DestroyTask, TypeOK
  <2>2. UNCHANGED <<owner, shutdown, destructor, pc, target, creating>>
    BY <1>3 DEF DestroyTask
  <2> QED
    BY <2>1, <2>2
<1> QED
  BY <1>1, <1>2, <1>3 DEF Destroy

LEMMA NextThreads == TypeOK /\ ThreadsInPlace /\ [Next]_vars => ThreadsInPlace'
<1> SUFFICES ASSUME TypeOK, ThreadsInPlace, [Next]_vars PROVE ThreadsInPlace'
  OBVIOUS
<1>1. CASE UNCHANGED vars
  BY <1>1 DEF vars, ThreadsInPlace, IsSettled
<1> QED
  BY <1>1, ExecuteThreads, SettleThreads, ThreadLoopThreads, DestroyThreads DEF Next, Gone

-----------------------------------------------------------------------------
(* Where the tasks are                                                     *)

LEMMA InitTasks == Init => TasksInPlace
<1> SUFFICES ASSUME Init PROVE TasksInPlace
  OBVIOUS
<1>1. Len(tasks) = 0 /\ \A x \in Threads : creating[x] = None /\ target[x] = None
  BY DEF Init
<1>2. \A t \in Tasks : runs[t] = 0 /\ ~IsSettled(t)
  BY DEF Init, IsSettled, Futures
<1>3. submitted = {}
  BY DEF Init
<1>4. 1..Len(tasks) = {}
  BY <1>1
<1>5. \A w \in Workers : target[w] = None /\ pc[w] = "locking"
  BY DEF Init, Threads
<1>6. \A t \in Tasks : runs[t] <= 1 /\ ~(runs[t] > 0)
  BY <1>2
<1> QED
  BY <1>1, <1>2, <1>3, <1>4, <1>5, <1>6 DEF TasksInPlace

\* A step that leaves the tasks alone and moves no worker out of a task.
LEMMA TasksUndisturbed ==
    ASSUME TypeOK, ThreadsInPlace, TasksInPlace,
           UNCHANGED <<tasks, submitted, runs, creating>>,
           \A t \in Tasks : IsSettled(t)' <=> IsSettled(t),
           \A w \in Workers :
               \/ pc'[w] = pc[w] /\ target'[w] = target[w]
               \/ /\ pc[w] \notin {"body", "register"} /\ pc'[w] \notin {"body", "register", "done"}
                  /\ target'[w] = target[w]
               \/ target[w] = None /\ target'[w] = None /\ pc'[w] \notin {"body", "register"}
    PROVE  TasksInPlace'
<1>1. \A x \in Threads : creating[x] \in Tasks \union {None}
  BY DEF TypeOK
<1>2. \A i \in 1..Len(tasks) : tasks[i] \in Tasks
  BY DEF TypeOK
<1>3. \A w \in Workers : target'[w] = target[w]
  OBVIOUS
<1>4. \A w \in Workers : pc'[w] \in {"body", "register"} => pc[w] \in {"body", "register"} /\ target[w] \in Tasks
  BY DEF ThreadsInPlace
<1>5. \A w \in Workers : target[w] # None /\ pc[w] # "done" => pc'[w] # "done"
  OBVIOUS
<1>6. None \notin Tasks
  BY NoneAssumption DEF Futures
<1> QED
  BY <1>1, <1>2, <1>3, <1>4, <1>5, <1>6 DEF TasksInPlace

LEMMA ExecuteTasks ==
    ASSUME TypeOK, ThreadsInPlace, TasksInPlace, NEW x \in Threads, Execute(x)
    PROVE  TasksInPlace'
<1>0. Workers \subseteq Threads /\ Clients \subseteq Threads
  BY DEF Threads
<1>1. ASSUME NEW t \in Tasks, NEW D, BeginExecute(x, t, D) PROVE TasksInPlace'
  <2>1. pc'[x] = "register" /\ \A y \in Threads \ {x} : pc'[y] = pc[y]
    BY <1>1, GotoFacts DEF BeginExecute
  <2>2. creating'[x] = t /\ \A y \in Threads \ {x} : creating'[y] = creating[y]
    BY <1>1 DEF BeginExecute, TypeOK
  <2>3. /\ t \notin submitted /\ submitted' = submitted \union {t}
        /\ x \in Workers => pc[x] = "body"
        /\ UNCHANGED <<tasks, runs, target, state>>
    BY <1>0, <1>1 DEF BeginExecute, ThreadsInPlace
  <2>4. t # None
    BY NoneAssumption DEF Futures
  <2> QED
    BY <1>0, <2>1, <2>2, <2>3, <2>4 DEF TasksInPlace, IsSettled
<1>2. ASSUME NEW f, RegisterDependency(x, f) PROVE TasksInPlace'
  BY <1>2, TasksUndisturbed DEF RegisterDependency, IsSettled
<1>3. CASE EndExecute(x)
  <2> DEFINE t == creating[x]
  <2>1. PICK S \in SUBSET Asleep :
            GoNotifying(x, IF x \in Workers THEN "body" ELSE "idle", S)
    BY <1>3, NotifiedAsleep DEF EndExecute
  <2>2. /\ pc'[x] = IF x \in Workers THEN "body" ELSE "idle"
        /\ \A y \in Threads \ {x} :
               \/ pc'[y] = pc[y]
               \/ y \in Workers /\ pc[y] = "asleep" /\ pc'[y] = "locking"
    BY <2>1, GoFacts
  <2>3. pc[x] = "register" /\ UNCHANGED <<target, state, submitted, runs>>
    BY <1>3 DEF EndExecute
  <2>4. t \in Tasks /\ t \in submitted /\ runs[t] = 0 /\ ~IsSettled(t)
        /\ \A i \in 1..Len(tasks) : tasks[i] # t
    BY <2>3 DEF ThreadsInPlace, TasksInPlace, TypeOK
  <2>5. \A y \in Threads : creating'[y] = None
    <3>1. \A y \in Threads \ {x} : creating[y] = None
      BY <2>3 DEF ThreadsInPlace
    <3> QED
      BY <1>3, <3>1 DEF EndExecute, TypeOK
  <2>6. /\ Len(tasks') = Len(tasks) + 1 /\ tasks'[Len(tasks) + 1] = t
        /\ \A i \in 1..Len(tasks) : tasks'[i] = tasks[i]
        /\ Len(tasks) \in Nat
    BY <1>3, <2>4, AppendFacts DEF EndExecute, TypeOK
  <2>7. \A i \in 1..Len(tasks') : i \in 1..Len(tasks) \/ (i = Len(tasks) + 1 /\ tasks'[i] = t)
    BY <2>6
  <2> HIDE DEF t
  <2>8. \A i \in 1..Len(tasks') :
            tasks'[i] \in submitted /\ runs[tasks'[i]] = 0 /\ ~IsSettled(tasks'[i])
    BY <2>4, <2>6, <2>7 DEF TasksInPlace
  <2>9. \A i, j \in 1..Len(tasks') : tasks'[i] = tasks'[j] => i = j
    BY <2>4, <2>6, <2>7 DEF TasksInPlace
  <2> QED
    BY <1>0, <2>2, <2>3, <2>5, <2>8, <2>9 DEF TasksInPlace, IsSettled
<1> QED
  BY <1>1, <1>2, <1>3 DEF Execute

LEMMA SettleTasks ==
    ASSUME TypeOK, ThreadsInPlace, TasksInPlace, NEW x \in Threads, Settle(x)
    PROVE  TasksInPlace'
<1>0. Workers \subseteq Threads /\ Clients \subseteq Threads /\ Workers \intersect Clients = {}
  BY DisjointAssumption DEF Threads
<1>1. ASSUME NEW e \in External, x \in Clients, SettleExternal(x, e) PROVE TasksInPlace'
  <2>1. PICK s : StartSettling(x, e, s)
    BY <1>1 DEF SettleExternal
  <2>2. \A y \in Threads \ {x} : pc'[y] = pc[y] /\ target'[y] = target[y]
    BY <2>1, GotoFacts DEF StartSettling, TypeOK
  <2>3. \A t \in Tasks : IsSettled(t)' <=> IsSettled(t)
    BY <2>1, DisjointAssumption DEF StartSettling, IsSettled, TypeOK, Futures
  <2> QED
    BY <1>0, <1>1, <2>2, <2>3, TasksUndisturbed DEF SettleExternal
<1>2. CASE RunContinuation(x)
  BY <1>2, TasksUndisturbed DEF RunContinuation, IsSettled
<1>3. CASE EndSettling(x)
  <2>1. /\ pc'[x] = IF x \in Workers THEN "relock" ELSE "idle"
        /\ \A y \in Threads \ {x} : pc'[y] = pc[y]
    BY <1>3, GotoFacts DEF EndSettling
  <2>2. \A w \in Workers : target'[w] = target[w]
    BY <1>0, <1>3 DEF EndSettling, TypeOK
  <2>3. pc[x] = "settle" /\ UNCHANGED <<tasks, submitted, runs, creating, state>>
    BY <1>3 DEF EndSettling
  <2> QED
    BY <1>0, <2>1, <2>2, <2>3, TasksUndisturbed DEF IsSettled
<1> QED
  BY <1>1, <1>2, <1>3 DEF Settle

LEMMA ThreadLoopTasks ==
    ASSUME TypeOK, ThreadsInPlace, TasksInPlace, NEW w \in Workers, ThreadLoop(w)
    PROVE  TasksInPlace'
<1>0. /\ Workers \subseteq Threads /\ w \in Threads
      /\ None \notin Tasks
  BY NoneAssumption DEF Threads, Futures
<1>1. ASSUME NEW S \in SUBSET Asleep, LoopHead(w, S)
      PROVE  /\ pc'[w] = IF shutdown THEN "done" ELSE "scan"
             /\ \A y \in Threads \ {w} :
                    \/ pc'[y] = pc[y]
                    \/ y \in Workers /\ pc[y] = "asleep" /\ pc'[y] = "locking"
  BY <1>0, <1>1, GoFacts DEF LoopHead
<1>2. CASE EnterLoop(w)
  <2>1. /\ pc[w] = "locking"
        /\ LoopHead(w, {}) /\ {} \in SUBSET Asleep
        /\ UNCHANGED <<tasks, submitted, runs, creating, target, state>>
    BY <1>2 DEF EnterLoop
  <2>2. target[w] = None
    BY <1>0, <2>1 DEF ThreadsInPlace
  <2> QED
    BY <1>0, <1>1, <2>1, <2>2, TasksUndisturbed DEF IsSettled
<1>3. CASE SkipTask(w)
  BY <1>3, TasksUndisturbed DEF SkipTask, IsSettled
<1>4. CASE TakeTask(w)
  <2> DEFINE i == idx[w]
             t == tasks[i]
  <2>1. i \in 1..Len(tasks) /\ t \in Tasks
    BY <1>0, <1>4 DEF TakeTask, TypeOK
  <2>2. t \in submitted /\ runs[t] = 0 /\ ~IsSettled(t)
    BY <2>1 DEF TasksInPlace
  <2>3. pc[w] = "scan" /\ pc'[w] = "body" /\ \A y \in Threads \ {w} : pc'[y] = pc[y]
    BY <1>0, <1>4, GotoFacts DEF TakeTask
  <2>4. target'[w] = t /\ \A y \in Threads \ {w} : target'[y] = target[y]
    BY <1>0, <1>4 DEF TakeTask, TypeOK
  <2>5. runs'[t] = 1 /\ \A u \in Tasks \ {t} : runs'[u] = runs[u]
    BY <1>4, <2>1, <2>2 DEF TakeTask, TypeOK
  <2>6. UNCHANGED <<submitted, creating, state>>
    BY <1>4 DEF TakeTask
  <2>7. /\ Len(tasks') = Len(tasks) - 1 /\ Len(tasks) \in Nat
        /\ \A j \in 1..(Len(tasks) - 1) : tasks'[j] = IF j < i THEN tasks[j] ELSE tasks[j + 1]
    <3>1. tasks \in Seq(Tasks) /\ tasks' = RemoveAt(tasks, i)
      BY <1>4 DEF TakeTask, TypeOK
    <3> HIDE DEF i
    <3>2. /\ Len(RemoveAt(tasks, i)) = Len(tasks) - 1
          /\ \A j \in 1..(Len(tasks) - 1) :
                 RemoveAt(tasks, i)[j] = IF j < i THEN tasks[j] ELSE tasks[j + 1]
      BY <2>1, <3>1, RemoveAtFacts
    <3> QED
      BY <2>1, <3>1, <3>2
  <2> HIDE DEF t, i
  <2>8. \A j \in 1..Len(tasks') :
            \E k \in 1..Len(tasks) : k # i /\ tasks'[j] = tasks[k] /\ k = IF j < i THEN j ELSE j + 1
    <3> SUFFICES ASSUME NEW j \in 1..Len(tasks')
                 PROVE  \E k \in 1..Len(tasks) : k # i /\ tasks'[j] = tasks[k]
                                                 /\ k = IF j < i THEN j ELSE j + 1
      OBVIOUS
    <3>1. j \in 1..(Len(tasks) - 1) /\ i \in 1..Len(tasks)
      BY <2>1, <2>7
    <3>2. CASE j < i
      BY <2>7, <3>1, <3>2
    <3>3. CASE ~(j < i)
      <4>1. j + 1 \in 1..Len(tasks) /\ j + 1 # i
        BY <2>7, <3>1, <3>3
      <4> QED
        BY <2>7, <3>1, <3>3, <4>1
    <3> QED
      BY <3>2, <3>3
  <2>9. \A k \in 1..Len(tasks) : k # i => tasks[k] # t /\ tasks[k] \in Tasks
    BY <2>1 DEF TasksInPlace, TypeOK, t
  <2>10. \A j \in 1..Len(tasks') :
             /\ tasks'[j] \in submitted' /\ runs'[tasks'[j]] = 0 /\ state'[tasks'[j]] = "Undefined"
    BY  <2>5, <2>6, <2>8, <2>9 DEF TasksInPlace, IsSettled
  <2>11. \A j, k \in 1..Len(tasks') : tasks'[j] = tasks'[k] => j = k
    <3> SUFFICES ASSUME NEW j \in 1..Len(tasks'), NEW k \in 1..Len(tasks'), tasks'[j] = tasks'[k]
                 PROVE  j = k
      OBVIOUS
    <3>1. PICK m \in 1..Len(tasks) : tasks'[j] = tasks[m] /\ m = IF j < i THEN j ELSE j + 1
      BY <2>8
    <3>2. PICK n \in 1..Len(tasks) : tasks'[k] = tasks[n] /\ n = IF k < i THEN k ELSE k + 1
      BY <2>8
    <3>3. \A k1, k2 \in 1..Len(tasks) : tasks[k1] = tasks[k2] => k1 = k2
      BY DEF TasksInPlace
    <3>4. m = n
      BY <3>1, <3>2, <3>3
    <3> QED
      BY <2>1, <2>7, <3>1, <3>2, <3>4
  <2>12. \A x \in Threads : creating[x] # None =>
             /\ creating[x] \in Tasks /\ creating[x] # t
             /\ \A j \in 1..Len(tasks') : tasks'[j] # creating[x]
    BY <2>1, <2>8 DEF TasksInPlace, TypeOK, t
  <2>13. \A v \in Workers \ {w} : target[v] # t
    BY <2>1, <2>2, <1>0 DEF TasksInPlace
  <2>14. target[w] = None
    BY <1>0, <2>3 DEF ThreadsInPlace
  <2>15. \A v \in Workers : target[v] # None /\ pc[v] \in {"body", "register"} => target[v] \in Tasks
    BY DEF ThreadsInPlace
  <2>16. \A x \in Threads : creating[x] # None =>
             /\ creating[x] \in submitted'
             /\ runs'[creating[x]] = 0 /\ ~IsSettled(creating[x])'
    BY <2>5, <2>6, <2>12 DEF TasksInPlace, IsSettled
  <2>17. \A v \in Workers : target'[v] # None => runs'[target'[v]] = 1
    <3>1. \A v \in Workers \ {w} : target[v] # None => target[v] \in Tasks
      BY DEF ThreadsInPlace, TypeOK, Locations, Threads
    <3> QED
      BY <1>0, <2>4, <2>5, <2>13, <3>1 DEF TasksInPlace
  <2>18. \A v \in Workers : pc'[v] \in {"body", "register"} => state'[target'[v]] = "Undefined"
    BY <1>0, <2>2, <2>3, <2>4, <2>6 DEF TasksInPlace, IsSettled
  <2>19. \A u, v \in Workers : target'[u] = target'[v] /\ u # v => target'[u] = None
    BY <1>0, <2>4, <2>13 DEF TasksInPlace
  <2>20. \A u \in Tasks : runs'[u] <= 1
    BY <2>5 DEF TasksInPlace
  <2>21. \A u \in Tasks : runs'[u] > 0 /\ ~IsSettled(u)'
             => \E v \in Workers : target'[v] = u /\ pc'[v] # "done"
    <3> SUFFICES ASSUME NEW u \in Tasks, runs'[u] > 0, ~IsSettled(u)'
                 PROVE  \E v \in Workers : target'[v] = u /\ pc'[v] # "done"
      OBVIOUS
    <3>1. CASE u = t
      BY <1>0, <2>3, <2>4, <3>1
    <3>2. CASE u # t
      <4>1. PICK v \in Workers : target[v] = u /\ pc[v] # "done"
        BY <2>5, <2>6, <3>2 DEF TasksInPlace, IsSettled
      <4>2. v # w
        BY <1>0, <2>14, <4>1
      <4> QED
        BY <1>0, <2>3, <2>4, <4>1, <4>2
    <3> QED
      BY <3>1, <3>2
  <2>22. \A u \in Tasks \ submitted' : runs'[u] = 0 /\ ~IsSettled(u)'
    BY <2>2, <2>5, <2>6 DEF TasksInPlace, IsSettled
  <2> QED
    BY <2>6, <2>10, <2>11, <2>12, <2>16, <2>17, <2>18, <2>19, <2>20, <2>21, <2>22 DEF TasksInPlace, IsSettled
<1>5. CASE Sleep(w)
  <2>1. pc[w] = "scan" /\ UNCHANGED <<tasks, submitted, runs, creating, target, state>>
    BY <1>5 DEF Sleep
  <2>2. pc'[w] = "asleep" /\ \A y \in Threads \ {w} : pc'[y] = pc[y]
    BY <1>0, <1>5, GotoFacts DEF Sleep
  <2> QED
    BY <1>0, <2>1, <2>2, TasksUndisturbed DEF IsSettled
<1>6. CASE WakeUp(w)
  <2>1. pc'[w] = "locking" /\ \A y \in Threads \ {w} : pc'[y] = pc[y]
    BY <1>0, <1>6, GotoFacts DEF WakeUp
  <2> QED
    BY <1>0, <1>6, <2>1, TasksUndisturbed DEF WakeUp, IsSettled
<1>7. CASE FinishBody(w)
  <2>0. PICK t : t = target[w]
    OBVIOUS
  <2>1. PICK s \in TaskOutcomes : StartSettling(w, t, s)
    BY <1>7, <2>0 DEF FinishBody
  <2>2. s # "Undefined" /\ pc[w] = "body"
    BY <1>7, OutcomeAssumption DEF FinishBody
  <2>3. t \in Tasks /\ runs[t] = 1 /\ t \in Futures
    BY <1>0, <2>0, <2>2 DEF ThreadsInPlace, TasksInPlace, Futures
  <2>4. pc'[w] = "settle" /\ \A y \in Threads \ {w} : pc'[y] = pc[y]
    BY <1>0, <2>1, GotoFacts DEF StartSettling
  <2>5. \A y \in Threads : target'[y] = target[y]
    BY <1>0, <2>0, <2>1 DEF StartSettling, TypeOK
  <2>6. IsSettled(t)' /\ \A u \in Tasks \ {t} : IsSettled(u)' <=> IsSettled(u)
    BY <2>1, <2>2, <2>3 DEF StartSettling, IsSettled, TypeOK, Futures
  <2>7. UNCHANGED <<tasks, submitted, runs, creating>>
    BY <1>7 DEF FinishBody
  <2>8. \A x \in Threads : creating[x] \in Tasks \union {None}
    BY DEF TypeOK
  <2>9. \A i \in 1..Len(tasks) : tasks[i] \in Tasks
    BY DEF TypeOK
  <2>10. \A v \in Workers \ {w} : target[v] # t
    BY <1>0, <2>0, <2>3 DEF TasksInPlace
  <2>11. \A v \in Workers : pc'[v] \in {"body", "register"} => state'[target'[v]] = "Undefined"
    <3>1. \A v \in Workers \ {w} : pc[v] \in {"body", "register"} => target[v] \in Tasks
      BY DEF ThreadsInPlace
    <3> QED
      BY <1>0, <2>0, <2>4, <2>5, <2>6, <2>10, <3>1 DEF TasksInPlace, IsSettled
  <2>12. \A u \in Tasks \ submitted : runs[u] = 0 /\ ~IsSettled(u)'
    BY <2>3, <2>6 DEF TasksInPlace
  <2>13. \A u \in Tasks : runs[u] > 0 /\ ~IsSettled(u)'
             => \E v \in Workers : target'[v] = u /\ pc'[v] # "done"
    <3> SUFFICES ASSUME NEW u \in Tasks, runs[u] > 0, ~IsSettled(u)'
                 PROVE  \E v \in Workers : target'[v] = u /\ pc'[v] # "done"
      OBVIOUS
    <3>1. ~IsSettled(u)
      BY <2>6 DEF IsSettled
    <3>2. PICK v \in Workers : target[v] = u /\ pc[v] # "done"
      BY <3>1 DEF TasksInPlace
    <3> QED
      BY <1>0, <2>4, <2>5, <3>2
  <2> QED
    BY <1>0, <2>3, <2>5, <2>6, <2>7, <2>8, <2>9, <2>11, <2>12, <2>13 DEF TasksInPlace, IsSettled
<1>8. CASE AfterTask(w)
  <2>1. PICK S \in SUBSET Asleep : LoopHead(w, S)
    BY <1>8, NotifiedAsleep DEF AfterTask
  <2>2. pc[w] = "relock" /\ UNCHANGED <<tasks, submitted, runs, creating, state>>
    BY <1>8 DEF AfterTask
  <2>3. target'[w] = None /\ \A y \in Threads \ {w} : target'[y] = target[y]
    BY <1>0, <1>8 DEF AfterTask, TypeOK
  <2>4. IsSettled(target[w])
    BY <1>0, <2>2 DEF ThreadsInPlace
  <2>5. \A v \in Workers : pc'[v] \in {"body", "register"}
            => v # w /\ pc[v] \in {"body", "register"}
    BY <1>0, <1>1, <2>1
  <2>6. \A u \in Tasks : runs[u] > 0 /\ ~IsSettled(u)
             => \E v \in Workers : target'[v] = u /\ pc'[v] # "done"
    <3> SUFFICES ASSUME NEW u \in Tasks, runs[u] > 0, ~IsSettled(u)
                 PROVE  \E v \in Workers : target'[v] = u /\ pc'[v] # "done"
      OBVIOUS
    <3>1. PICK v \in Workers : target[v] = u /\ pc[v] # "done"
      BY DEF TasksInPlace
    <3>2. v # w
      BY <2>4, <3>1
    <3> QED
      BY <1>0, <1>1, <2>1, <2>3, <3>1, <3>2
  <2> QED
    BY <1>0, <2>2, <2>3, <2>5, <2>6 DEF TasksInPlace, IsSettled
<1> QED
  BY <1>2, <1>3, <1>4, <1>5, <1>6, <1>7, <1>8 DEF ThreadLoop

LEMMA DestroyTasks ==
    ASSUME TypeOK, ThreadsInPlace, TasksInPlace, Destroy PROVE TasksInPlace'
<1>0. Workers \subseteq Threads
  BY DEF Threads
<1>1. CASE ShutdownNotifyThreads
  <2>1. \A y \in Threads : \/ pc'[y] = pc[y]
                           \/ y \in Workers /\ pc[y] = "asleep" /\ pc'[y] = "locking"
    BY <1>1 DEF ShutdownNotifyThreads, Asleep
  <2> QED
    BY <1>0, <1>1, <2>1, TasksUndisturbed DEF ShutdownNotifyThreads, IsSettled
<1>2. CASE ShutdownJoinThreads \/ DestructorReturns
  BY <1>2, TasksUndisturbed DEF ShutdownJoinThreads, DestructorReturns, IsSettled
<1>3. CASE DestroyTask
  <2>0. PICK t \in Tasks : t = Head(tasks) /\ tasks # <<>>
    <3>1. tasks \in Seq(Tasks) /\ tasks # <<>>
      BY <1>3 DEF DestroyTask, TypeOK
    <3> QED
      BY <3>1, TailFacts
  <2>1. /\ t = tasks[1] /\ 1 \in 1..Len(tasks) /\ Len(tasks) \in Nat
        /\ Len(tasks') = Len(tasks) - 1
        /\ \A j \in 1..(Len(tasks) - 1) : tasks'[j] = tasks[j + 1]
    <3>1. tasks \in Seq(Tasks) /\ tasks # <<>> /\ tasks' = Tail(tasks)
      BY <1>3 DEF DestroyTask, TypeOK
    <3> QED
      BY <2>0, <3>1, TailFacts
  <2>2. t \in submitted /\ runs[t] = 0
    BY <2>1 DEF TasksInPlace
  <2>3. IsSettled(t)' /\ \A u \in Tasks \ {t} : IsSettled(u)' <=> IsSettled(u)
    <3>1. state' = [state EXCEPT ![t] = "BrokenPromise"] /\ state \in [Futures -> FutureStates]
      BY <1>3, <2>0 DEF DestroyTask, TypeOK
    <3> QED
      BY <3>1 DEF IsSettled, Futures
  <2>4. UNCHANGED <<submitted, runs, creating, target, pc>>
    BY <1>3 DEF DestroyTask
  <2>5. \A k \in 1..Len(tasks) : k # 1 => tasks[k] # t /\ tasks[k] \in Tasks
    BY <2>1 DEF TasksInPlace, TypeOK
  <2>6. \A j \in 1..Len(tasks') : j + 1 \in 1..Len(tasks) /\ j + 1 # 1 /\ tasks'[j] = tasks[j + 1]
    BY <2>1
  <2>7. \A j \in 1..Len(tasks') :
            tasks'[j] \in submitted /\ runs[tasks'[j]] = 0 /\ state'[tasks'[j]] = "Undefined"
    BY <2>3, <2>5, <2>6 DEF TasksInPlace, IsSettled
  <2>8. \A j, k \in 1..Len(tasks') : tasks'[j] = tasks'[k] => j = k
    <3>1. \A j, k \in 1..Len(tasks) : tasks[j] = tasks[k] => j = k
      BY DEF TasksInPlace
    <3> SUFFICES ASSUME NEW j \in 1..Len(tasks'), NEW k \in 1..Len(tasks'), tasks'[j] = tasks'[k]
                 PROVE  j = k
      OBVIOUS
    <3>2. j + 1 = k + 1
      BY <2>6, <3>1
    <3> QED
      BY <3>2
  <2>9. \A x \in Threads : creating[x] # None =>
            /\ creating[x] \in submitted /\ runs[creating[x]] = 0 /\ ~IsSettled(creating[x])'
            /\ \A j \in 1..Len(tasks') : tasks'[j] # creating[x]
    <3> SUFFICES ASSUME NEW x \in Threads, creating[x] # None
                 PROVE  /\ creating[x] \in submitted /\ runs[creating[x]] = 0
                        /\ state'[creating[x]] = "Undefined"
                        /\ \A j \in 1..Len(tasks') : tasks'[j] # creating[x]
      BY <2>4 DEF IsSettled
    <3>1. /\ creating[x] \in submitted /\ runs[creating[x]] = 0 /\ ~IsSettled(creating[x])
          /\ \A i \in 1..Len(tasks) : tasks[i] # creating[x]
      BY DEF TasksInPlace
    <3>2. creating[x] \in Tasks /\ creating[x] # t
      BY <2>1, <3>1 DEF TypeOK
    <3> QED
      BY <2>3, <2>6, <3>1, <3>2 DEF IsSettled
  <2>10. \A v \in Workers : pc[v] \in {"body", "register"} => ~IsSettled(target[v])'
    <3>1. \A v \in Workers : pc[v] \in {"body", "register"} =>
              target[v] \in Tasks /\ target[v] # None /\ runs[target[v]] = 1
      BY NoneAssumption DEF ThreadsInPlace, TasksInPlace, Futures
    <3> QED
      BY <2>2, <2>3, <2>4, <3>1 DEF TasksInPlace, IsSettled
  <2>11. \A u \in Tasks \ submitted : ~IsSettled(u)'
    BY <2>2, <2>3 DEF TasksInPlace
  <2>12. \A u \in Tasks : ~IsSettled(u)' => ~IsSettled(u)
    BY <2>3 DEF IsSettled
  <2> QED
    BY <2>4, <2>7, <2>8, <2>9, <2>10, <2>11, <2>12 DEF TasksInPlace, IsSettled
<1> QED
  BY <1>1, <1>2, <1>3 DEF Destroy

LEMMA NextTasks ==
    TypeOK /\ ThreadsInPlace /\ TasksInPlace /\ [Next]_vars => TasksInPlace'
<1> SUFFICES ASSUME TypeOK, ThreadsInPlace, TasksInPlace, [Next]_vars PROVE TasksInPlace'
  OBVIOUS
<1>1. CASE UNCHANGED vars
  BY <1>1, TasksUndisturbed DEF vars, IsSettled
<1> QED
  BY <1>1, ExecuteTasks, SettleTasks, ThreadLoopTasks, DestroyTasks DEF Next, Gone

-----------------------------------------------------------------------------
(* The dependencies of a task                                              *)

\* A settled future stays settled.
LEMMA SettledForever ==
    ASSUME TypeOK, ThreadsInPlace, [Next]_vars, NEW f \in Futures, IsSettled(f)
    PROVE  IsSettled(f)'
<1> USE DEF IsSettled, TypeOK
<1>1. ASSUME NEW x, NEW g, NEW s, s # "Undefined", StartSettling(x, g, s) PROVE IsSettled(f)'
  BY <1>1 DEF StartSettling
<1>2. ASSUME NEW x \in Threads, Execute(x) PROVE IsSettled(f)'
  BY <1>2 DEF Execute, BeginExecute, RegisterDependency, EndExecute
<1>3. ASSUME NEW x \in Threads, Settle(x) PROVE IsSettled(f)'
  BY <1>1, <1>3 DEF Settle, SettleExternal, RunContinuation, EndSettling
<1>4. ASSUME NEW w \in Workers, ThreadLoop(w) PROVE IsSettled(f)'
  BY <1>1, <1>4, OutcomeAssumption
     DEF ThreadLoop, EnterLoop, SkipTask, TakeTask, Sleep, WakeUp, FinishBody, AfterTask
<1>5. CASE Destroy
  BY <1>5 DEF Destroy, ShutdownNotifyThreads, ShutdownJoinThreads, DestroyTask, DestructorReturns
<1>6. CASE UNCHANGED vars
  BY <1>6 DEF vars
<1> QED
  BY <1>2, <1>3, <1>4, <1>5, <1>6 DEF Next, Gone

LEMMA NextDependenciesHeld ==
    TypeOK /\ ThreadsInPlace /\ TasksInPlace /\ DependenciesHeld /\ [Next]_vars => DependenciesHeld'
<1> SUFFICES ASSUME TypeOK, ThreadsInPlace, TasksInPlace, DependenciesHeld, [Next]_vars,
                    NEW t \in submitted', NEW f \in dependencies'[t]
             PROVE  DependencyHeld(t, f)'
  BY DEF DependenciesHeld
<1>0. \A g \in Futures : IsSettled(g) => IsSettled(g)'
  BY SettledForever
\* A step that keeps the history and every reference to the activator of t.
<1>1. ASSUME UNCHANGED <<submitted, dependencies>>,
             \/ f \in activator[t] => f \in activator'[t]
             \/ IsSettled(f)',
             \A x \in Threads : creating[x] = t /\ f \in todo[x] =>
                 creating'[x] = t /\ f \in todo'[x]
      PROVE  DependencyHeld(t, f)'
  <2>1. DependencyHeld(t, f) /\ f \in Futures
    BY <1>1 DEF DependenciesHeld, TypeOK
  <2> QED
    BY <1>0, <1>1, <2>1 DEF DependencyHeld
<1>2. ASSUME NEW x \in Threads, NEW u \in Tasks,
             NEW D \in SUBSET (submitted \union External), BeginExecute(x, u, D)
      PROVE  DependencyHeld(t, f)'
  <2>1. creating'[x] = u /\ todo'[x] = D /\ dependencies'[u] = D
    BY <1>2 DEF BeginExecute, TypeOK
  <2>2. CASE t = u
    BY <2>1, <2>2 DEF DependencyHeld
  <2>3. CASE t # u
    <3>1. /\ t \in submitted /\ dependencies'[t] = dependencies[t]
          /\ activator'[t] = activator[t] /\ state' = state
          /\ \A y \in Threads \ {x} : creating'[y] = creating[y] /\ todo'[y] = todo[y]
      BY <1>2, <2>3 DEF BeginExecute, TypeOK
    <3>2. creating[x] = None /\ t # None
      BY <1>2, <3>1, NoneAssumption DEF BeginExecute, ThreadsInPlace, TypeOK, Futures
    <3>3. DependencyHeld(t, f)
      BY <3>1 DEF DependenciesHeld
    <3> QED
      BY <3>1, <3>2, <3>3 DEF DependencyHeld, IsSettled
  <2> QED
    BY <2>2, <2>3
<1>3. ASSUME NEW x \in Threads, NEW g \in Futures, RegisterDependency(x, g)
      PROVE  DependencyHeld(t, f)'
  <2>1. /\ pc[x] = "register" /\ creating[x] \in Tasks
        /\ UNCHANGED <<submitted, dependencies, creating, state>>
        /\ todo' = [todo EXCEPT ![x] = @ \ {g}]
    BY <1>3 DEF RegisterDependency, ThreadsInPlace, TypeOK
  <2>2. DependencyHeld(t, f) /\ t \in Tasks
    BY <2>1 DEF DependenciesHeld, TypeOK
  <2>3. f \in activator[t] => f \in activator'[t]
    <3>1. CASE IsSettled(g)
      BY <1>3, <3>1 DEF RegisterDependency
    <3>2. CASE ~IsSettled(g)
      <4>1. activator' = [activator EXCEPT ![creating[x]] = @ \union {g}]
        BY <1>3, <3>2 DEF RegisterDependency
      <4> QED
        BY <2>1, <2>2, <4>1 DEF TypeOK
    <3> QED
      BY <3>1, <3>2
  <2>4. CASE t = creating[x] /\ f = g
    <3>1. CASE IsSettled(g)
      BY <2>1, <2>4, <3>1 DEF DependencyHeld, IsSettled
    <3>2. CASE ~IsSettled(g)
      <4>1. activator' = [activator EXCEPT ![creating[x]] = @ \union {g}]
        BY <1>3, <3>2 DEF RegisterDependency
      <4>2. f \in activator'[t]
        BY <2>2, <2>4, <4>1 DEF TypeOK
      <4> QED
        BY <4>2 DEF DependencyHeld
    <3> QED
      BY <3>1, <3>2
  <2>5. CASE ~(t = creating[x] /\ f = g)
    <3>1. \A y \in Threads : creating[y] = t /\ f \in todo[y] => f \in todo'[y]
      BY <2>1, <2>5 DEF TypeOK
    <3> QED
      BY <1>1, <2>1, <2>3, <3>1
  <2> QED
    BY <2>4, <2>5
<1>4. ASSUME NEW x \in Threads, EndExecute(x) PROVE DependencyHeld(t, f)'
  <2>1. UNCHANGED <<submitted, dependencies, todo, state>> /\ todo[x] = {}
    BY <1>4 DEF EndExecute
  <2>2. f # Local /\ t \in Tasks
    BY <2>1, LocalAssumption DEF TypeOK
  <2>3. f \in activator[t] => f \in activator'[t]
    BY <1>4, <2>2 DEF EndExecute, Drop, TypeOK
  <2>4. \A y \in Threads \ {x} : creating'[y] = creating[y]
    BY <1>4 DEF EndExecute, TypeOK
  <2> QED
    BY <1>1, <2>1, <2>3, <2>4
<1>5. ASSUME NEW x \in Threads, Settle(x) PROVE DependencyHeld(t, f)'
  <2>1. UNCHANGED <<submitted, dependencies, creating, todo>>
    BY <1>5 DEF Settle, SettleExternal, RunContinuation, EndSettling
  <2>2. CASE RunContinuation(x)
    <3>1. IsSettled(target[x]) /\ state' = state
      BY <2>2 DEF RunContinuation, ThreadsInPlace
    <3>2. CASE f = target[x]
      BY <1>1, <2>1, <3>1, <3>2 DEF IsSettled
    <3>3. CASE f # target[x]
      <4>1. f \in activator[t] => f \in activator'[t]
        BY <2>1, <2>2, <3>3 DEF RunContinuation, Drop, TypeOK
      <4> QED
        BY <1>1, <2>1, <4>1
    <3> QED
      BY <3>2, <3>3
  <2>3. CASE ~RunContinuation(x)
    <3>1. UNCHANGED activator
      BY <1>5, <2>3 DEF Settle, SettleExternal, EndSettling
    <3> QED
      BY <1>1, <2>1, <3>1
  <2> QED
    BY <2>2, <2>3
<1>6. ASSUME NEW w \in Workers, ThreadLoop(w) PROVE DependencyHeld(t, f)'
  <2>1. UNCHANGED <<submitted, dependencies, creating, todo, activator>>
    BY <1>6 DEF ThreadLoop, EnterLoop, SkipTask, TakeTask, Sleep, WakeUp, FinishBody, AfterTask
  <2> QED
    BY <1>1, <2>1
<1>7. CASE Destroy
  <2>1. UNCHANGED <<submitted, dependencies, creating, todo>>
    BY <1>7 DEF Destroy, ShutdownNotifyThreads, ShutdownJoinThreads, DestroyTask, DestructorReturns
  <2>2. CASE DestroyTask
    <3>0. PICK h \in Tasks : h = Head(tasks)
      BY <2>2, TailFacts DEF DestroyTask, TypeOK
    <3>1. CASE f = h
      <4>1. state'[f] = "BrokenPromise"
        BY <2>2, <3>0, <3>1 DEF DestroyTask, TypeOK, Futures
      <4> QED
        BY <4>1 DEF DependencyHeld, IsSettled
    <3>2. CASE f # h
      <4>1. t \in Tasks
        BY <2>1 DEF TypeOK
      <4>2. f \in activator[t] => f \in activator'[t]
        BY <2>2, <3>0, <3>2, <4>1 DEF DestroyTask
      <4> QED
        BY <1>1, <2>1, <4>2
    <3> QED
      BY <3>1, <3>2
  <2>3. CASE ~DestroyTask
    <3>1. UNCHANGED activator
      BY <1>7, <2>3 DEF Destroy, ShutdownNotifyThreads, ShutdownJoinThreads, DestructorReturns
    <3> QED
      BY <1>1, <2>1, <3>1
  <2> QED
    BY <2>2, <2>3
<1>8. CASE UNCHANGED vars
  BY <1>1, <1>8 DEF vars
<1> QED
  BY <1>2, <1>3, <1>4, <1>5, <1>6, <1>7, <1>8 DEF Next, Execute, Gone

LEMMA NextDependenciesSettled == IInv /\ [Next]_vars => DependenciesSettledBeforeRun'
<1> SUFFICES ASSUME IInv, [Next]_vars, NEW t \in Tasks, runs'[t] > 0, NEW f \in dependencies'[t]
             PROVE  IsSettled(f)'
  BY DEF DependenciesSettledBeforeRun
<1> USE DEF IInv
<1>0. \A g \in Futures : IsSettled(g) => IsSettled(g)'
  BY SettledForever
<1>1. ASSUME runs'[t] = runs[t], dependencies'[t] = dependencies[t] PROVE IsSettled(f)'
  <2>1. f \in Futures /\ IsSettled(f)
    BY <1>1 DEF TypeOK, DependenciesSettledBeforeRun
  <2> QED
    BY <1>0, <2>1
<1>2. ASSUME NEW x \in Threads, NEW u \in Tasks,
             NEW D \in SUBSET (submitted \union External), BeginExecute(x, u, D)
      PROVE  IsSettled(f)'
  <2>1. u \notin submitted /\ runs' = runs
    BY <1>2 DEF BeginExecute
  <2>2. t # u
    BY <2>1 DEF TasksInPlace, TypeOK
  <2> QED
    BY <1>1, <1>2, <2>1, <2>2 DEF BeginExecute, TypeOK
<1>3. ASSUME NEW x \in Threads, NEW g \in Futures, RegisterDependency(x, g) \/ EndExecute(x)
      PROVE  IsSettled(f)'
  BY <1>1, <1>3 DEF RegisterDependency, EndExecute
<1>4. ASSUME NEW x \in Threads, Settle(x) PROVE IsSettled(f)'
  BY <1>1, <1>4 DEF Settle, SettleExternal, RunContinuation, EndSettling
<1>5. ASSUME NEW w \in Workers, TakeTask(w) PROVE IsSettled(f)'
  <2>1. PICK u \in Tasks : \E i \in 1..Len(tasks) :
            /\ u = tasks[i] /\ IsTaskReady(u)
            /\ runs' = [runs EXCEPT ![u] = @ + 1]
    <3>1. idx[w] \in 1..Len(tasks) /\ tasks[idx[w]] \in Tasks
      BY <1>5 DEF TakeTask, TypeOK, Threads
    <3> QED
      BY <1>5, <3>1 DEF TakeTask
  <2>2. UNCHANGED dependencies
    BY <1>5 DEF TakeTask
  <2>3. CASE t = u
    <3>1. t \in submitted /\ \A x \in Threads : creating[x] # t
      BY <2>1, <2>3, NoneAssumption DEF TasksInPlace, Futures
    <3>2. DependencyHeld(t, f) /\ f \in Futures
      BY <2>2, <3>1 DEF DependenciesHeld, TypeOK
    <3>3. IsSettled(f)
      BY <2>1, <2>3, <3>1, <3>2 DEF DependencyHeld, IsTaskReady
    <3> QED
      BY <1>0, <3>2, <3>3
  <2>4. CASE t # u
    BY <1>1, <2>1, <2>2, <2>4 DEF TypeOK
  <2> QED
    BY <2>3, <2>4
<1>6. ASSUME NEW w \in Workers, ThreadLoop(w), ~TakeTask(w) PROVE IsSettled(f)'
  BY <1>1, <1>6 DEF ThreadLoop, EnterLoop, SkipTask, Sleep, WakeUp, FinishBody, AfterTask
<1>7. CASE Destroy
  BY <1>1, <1>7
     DEF Destroy, ShutdownNotifyThreads, ShutdownJoinThreads, DestroyTask, DestructorReturns
<1>8. CASE UNCHANGED vars
  BY <1>1, <1>8 DEF vars
<1>9. ASSUME NEW x \in Threads, Execute(x) PROVE IsSettled(f)'
  <2>1. CASE EndExecute(x)
    BY <1>1, <2>1 DEF EndExecute
  <2> QED
    BY <1>2, <1>3, <1>9, <2>1 DEF Execute
<1> QED
  BY <1>4, <1>5, <1>6, <1>7, <1>8, <1>9 DEF Next, Gone

-----------------------------------------------------------------------------
(* The theorems                                                            *)

LEMMA InitIInv == Init => IInv
<1> SUFFICES ASSUME Init PROVE IInv
  OBVIOUS
<1>1. DependenciesHeld /\ DependenciesSettledBeforeRun
  BY DEF Init, DependenciesHeld, DependenciesSettledBeforeRun
<1> QED
  BY <1>1, InitTypeOK, InitThreads, InitTasks DEF IInv

LEMMA NextIInv == IInv /\ [Next]_vars => IInv'
BY NextTypeOK, NextThreads, NextTasks, NextDependenciesHeld, NextDependenciesSettled DEF IInv

LEMMA SpecIInv == Spec => []IInv
BY InitIInv, NextIInv, PTL DEF Spec

\* Every reachable state of the pool is well formed.
THEOREM TypeCorrect == Spec => []TypeOK
<1>1. IInv => TypeOK
  BY DEF IInv
<1> QED
  BY <1>1, SpecIInv, PTL

\* A callable never starts before all the futures it was given are settled: for any
\* pool, any graph of dependencies, whoever settles them and however Execute races
\* with the threads that do.
THEOREM DependencyOrder == Spec => []DependenciesSettledBeforeRun
<1>1. IInv => DependenciesSettledBeforeRun
  BY DEF IInv
<1> QED
  BY <1>1, SpecIInv, PTL

\* Every task is taken by at most one worker, and one in the list is untouched.
THEOREM TaskTakenOnce == Spec => []TakenOnce
<1>1. IInv => TakenOnce
  <2> SUFFICES ASSUME IInv PROVE TakenOnce
    OBVIOUS
  <2>1. \A t \in Queued : \E i \in 1..Len(tasks) : t = tasks[i]
    BY DEF IInv, TypeOK, Queued, ToSet
  <2> QED
    BY <2>1 DEF IInv, TasksInPlace, TakenOnce
<1> QED
  BY <1>1, SpecIInv, PTL

-----------------------------------------------------------------------------
(* The refinement of TaskGraph                                             *)

LEMMA StatusType == TypeOK =>
    /\ Status \in [Tasks -> {"new", "waiting", "running", "done", "broken"}]
    /\ \A t \in Tasks :
           /\ Status[t] = "new" <=> t \notin submitted
           /\ Status[t] \in {"done", "broken"} <=> t \in submitted /\ IsSettled(t)
           /\ Status[t] = "running" <=> t \in submitted /\ ~IsSettled(t) /\ runs[t] > 0
           /\ Status[t] = "waiting" <=> t \in submitted /\ ~IsSettled(t) /\ ~(runs[t] > 0)
<1> SUFFICES ASSUME TypeOK, NEW t \in Tasks
             PROVE  /\ StatusOf(t) \in {"new", "waiting", "running", "done", "broken"}
                    /\ StatusOf(t) = "new" <=> t \notin submitted
                    /\ StatusOf(t) \in {"done", "broken"} <=> t \in submitted /\ IsSettled(t)
                    /\ StatusOf(t) = "running" <=> t \in submitted /\ ~IsSettled(t) /\ runs[t] > 0
                    /\ StatusOf(t) = "waiting" <=> t \in submitted /\ ~IsSettled(t) /\ ~(runs[t] > 0)
  BY DEF Status
<1>1. state[t] \in FutureStates
  BY DEF TypeOK, Futures
<1>2. CASE t \notin submitted
  BY <1>2 DEF StatusOf
<1>3. CASE t \in submitted /\ state[t] = "BrokenPromise"
  BY <1>3 DEF StatusOf, IsSettled
<1>4. CASE t \in submitted /\ state[t] \in {"Ready", "Exception"}
  BY <1>4 DEF StatusOf, IsSettled
<1>5. CASE t \in submitted /\ state[t] = "Undefined"
  BY <1>5 DEF StatusOf, IsSettled
<1> QED
  BY <1>1, <1>2, <1>3, <1>4, <1>5 DEF FutureStates

LEMMA StatusChange ==
    ASSUME NEW t \in Tasks, NEW s, StatusOf(t)' = s,
           \A u \in Tasks \ {t} : StatusOf(u)' = StatusOf(u)
    PROVE  Status' = [Status EXCEPT ![t] = s]
BY DEF Status

LEMMA GraphStutter ==
    ASSUME UNCHANGED <<submitted, runs, state, dependencies, destructor>>
    PROVE  UNCHANGED Graph!vars
BY DEF Graph!vars, Status, StatusOf, SettledExternal, IsSettled

LEMMA InitGraph == Init => Graph!Init
<1> SUFFICES ASSUME Init PROVE Graph!Init
  OBVIOUS
<1>1. Status = [t \in Tasks |-> "new"]
  BY DEF Init, Status, StatusOf
<1>2. SettledExternal = {}
  BY DEF Init, SettledExternal, IsSettled, Futures
<1> QED
  BY <1>1, <1>2 DEF Init, Graph!Init

LEMMA StepGraph == IInv /\ IInv' /\ [Next]_vars => [Graph!Next]_Graph!vars
<1> SUFFICES ASSUME IInv, IInv', [Next]_vars PROVE [Graph!Next]_Graph!vars
  OBVIOUS
<1> USE DEF IInv
<1>1. ASSUME NEW x \in Threads, NEW t \in Tasks,
             NEW D \in SUBSET (submitted \union External), BeginExecute(x, t, D)
      PROVE  Graph!Next
  <2>1. /\ t \notin submitted /\ submitted' = submitted \union {t}
        /\ UNCHANGED <<runs, state, destructor>>
    BY <1>1 DEF BeginExecute
  <2>2. runs[t] = 0 /\ ~IsSettled(t)
    BY <2>1 DEF TasksInPlace
  <2>3. Status[t] = "new"
    BY <2>1, StatusType
  <2>4. destructor = "alive" \/ \E u \in Tasks : Status[u] = "running"
    <3>1. CASE pc[x] = "body"
      <4>1. x \in Workers
        BY <3>1 DEF ThreadsInPlace, Threads
      <4>2. target[x] \in Tasks /\ target[x] # None
        BY <3>1, <4>1, NoneAssumption DEF ThreadsInPlace, Futures
      <4>3. runs[target[x]] = 1 /\ ~IsSettled(target[x])
        BY <3>1, <4>1, <4>2 DEF TasksInPlace
      <4>4. target[x] \in submitted
        BY <4>2, <4>3 DEF TasksInPlace
      <4> QED
        BY <4>2, <4>3, <4>4, StatusType
    <3>2. CASE pc[x] # "body"
      BY <1>1, <3>2 DEF BeginExecute
    <3> QED
      BY <3>1, <3>2
  <2>5. Status' = [Status EXCEPT ![t] = "waiting"]
    <3>1. StatusOf(t)' = "waiting"
      BY <2>1, <2>2 DEF StatusOf, IsSettled
    <3>2. \A u \in Tasks \ {t} : StatusOf(u)' = StatusOf(u)
      BY <2>1 DEF StatusOf, IsSettled
    <3> QED
      BY <3>1, <3>2, StatusChange
  <2>6. dependencies' = [dependencies EXCEPT ![t] = D]
    BY <1>1 DEF BeginExecute
  <2>7. SettledExternal' = SettledExternal
    BY <2>1 DEF SettledExternal, IsSettled
  <2>8. D \in SUBSET (Graph!Submitted \union External)
    BY StatusType DEF Graph!Submitted, TypeOK
  <2>9. Graph!Submit(t, D)
    BY <2>1, <2>3, <2>4, <2>5, <2>6, <2>7 DEF Graph!Submit, Graph!Running
  <2> QED
    BY <2>8, <2>9 DEF Graph!Next
<1>2. ASSUME NEW x \in Threads, NEW f \in Futures, RegisterDependency(x, f) \/ EndExecute(x)
      PROVE  UNCHANGED Graph!vars
  BY <1>2, GraphStutter DEF RegisterDependency, EndExecute
<1>3. ASSUME NEW x \in Clients, NEW e \in External, SettleExternal(x, e) PROVE Graph!Next
  <2>1. PICK s \in {"Ready", "Exception", "BrokenPromise"} : state' = [state EXCEPT ![e] = s]
    BY <1>3 DEF SettleExternal, StartSettling
  <2>2. ~IsSettled(e) /\ UNCHANGED <<submitted, runs, dependencies, destructor>>
    BY <1>3 DEF SettleExternal
  <2>3. \A u \in Tasks : state'[u] = state[u]
    BY <2>1, DisjointAssumption DEF TypeOK, Futures
  <2>4. Status' = Status
    BY <2>2, <2>3 DEF Status, StatusOf, IsSettled
  <2>5. SettledExternal' = SettledExternal \union {e} /\ e \notin SettledExternal
    BY <2>1, <2>2 DEF SettledExternal, IsSettled, TypeOK, Futures
  <2>6. Graph!Settle(e)
    BY <2>2, <2>4, <2>5 DEF Graph!Settle
  <2> QED
    BY <2>6 DEF Graph!Next
<1>4. ASSUME NEW x \in Threads, RunContinuation(x) \/ EndSettling(x) PROVE UNCHANGED Graph!vars
  BY <1>4, GraphStutter DEF RunContinuation, EndSettling
<1>5. ASSUME NEW w \in Workers, TakeTask(w) PROVE Graph!Next
  <2>1. PICK t \in Tasks : /\ t = tasks[idx[w]] /\ idx[w] \in 1..Len(tasks)
                           /\ runs' = [runs EXCEPT ![t] = @ + 1]
    <3>1. idx[w] \in 1..Len(tasks) /\ tasks[idx[w]] \in Tasks
      BY <1>5 DEF TakeTask, TypeOK, Threads
    <3> QED
      BY <1>5, <3>1 DEF TakeTask
  <2>2. UNCHANGED <<submitted, state, dependencies, destructor>> /\ pc[w] = "scan"
    BY <1>5 DEF TakeTask
  <2>3. t \in submitted /\ runs[t] = 0 /\ ~IsSettled(t)
    BY <2>1 DEF TasksInPlace
  <2>4. destructor = "alive"
    BY <2>2 DEF ThreadsInPlace
  <2>5. runs'[t] = 1 /\ \A u \in Tasks \ {t} : runs'[u] = runs[u]
    BY <2>1, <2>3 DEF TypeOK
  <2>6. Status[t] = "waiting"
    BY <2>3, StatusType
  <2>7. Status' = [Status EXCEPT ![t] = "running"]
    <3>1. StatusOf(t)' = "running"
      BY <2>2, <2>3, <2>5 DEF StatusOf, IsSettled
    <3>2. \A u \in Tasks \ {t} : StatusOf(u)' = StatusOf(u)
      BY <2>2, <2>5 DEF StatusOf, IsSettled
    <3> QED
      BY <3>1, <3>2, StatusChange
  <2>8. dependencies[t] \subseteq Graph!Settled
    <3> SUFFICES ASSUME NEW f \in dependencies[t] PROVE f \in Graph!Settled
      OBVIOUS
    <3>1. f \in Futures
      BY DEF TypeOK
    <3>2. IsSettled(f)
      BY <2>2, <2>5 DEF DependenciesSettledBeforeRun, IsSettled
    <3>3. CASE f \in External
      BY <3>2, <3>3 DEF Graph!Settled, SettledExternal
    <3>4. CASE f \in Tasks
      <4>1. f \in submitted
        BY <3>2, <3>4 DEF TasksInPlace
      <4>2. Status[f] \in {"done", "broken"}
        BY <3>2, <3>4, <4>1, StatusType
      <4> QED
        BY <3>4, <4>2 DEF Graph!Settled
    <3> QED
      BY <3>1, <3>3, <3>4 DEF Futures
  <2>9. SettledExternal' = SettledExternal
    BY <2>2 DEF SettledExternal, IsSettled
  <2>10. Graph!Start(t)
    BY <2>2, <2>4, <2>6, <2>7, <2>8, <2>9 DEF Graph!Start
  <2> QED
    BY <2>10 DEF Graph!Next
<1>6. ASSUME NEW w \in Workers, FinishBody(w) PROVE Graph!Next
  <2>1. PICK t \in Tasks : t = target[w] /\ t # None
    BY <1>6, NoneAssumption DEF FinishBody, ThreadsInPlace, Futures
  <2>2. PICK s \in {"Ready", "Exception"} : state' = [state EXCEPT ![t] = s]
    BY <1>6, <2>1, OutcomeAssumption DEF FinishBody, StartSettling
  <2>3. pc[w] = "body" /\ UNCHANGED <<submitted, runs, dependencies, destructor>>
    BY <1>6 DEF FinishBody
  <2>4. runs[t] = 1 /\ ~IsSettled(t)
    BY <2>1, <2>3 DEF TasksInPlace
  <2>5. t \in submitted
    BY <2>4 DEF TasksInPlace
  <2>6. state'[t] = s /\ \A f \in Futures \ {t} : state'[f] = state[f]
    BY <2>2 DEF TypeOK, Futures
  <2>7. Status[t] = "running"
    BY <2>4, <2>5, StatusType
  <2>8. Status' = [Status EXCEPT ![t] = "done"]
    <3>1. StatusOf(t)' = "done"
      BY <2>3, <2>5, <2>6 DEF StatusOf, IsSettled
    <3>2. \A u \in Tasks \ {t} : StatusOf(u)' = StatusOf(u)
      BY <2>3, <2>6 DEF StatusOf, IsSettled, Futures
    <3> QED
      BY <3>1, <3>2, StatusChange
  <2>9. SettledExternal' = SettledExternal
    BY <2>6, DisjointAssumption DEF SettledExternal, IsSettled, Futures
  <2>10. Graph!Finish(t)
    BY <2>3, <2>7, <2>8, <2>9 DEF Graph!Finish
  <2> QED
    BY <2>10 DEF Graph!Next
<1>7. ASSUME NEW w \in Workers,
             \/ EnterLoop(w) \/ SkipTask(w) \/ Sleep(w) \/ WakeUp(w) \/ AfterTask(w)
      PROVE  UNCHANGED Graph!vars
  BY <1>7, GraphStutter DEF EnterLoop, SkipTask, Sleep, WakeUp, AfterTask
<1>8. CASE ShutdownNotifyThreads
  <2>1. destructor = "alive" /\ destructor' = "join" /\ UNCHANGED <<submitted, runs, state, dependencies>>
    BY <1>8 DEF ShutdownNotifyThreads
  <2>2. Status' = Status /\ SettledExternal' = SettledExternal
    BY <2>1 DEF Status, StatusOf, SettledExternal, IsSettled
  <2>3. Graph!Close
    BY <2>1, <2>2 DEF Graph!Close
  <2> QED
    BY <2>3 DEF Graph!Next
<1>9. CASE ShutdownJoinThreads \/ DestructorReturns
  <2>1. /\ destructor # "alive" /\ destructor' # "alive"
        /\ UNCHANGED <<submitted, runs, state, dependencies>>
    BY <1>9 DEF ShutdownJoinThreads, DestructorReturns
  <2> QED
    BY <2>1 DEF Graph!vars, Status, StatusOf, SettledExternal, IsSettled
<1>10. CASE DestroyTask
  <2>1. PICK t \in Tasks : t = Head(tasks) /\ t = tasks[1] /\ 1 \in 1..Len(tasks)
    <3>1. tasks \in Seq(Tasks) /\ tasks # <<>>
      BY <1>10 DEF DestroyTask, TypeOK
    <3> QED
      BY <3>1, TailFacts
  <2>2. /\ state' = [state EXCEPT ![t] = "BrokenPromise"] /\ destructor = "destroy"
        /\ UNCHANGED <<submitted, runs, dependencies, destructor>>
    BY <1>10, <2>1 DEF DestroyTask
  <2>3. t \in submitted /\ runs[t] = 0 /\ ~IsSettled(t)
    BY <2>1 DEF TasksInPlace
  <2>4. Status[t] = "waiting"
    BY <2>3, StatusType
  <2>5. state'[t] = "BrokenPromise" /\ \A f \in Futures \ {t} : state'[f] = state[f]
    BY <2>2 DEF TypeOK, Futures
  <2>6. Status' = [Status EXCEPT ![t] = "broken"]
    <3>1. StatusOf(t)' = "broken"
      BY <2>2, <2>3, <2>5 DEF StatusOf, IsSettled
    <3>2. \A u \in Tasks \ {t} : StatusOf(u)' = StatusOf(u)
      BY <2>2, <2>5 DEF StatusOf, IsSettled, Futures
    <3> QED
      BY <3>1, <3>2, StatusChange
  <2>7. \A u \in Tasks : Status[u] # "running"
    <3> SUFFICES ASSUME NEW u \in Tasks, Status[u] = "running" PROVE FALSE
      OBVIOUS
    <3>1. runs[u] > 0 /\ ~IsSettled(u)
      BY StatusType
    <3>2. PICK w \in Workers : pc[w] # "done"
      BY <3>1 DEF TasksInPlace
    <3> QED
      BY <2>2, <3>2 DEF ThreadsInPlace
  <2>8. SettledExternal' = SettledExternal
    BY <2>5, DisjointAssumption DEF SettledExternal, IsSettled, Futures
  <2>9. Graph!Break(t)
    BY <2>2, <2>4, <2>6, <2>7, <2>8 DEF Graph!Break, Graph!Running
  <2> QED
    BY <2>9 DEF Graph!Next
<1>11. CASE UNCHANGED vars
  BY <1>11, GraphStutter DEF vars
<1>12. ASSUME NEW x \in Threads, Execute(x) PROVE [Graph!Next]_Graph!vars
  <2>1. CASE EndExecute(x)
    BY <2>1, GraphStutter DEF EndExecute
  <2> QED
    BY <1>1, <1>2, <1>12, <2>1 DEF Execute
<1> QED
  BY <1>3, <1>4, <1>5, <1>6, <1>7, <1>8, <1>9, <1>10, <1>11, <1>12
     DEF Next, Settle, ThreadLoop, Destroy, Gone

\* The pool implements the task graph: whatever the interleaving, it starts a task
\* once and after its dependencies, breaks only tasks that never started, and only
\* when no worker runs any more.
THEOREM PoolImplementsTaskGraph == Spec => ImplementsTaskGraph
BY InitGraph, StepGraph, SpecIInv, PTL DEF Spec, ImplementsTaskGraph, Graph!Spec

-----------------------------------------------------------------------------
(* The list of tasks as a set                                              *)

LEMMA ToSetAppend ==
    ASSUME NEW S, NEW s \in Seq(S), NEW e \in S
    PROVE  ToSet(Append(s, e)) = ToSet(s) \union {e}
<1>. DEFINE a == Append(s, e)
<1>1. /\ a \in Seq(S) /\ Len(a) = Len(s) + 1 /\ Len(s) \in Nat
      /\ \A j \in 1..Len(s) : a[j] = s[j]
      /\ a[Len(s) + 1] = e
      /\ DOMAIN a = 1..Len(a) /\ DOMAIN s = 1..Len(s)
  BY AppendFacts
<1>. HIDE DEF a
<1>2. \A j : j \in 1..Len(a) <=> j \in 1..Len(s) \/ j = Len(s) + 1
  BY <1>1
<1>3. ToSet(a) = ToSet(s) \union {e}
  BY <1>1, <1>2 DEF ToSet
<1> QED
  BY <1>3 DEF a

LEMMA ToSetRemoveAt ==
    ASSUME NEW S, NEW s \in Seq(S), NEW i \in 1..Len(s),
           \A j, k \in 1..Len(s) : s[j] = s[k] => j = k
    PROVE  ToSet(RemoveAt(s, i)) = ToSet(s) \ {s[i]}
<1>. DEFINE r == RemoveAt(s, i)
<1>1. /\ r \in Seq(S) /\ Len(r) = Len(s) - 1 /\ Len(s) \in Nat /\ Len(s) > 0
      /\ \A j \in 1..(Len(s) - 1) : r[j] = IF j < i THEN s[j] ELSE s[j + 1]
      /\ DOMAIN r = 1..(Len(s) - 1) /\ DOMAIN s = 1..Len(s)
  <2>1. /\ r \in Seq(S) /\ Len(r) = Len(s) - 1
        /\ \A j \in 1..(Len(s) - 1) : r[j] = IF j < i THEN s[j] ELSE s[j + 1]
    BY RemoveAtFacts
  <2>2. DOMAIN r = 1..Len(r)
    <3>. HIDE DEF r
    <3> QED
      BY <2>1
  <2>3. Len(s) \in Nat /\ Len(s) > 0 /\ DOMAIN s = 1..Len(s)
    OBVIOUS
  <2> QED
    BY <2>1, <2>2, <2>3
<1>. HIDE DEF r
<1>2. ASSUME NEW j \in 1..(Len(s) - 1)
      PROVE  r[j] \in ToSet(s) \ {s[i]}
  <2>1. CASE j < i
    <3>1. j \in 1..Len(s) /\ j # i /\ r[j] = s[j]
      BY <1>1, <2>1
    <3> QED
      BY <1>1, <3>1 DEF ToSet
  <2>2. CASE ~(j < i)
    <3>1. j + 1 \in 1..Len(s) /\ j + 1 # i /\ r[j] = s[j + 1]
      BY <1>1, <2>2
    <3> QED
      BY <1>1, <3>1 DEF ToSet
  <2> QED
    BY <2>1, <2>2
<1>3. ASSUME NEW j \in 1..Len(s), j # i
      PROVE  s[j] \in ToSet(r)
  <2>1. CASE j < i
    <3>1. j \in 1..(Len(s) - 1) /\ r[j] = s[j]
      BY <1>1, <2>1
    <3> QED
      BY <1>1, <3>1 DEF ToSet
  <2>2. CASE ~(j < i)
    <3>1. j - 1 \in 1..(Len(s) - 1) /\ ~(j - 1 < i) /\ (j - 1) + 1 = j
      BY <1>1, <1>3, <2>2
    <3>2. r[j - 1] = s[j]
      BY <1>1, <3>1
    <3> QED
      BY <1>1, <3>1, <3>2 DEF ToSet
  <2> QED
    BY <2>1, <2>2
<1>4. ToSet(r) = ToSet(s) \ {s[i]}
  <2>1. ToSet(r) \subseteq ToSet(s) \ {s[i]}
    BY <1>1, <1>2 DEF ToSet
  <2>2. ToSet(s) \ {s[i]} \subseteq ToSet(r)
    BY <1>1, <1>3 DEF ToSet
  <2> QED
    BY <2>1, <2>2
<1> QED
  BY <1>4 DEF r

LEMMA ToSetTail ==
    ASSUME NEW S, NEW s \in Seq(S), s # <<>>
    PROVE  Head(s) \in ToSet(s) /\ ToSet(s) \ {Head(s)} \subseteq ToSet(Tail(s))
<1>. DEFINE r == Tail(s)
<1>1. /\ r \in Seq(S) /\ Head(s) = s[1] /\ Len(r) = Len(s) - 1 /\ Len(s) \in Nat /\ Len(s) > 0
      /\ \A j \in 1..(Len(s) - 1) : r[j] = s[j + 1]
      /\ DOMAIN s = 1..Len(s)
  BY TailFacts
<1>. HIDE DEF r
<1>2. DOMAIN r = 1..(Len(s) - 1)
  BY <1>1
<1>3. ASSUME NEW j \in 1..Len(s), j # 1
      PROVE  s[j] \in ToSet(r)
  <2>1. j - 1 \in 1..(Len(s) - 1) /\ (j - 1) + 1 = j
    BY <1>1, <1>3
  <2>2. r[j - 1] = s[j]
    BY <1>1, <2>1
  <2> QED
    BY <1>2, <2>1, <2>2 DEF ToSet
<1>4. s[1] \in ToSet(s)
  BY <1>1 DEF ToSet
<1>5. ToSet(s) \ {s[1]} \subseteq ToSet(r)
  BY <1>1, <1>3 DEF ToSet
<1> QED
  BY <1>1, <1>4, <1>5 DEF r

-----------------------------------------------------------------------------
(* The destructor                                                          *)

\* A submitted task is in the list, or it has been taken, broken or not yet listed.
Placed(t) == t \in Queued \/ runs[t] > 0 \/ IsSettled(t) \/ \E x \in Threads : creating[x] = t

\* The tasks that are broken are those that never started, and nobody lists a task
\* once the destructor has begun but the workers.
DestructionInv ==
    /\ \A t \in submitted : Placed(t)
    /\ \A t \in Tasks : IsSettled(t) => (state[t] = "BrokenPromise" <=> runs[t] = 0)
    /\ destructor # "alive" => \A c \in Clients : pc[c] # "register"
    /\ destructor = "done" => tasks = <<>>

\* A step that neither lists, takes nor breaks a task.
LEMMA DestructionUndisturbed ==
    ASSUME TypeOK, DestructionInv,
           UNCHANGED <<tasks, runs, creating, submitted>>,
           destructor' = destructor \/ destructor' # "done" \/ tasks = <<>>,
           destructor' # "alive" => \A c \in Clients : pc'[c] # "register",
           \A t \in Tasks : state'[t] = state[t]
    PROVE  DestructionInv'
BY DEF TypeOK, DestructionInv, Placed, Queued, IsSettled

LEMMA ExecuteDestruction ==
    ASSUME IInv, DestructionInv, NEW x \in Threads, Execute(x)
    PROVE  DestructionInv'
<1>0. /\ Workers \subseteq Threads /\ Clients \subseteq Threads
      /\ \A y \in Threads : y \in Workers \/ y \in Clients
      /\ None \notin Tasks /\ submitted \subseteq Tasks
      /\ TypeOK /\ ThreadsInPlace /\ TasksInPlace
  BY NoneAssumption DEF Threads, Futures, IInv, TypeOK
<1>1. ASSUME NEW t \in Tasks, NEW D, BeginExecute(x, t, D) PROVE DestructionInv'
  <2>1. pc'[x] = "register" /\ \A y \in Threads \ {x} : pc'[y] = pc[y]
    BY <1>0, <1>1, GotoFacts DEF BeginExecute
  <2>2. /\ creating'[x] = t /\ \A y \in Threads \ {x} : creating'[y] = creating[y]
        /\ creating[x] = None
    BY <1>0, <1>1 DEF BeginExecute, TypeOK, ThreadsInPlace
  <2>3. /\ submitted' = submitted \union {t}
        /\ UNCHANGED <<tasks, runs, state, destructor>>
        /\ x \in Clients => destructor = "alive"
    BY <1>0, <1>1 DEF BeginExecute, ThreadsInPlace
  <2>4. \A u \in submitted' : Placed(u)'
    <3>1. \A u \in submitted : u # None /\ Placed(u)
      BY <1>0 DEF DestructionInv
    <3>2. Placed(t)'
      BY <2>2 DEF Placed
    <3>3. \A u \in submitted : Placed(u)'
      BY <2>2, <2>3, <3>1 DEF Placed, Queued, IsSettled
    <3> QED
      BY <2>3, <3>2, <3>3
  <2> QED
    BY <1>0, <2>1, <2>3, <2>4 DEF DestructionInv, IsSettled
<1>2. ASSUME NEW f, RegisterDependency(x, f) PROVE DestructionInv'
  BY <1>0, <1>2, DestructionUndisturbed DEF RegisterDependency, DestructionInv
<1>3. CASE EndExecute(x)
  <2>. PICK t : t = creating[x]
    OBVIOUS
  <2>1. pc[x] = "register" /\ UNCHANGED <<target, state, submitted, runs, destructor>>
        /\ tasks' = Append(tasks, t)
        /\ creating' = [creating EXCEPT ![x] = None]
    BY <1>3 DEF EndExecute
  <2>2. t \in Tasks
    BY <1>0, <2>1 DEF ThreadsInPlace, TypeOK
  <2>3. Queued' = Queued \union {t}
    BY <1>0, <2>1, <2>2, ToSetAppend DEF Queued, TypeOK
  <2>4. \A y \in Threads \ {x} : creating'[y] = creating[y]
    BY <1>0, <2>1 DEF TypeOK
  <2>5. \A u \in submitted : Placed(u)'
    <3>1. \A u \in submitted : Placed(u)
      BY DEF DestructionInv
    <3> QED
      BY <2>1, <2>3, <2>4, <3>1 DEF Placed, IsSettled
  <2>6. \A y \in Threads : pc'[y] = "register" => pc[y] = "register"
    <3>1. PICK S \in SUBSET Asleep :
              GoNotifying(x, IF x \in Workers THEN "body" ELSE "idle", S)
      BY <1>3, NotifiedAsleep DEF EndExecute
    <3> QED
      BY <1>0, <3>1, GoFacts
  <2>7. destructor # "done"
    <3>1. ASSUME destructor = "done"
          PROVE  FALSE
      <4>1. x \notin Workers
        BY <1>0, <2>1, <3>1 DEF ThreadsInPlace
      <4> QED
        BY <1>0, <2>1, <3>1, <4>1 DEF DestructionInv
    <3> QED
      BY <3>1
  <2> QED
    BY <1>0, <2>1, <2>5, <2>6, <2>7 DEF DestructionInv, IsSettled
<1> QED
  BY <1>1, <1>2, <1>3 DEF Execute

LEMMA SettleDestruction ==
    ASSUME IInv, DestructionInv, NEW x \in Threads, Settle(x)
    PROVE  DestructionInv'
<1>0. TypeOK /\ ThreadsInPlace /\ Clients \subseteq Threads
  BY DEF IInv, Threads
<1>1. ASSUME NEW e \in External, x \in Clients, SettleExternal(x, e) PROVE DestructionInv'
  <2>1. PICK s : StartSettling(x, e, s)
    BY <1>1 DEF SettleExternal
  <2>2. \A y \in Threads : pc'[y] = "register" => pc[y] = "register"
    BY <1>0, <2>1, GotoFacts DEF StartSettling
  <2>3. \A t \in Tasks : state'[t] = state[t]
    BY <1>0, <2>1, DisjointAssumption DEF StartSettling, TypeOK, Futures
  <2> QED
    BY <1>0, <1>1, <2>2, <2>3, DestructionUndisturbed DEF SettleExternal, DestructionInv
<1>2. CASE RunContinuation(x)
  BY <1>0, <1>2, DestructionUndisturbed DEF RunContinuation, DestructionInv
<1>3. CASE EndSettling(x)
  <2>1. \A y \in Threads : pc'[y] = "register" => pc[y] = "register"
    BY <1>0, <1>3, GotoFacts DEF EndSettling
  <2> QED
    BY <1>0, <1>3, <2>1, DestructionUndisturbed DEF EndSettling, DestructionInv
<1> QED
  BY <1>1, <1>2, <1>3 DEF Settle

LEMMA ThreadLoopDestruction ==
    ASSUME IInv, DestructionInv, NEW w \in Workers, ThreadLoop(w)
    PROVE  DestructionInv'
<1>0. /\ TypeOK /\ ThreadsInPlace /\ TasksInPlace /\ w \in Threads
      /\ Clients \subseteq Threads /\ submitted \subseteq Tasks
  BY DEF IInv, TypeOK, Threads
<1>1. ASSUME NEW S \in SUBSET Asleep, LoopHead(w, S)
      PROVE  \A y \in Threads : pc'[y] = "register" => pc[y] = "register"
  BY <1>0, <1>1, GoFacts DEF LoopHead
<1>2. CASE EnterLoop(w)
  <2>1. \A y \in Threads : pc'[y] = "register" => pc[y] = "register"
    BY <1>1, <1>2 DEF EnterLoop
  <2> QED
    BY <1>0, <1>2, <2>1, DestructionUndisturbed DEF EnterLoop, DestructionInv
<1>3. CASE SkipTask(w)
  BY <1>0, <1>3, DestructionUndisturbed DEF SkipTask, DestructionInv
<1>4. CASE Sleep(w) \/ WakeUp(w)
  <2>1. \A y \in Threads : pc'[y] = "register" => pc[y] = "register"
    BY <1>0, <1>4, GotoFacts DEF Sleep, WakeUp
  <2> QED
    BY <1>0, <1>4, <2>1, DestructionUndisturbed DEF Sleep, WakeUp, DestructionInv
<1>5. CASE AfterTask(w)
  <2>1. PICK S \in SUBSET Asleep : LoopHead(w, S)
    BY <1>5, NotifiedAsleep DEF AfterTask
  <2>2. \A y \in Threads : pc'[y] = "register" => pc[y] = "register"
    BY <1>1, <2>1
  <2> QED
    BY <1>0, <1>5, <2>2, DestructionUndisturbed DEF AfterTask, DestructionInv
<1>6. CASE TakeTask(w)
  <2>. PICK i : i = idx[w]
    OBVIOUS
  <2>. PICK t : t = tasks[i]
    OBVIOUS
  <2>1. /\ i \in 1..Len(tasks) /\ t \in Tasks /\ runs[t] = 0 /\ ~IsSettled(t)
        /\ tasks' = RemoveAt(tasks, i) /\ runs' = [runs EXCEPT ![t] = @ + 1]
        /\ UNCHANGED <<state, creating, submitted, destructor>>
    BY <1>0, <1>6 DEF TakeTask, TypeOK, TasksInPlace
  <2>2. Queued' = Queued \ {t}
    <3>1. tasks \in Seq(Tasks) /\ \A j, k \in 1..Len(tasks) : tasks[j] = tasks[k] => j = k
      BY <1>0 DEF TypeOK, TasksInPlace
    <3>2. ToSet(RemoveAt(tasks, i)) = ToSet(tasks) \ {tasks[i]}
      BY <2>1, <3>1, ToSetRemoveAt
    <3> QED
      BY <2>1, <3>2 DEF Queued
  <2>3. runs'[t] = 1 /\ \A u \in Tasks : u # t => runs'[u] = runs[u]
    BY <1>0, <2>1 DEF TypeOK
  <2>4. \A u \in submitted : Placed(u)'
    <3>1. \A u \in submitted : u \in Tasks /\ Placed(u)
      BY <1>0 DEF DestructionInv
    <3> QED
      BY <2>1, <2>2, <2>3, <3>1 DEF Placed, IsSettled
  <2>5. \A y \in Threads : pc'[y] = "register" => pc[y] = "register"
    BY <1>0, <1>6, GotoFacts DEF TakeTask
  <2>6. destructor # "done"
    BY <1>0, <1>6 DEF TakeTask, ThreadsInPlace
  <2> QED
    BY <1>0, <2>1, <2>3, <2>4, <2>5, <2>6 DEF DestructionInv, IsSettled
<1>7. CASE FinishBody(w)
  <2>. PICK t : t = target[w]
    OBVIOUS
  <2>1. PICK s \in TaskOutcomes : StartSettling(w, t, s)
    BY <1>7 DEF FinishBody
  <2>2. /\ t \in Tasks /\ runs[t] = 1 /\ s # "BrokenPromise" /\ t \in Futures
        /\ UNCHANGED <<tasks, runs, creating, submitted, destructor>>
    BY <1>0, <1>7, OutcomeAssumption, NoneAssumption
       DEF FinishBody, ThreadsInPlace, TasksInPlace, Futures
  <2>3. state'[t] = s /\ \A u \in Tasks : u # t => state'[u] = state[u]
    BY <1>0, <2>1, <2>2 DEF StartSettling, TypeOK, Futures
  <2>4. \A u \in submitted : Placed(u)'
    <3>1. \A u \in submitted : u \in Tasks /\ Placed(u)
      BY <1>0 DEF DestructionInv
    <3> QED
      BY <2>2, <2>3, <3>1 DEF Placed, IsSettled, Queued
  <2>5. \A y \in Threads : pc'[y] = "register" => pc[y] = "register"
    BY <1>0, <2>1, GotoFacts DEF StartSettling
  <2> QED
    BY <1>0, <2>2, <2>3, <2>4, <2>5 DEF DestructionInv, IsSettled
<1> QED
  BY <1>2, <1>3, <1>4, <1>5, <1>6, <1>7 DEF ThreadLoop

LEMMA DestroyDestruction ==
    ASSUME IInv, DestructionInv, Destroy
    PROVE  DestructionInv'
<1>0. /\ TypeOK /\ ThreadsInPlace /\ TasksInPlace
      /\ Clients \subseteq Threads /\ submitted \subseteq Tasks /\ None \notin Threads
  BY NoneAssumption DEF IInv, TypeOK, Threads
<1>1. CASE ShutdownNotifyThreads
  <2>1. \A c \in Clients : pc'[c] # "register"
    BY <1>0, <1>1 DEF ShutdownNotifyThreads, ThreadsInPlace, TypeOK
  <2>2. UNCHANGED <<tasks, runs, creating, submitted, state>> /\ destructor' = "join"
    BY <1>1 DEF ShutdownNotifyThreads
  <2> QED
    BY <1>0, <2>1, <2>2, DestructionUndisturbed
<1>2. CASE ShutdownJoinThreads
  BY <1>0, <1>2, DestructionUndisturbed DEF ShutdownJoinThreads, DestructionInv
<1>3. CASE DestroyTask
  <2>. PICK t : t = Head(tasks)
    OBVIOUS
  <2>1. /\ tasks # <<>> /\ tasks \in Seq(Tasks) /\ tasks' = Tail(tasks)
        /\ state' = [state EXCEPT ![t] = "BrokenPromise"]
        /\ destructor = "destroy"
        /\ UNCHANGED <<runs, creating, submitted, destructor, pc>>
    BY <1>0, <1>3 DEF DestroyTask, TypeOK
  <2>2. t \in Queued /\ Queued \ {t} \subseteq Queued'
    BY <2>1, ToSetTail DEF Queued
  <2>3. t \in Tasks /\ t \in Futures /\ runs[t] = 0
    BY <1>0, <2>1, <2>2 DEF Queued, ToSet, TasksInPlace, Futures
  <2>4. state'[t] = "BrokenPromise" /\ \A u \in Tasks : u # t => state'[u] = state[u]
    BY <1>0, <2>1, <2>3 DEF TypeOK, Futures
  <2>5. \A u \in submitted : Placed(u)'
    <3>1. \A u \in submitted : u \in Tasks /\ Placed(u)
      BY <1>0 DEF DestructionInv
    <3> QED
      BY <2>1, <2>2, <2>4, <3>1 DEF Placed, IsSettled
  <2> QED
    BY <1>0, <2>1, <2>3, <2>4, <2>5 DEF DestructionInv, IsSettled
<1>4. CASE DestructorReturns
  BY <1>0, <1>4, DestructionUndisturbed DEF DestructorReturns, DestructionInv
<1> QED
  BY <1>1, <1>2, <1>3, <1>4 DEF Destroy

LEMMA SpecDestruction == Spec => []DestructionInv
<1>1. Init => DestructionInv
  BY DEF Init, DestructionInv, IsSettled, Futures
<1>2. IInv /\ DestructionInv /\ [Next]_vars => DestructionInv'
  <2> SUFFICES ASSUME IInv, DestructionInv, [Next]_vars PROVE DestructionInv'
    OBVIOUS
  <2>1. CASE UNCHANGED vars
    BY <2>1, DestructionUndisturbed DEF vars, IInv, DestructionInv
  <2> QED
    BY <2>1, ExecuteDestruction, SettleDestruction, ThreadLoopDestruction, DestroyDestruction
       DEF Next, Gone
<1> QED
  BY <1>1, <1>2, SpecIInv, PTL DEF Spec

\* When the destructor has returned every task that Execute was called for is settled,
\* those of callables that were still running included: the ones that never started are
\* broken and no other (StaticThreadPool.hpp:33-38, 119-134).
THEOREM DestructorSettlesAll == Spec => []AllSettledAfterDestruction
<1>1. IInv /\ DestructionInv => AllSettledAfterDestruction
  <2> SUFFICES ASSUME IInv, DestructionInv, destructor = "done", NEW t \in submitted
               PROVE  IsSettled(t) /\ (state[t] = "BrokenPromise" <=> runs[t] = 0)
    BY DEF AllSettledAfterDestruction
  <2>1. TypeOK /\ ThreadsInPlace /\ TasksInPlace /\ t \in Tasks /\ None \notin Tasks
    BY NoneAssumption DEF IInv, TypeOK, Futures
  <2>2. t \notin Queued
    <3>1. tasks = <<>>
      BY DEF DestructionInv
    <3> QED
      BY <3>1 DEF Queued, ToSet
  <2>3. \A w \in Workers : pc[w] = "done"
    BY <2>1 DEF ThreadsInPlace
  <2>4. \A x \in Threads : creating[x] # t
    BY <2>1, <2>3 DEF ThreadsInPlace, DestructionInv, Threads
  <2>5. runs[t] > 0 => IsSettled(t)
    BY <2>1, <2>3 DEF TasksInPlace
  <2>6. IsSettled(t)
    BY <2>2, <2>4, <2>5 DEF DestructionInv, Placed
  <2> QED
    BY <2>1, <2>6 DEF DestructionInv
<1> QED
  BY <1>1, SpecIInv, SpecDestruction, PTL

-----------------------------------------------------------------------------
(* Finite sets, compared by their size                                     *)

AtMost(A, B) == IsFiniteSet(A) /\ IsFiniteSet(B) /\ Cardinality(A) <= Cardinality(B)

LEMMA AtMostMonotone ==
    ASSUME NEW A, NEW B, NEW A2, NEW B2, AtMost(A, B), A2 \subseteq A,
           B \subseteq B2, IsFiniteSet(B2)
    PROVE  AtMost(A2, B2)
<1>1. /\ IsFiniteSet(A2) /\ Cardinality(A2) <= Cardinality(A)
      /\ Cardinality(A2) \in Nat /\ Cardinality(A) \in Nat
  BY FS_Subset, FS_CardinalityType DEF AtMost
<1>2. Cardinality(B) <= Cardinality(B2) /\ Cardinality(B) \in Nat /\ Cardinality(B2) \in Nat
  BY FS_Subset, FS_CardinalityType DEF AtMost
<1> QED
  BY <1>1, <1>2 DEF AtMost

\* One more on the left at most, one more on the right.
LEMMA AtMostAdd ==
    ASSUME NEW A, NEW B, NEW a, NEW b, AtMost(A, B), b \notin B
    PROVE  AtMost(A \union {a}, B \union {b})
<1>1. /\ IsFiniteSet(A \union {a}) /\ Cardinality(A \union {a}) <= Cardinality(A) + 1
      /\ Cardinality(A) \in Nat
  <2>1. IsFiniteSet(A) /\ Cardinality(A) \in Nat
    BY FS_CardinalityType DEF AtMost
  <2>2. /\ IsFiniteSet(A \union {a})
        /\ Cardinality(A \union {a}) = IF a \in A THEN Cardinality(A) ELSE Cardinality(A) + 1
    BY <2>1, FS_AddElement
  <2> QED
    BY <2>1, <2>2
<1>2. /\ IsFiniteSet(B \union {b}) /\ Cardinality(B \union {b}) = Cardinality(B) + 1
      /\ Cardinality(B) \in Nat
  BY FS_AddElement, FS_CardinalityType DEF AtMost
<1>3. Cardinality(A \union {a}) \in Nat
  BY <1>1, FS_CardinalityType
<1> QED
  BY <1>1, <1>2, <1>3 DEF AtMost

\* One less on the left, one less on the right at most.
LEMMA AtMostRemove ==
    ASSUME NEW A, NEW B, NEW a \in A, NEW b, AtMost(A, B)
    PROVE  AtMost(A \ {a}, B \ {b})
<1>1. /\ IsFiniteSet(A \ {a}) /\ Cardinality(A \ {a}) = Cardinality(A) - 1
      /\ Cardinality(A) \in Nat
  BY FS_RemoveElement, FS_CardinalityType DEF AtMost
<1>2. /\ IsFiniteSet(B \ {b}) /\ Cardinality(B \ {b}) >= Cardinality(B) - 1
      /\ Cardinality(B) \in Nat
  <2>1. IsFiniteSet(B) /\ Cardinality(B) \in Nat
    BY FS_CardinalityType DEF AtMost
  <2>2. /\ IsFiniteSet(B \ {b})
        /\ Cardinality(B \ {b}) = IF b \in B THEN Cardinality(B) - 1 ELSE Cardinality(B)
    BY <2>1, FS_RemoveElement
  <2> QED
    BY <2>1, <2>2
<1>3. Cardinality(B \ {b}) \in Nat
  BY <1>2, FS_CardinalityType
<1> QED
  BY <1>1, <1>2, <1>3 DEF AtMost

\* The elements of C are exchanged for as many new ones.
LEMMA AtMostExchange ==
    ASSUME NEW A, NEW B, NEW C \in SUBSET B, NEW D, AtMost(A, B), IsFiniteSet(D),
           Cardinality(C) <= Cardinality(D), D \intersect B = {}
    PROVE  AtMost(A, (B \ C) \union D)
<1>1. IsFiniteSet(B) /\ IsFiniteSet(C)
  BY FS_Subset DEF AtMost
<1>2. IsFiniteSet(B \ C) /\ Cardinality(B \ C) = Cardinality(B) - Cardinality(C)
  <2>1. B \intersect C = C
    OBVIOUS
  <2> QED
    BY <1>1, <2>1, FS_Difference
<1>3. /\ IsFiniteSet((B \ C) \union D)
      /\ Cardinality((B \ C) \union D) = Cardinality(B \ C) + Cardinality(D)
  <2>1. (B \ C) \intersect D = {} /\ Cardinality({}) = 0
    BY FS_EmptySet
  <2>2. /\ Cardinality((B \ C) \union D) = Cardinality(B \ C) + Cardinality(D)
                                            - Cardinality((B \ C) \intersect D)
        /\ IsFiniteSet((B \ C) \union D)
    BY <1>2, FS_Union
  <2>3. Cardinality(B \ C) \in Nat /\ Cardinality(D) \in Nat
    BY <1>2, FS_CardinalityType
  <2>4. Cardinality((B \ C) \intersect D) = 0
    BY <2>1
  <2> QED
    BY <2>2, <2>3, <2>4
<1>4. /\ Cardinality(A) \in Nat /\ Cardinality(B) \in Nat /\ Cardinality(C) \in Nat
      /\ Cardinality(D) \in Nat /\ Cardinality(A) <= Cardinality(B)
  BY <1>1, FS_CardinalityType DEF AtMost
<1>5. Cardinality(A) <= Cardinality((B \ C) \union D)
  BY <1>2, <1>3, <1>4
<1> QED
  BY <1>3, <1>5 DEF AtMost

-----------------------------------------------------------------------------
(* No worker sleeps over a task it could run                               *)

\* A worker that will look at the list, or wake somebody up who will, before it
\* starts a callable or falls asleep.
Handling(w) == pc[w] \in {"locking", "scan", "settle", "relock"}

\* The activators its task has let go of, and for which it owes a notify_one.
Handled(w) == IF pc[w] = "settle" THEN idx[w] - 1
              ELSE IF pc[w] = "relock" THEN Len(continuations[target[w]])
              ELSE 0

\* A wake-up <<w, 0>> is worker w itself, <<w, k>> the k-th notify_one it owes.
WakeUps == {k \in Workers \X Nat : Handling(k[1]) /\ k[2] <= Handled(k[1])}
Owed == {k \in WakeUps : k[2] > 0}

ReadyTasks == {t \in Queued : IsTaskReady(t)}
Passed(w) == {t \in ReadyTasks : \E i \in 1..Len(tasks) : i < idx[w] /\ tasks[i] = t}

\* While somebody sleeps there are at least as many wake-ups as ready tasks, and a
\* worker has passed at most as many of them in the list as others will notify of.
WakeInv ==
    /\ \A w \in Workers : pc[w] = "settle" => idx[w] <= Len(continuations[target[w]]) + 1
    /\ \A w \in Workers : pc[w] \notin {"scan", "settle"} => idx[w] = 1
    /\ shutdown => Asleep = {}
    /\ \A c \in Clients : pc[c] # "settle"
    /\ IsFiniteSet(WakeUps)
    /\ IsFiniteSet(Queued)
    /\ Asleep # {} => AtMost(ReadyTasks, WakeUps)
    /\ \A w \in Workers : pc[w] = "scan" => AtMost(Passed(w), Owed)

LEMMA HandledType ==
    TypeOK /\ ThreadsInPlace => \A w \in Workers : Handled(w) \in Nat
<1> SUFFICES ASSUME TypeOK, ThreadsInPlace, NEW w \in Workers PROVE Handled(w) \in Nat
  OBVIOUS
<1>1. w \in Threads /\ idx[w] \in Nat \ {0}
  BY DEF TypeOK, Threads
<1>2. pc[w] = "relock" => Len(continuations[target[w]]) \in Nat
  BY <1>1 DEF TypeOK, ThreadsInPlace
<1> QED
  BY <1>1, <1>2 DEF Handled

LEMMA HandledTypes ==
    ASSUME TypeOK, ThreadsInPlace, TypeOK', ThreadsInPlace'
    PROVE  \A w \in Workers : Handled(w) \in Nat /\ Handled(w)' \in Nat
<1>1. (TypeOK /\ ThreadsInPlace => \A w \in Workers : Handled(w) \in Nat)'
  BY HandledType, PTL
<1> QED
  BY <1>1, HandledType

LEMMA WakeUpsMember ==
    ASSUME NEW v \in Workers, NEW n \in Nat
    PROVE  /\ <<v, n>> \in WakeUps <=> Handling(v) /\ n <= Handled(v)
           /\ <<v, n>> \in Owed <=> Handling(v) /\ n <= Handled(v) /\ n > 0
BY DEF WakeUps, Owed

\* What a worker is good for depends on its own state and its own task only.
LEMMA HandledSame ==
    ASSUME NEW v \in Workers, pc'[v] = pc[v], idx'[v] = idx[v], target'[v] = target[v],
           pc[v] = "relock" => continuations'[target[v]] = continuations[target[v]]
    PROVE  Handling(v)' = Handling(v) /\ Handled(v)' = Handled(v)
BY DEF Handling, Handled

LEMMA WakeUpsGrow ==
    ASSUME TypeOK, ThreadsInPlace, TypeOK', ThreadsInPlace',
           \A v \in Workers : Handling(v) => Handling(v)' /\ Handled(v) <= Handled(v)'
    PROVE  WakeUps \subseteq WakeUps' /\ Owed \subseteq Owed'
<1>1. \A v \in Workers : Handled(v) \in Nat /\ Handled(v)' \in Nat
  BY HandledTypes
<1>2. WakeUps \subseteq WakeUps'
  <2> SUFFICES ASSUME NEW k \in WakeUps PROVE k \in WakeUps'
    OBVIOUS
  <2>1. k \in Workers \X Nat /\ Handling(k[1]) /\ k[2] <= Handled(k[1])
    BY DEF WakeUps
  <2>2. k[1] \in Workers /\ k[2] \in Nat
    BY <2>1
  <2>3. Handling(k[1])' /\ k[2] <= Handled(k[1])'
    BY <1>1, <2>1, <2>2
  <2> QED
    BY <2>1, <2>3 DEF WakeUps
<1> QED
  BY <1>2 DEF Owed

\* The workers are finitely many, and so are the wake-ups.
LEMMA WakeUpsFinite ==
    ASSUME IsFiniteSet(Workers), IsFiniteSet(WakeUps), NEW k,
           WakeUps' \subseteq (WakeUps \union (Workers \X {0})) \union {k}
    PROVE  IsFiniteSet(WakeUps')
<1>1. IsFiniteSet(Workers \X {0})
  BY FS_Singleton, FS_Product
<1>2. IsFiniteSet((WakeUps \union (Workers \X {0})) \union {k})
  BY <1>1, FS_Union, FS_AddElement
<1> QED
  BY <1>2, FS_Subset

LEMMA WakeUpsFiniteStep ==
    ASSUME IsFiniteSet(Workers), IsFiniteSet(WakeUps), TypeOK, ThreadsInPlace, TypeOK', ThreadsInPlace',
           NEW x,
           \A v \in Workers : Handling(v)' =>
               \/ Handling(v) /\ Handled(v)' <= Handled(v)
               \/ Handled(v)' = 0
               \/ v = x /\ Handling(v) /\ Handled(v)' <= Handled(v) + 1
    PROVE  IsFiniteSet(WakeUps')
<1>. PICK k : k = <<x, Handled(x) + 1>>
  OBVIOUS
<1>1. \A v \in Workers : Handled(v) \in Nat /\ Handled(v)' \in Nat
  BY HandledTypes
<1>2. ASSUME NEW j \in WakeUps'
      PROVE  j \in (WakeUps \union (Workers \X {0})) \union {k}
  <2>1. /\ j \in Workers \X Nat /\ j[1] \in Workers /\ j[2] \in Nat
        /\ Handling(j[1])' /\ j[2] <= Handled(j[1])'
    BY DEF WakeUps
  <2>. PICK v, n : v = j[1] /\ n = j[2]
    OBVIOUS
  <2>2. j = <<v, n>>
    BY <2>1
  <2>3. Handled(v) \in Nat /\ Handled(v)' \in Nat
    BY <1>1, <2>1
  <2>4. CASE Handling(v) /\ n <= Handled(v)
    BY <2>1, <2>4 DEF WakeUps
  <2>5. CASE n = 0
    BY <2>1, <2>2, <2>5
  <2>6. CASE v = x /\ n = Handled(v) + 1
    BY <2>2, <2>6
  <2> QED
    BY <2>1, <2>3, <2>4, <2>5, <2>6
<1> QED
  BY <1>2, WakeUpsFinite

\* The list is finite.
LEMMA QueuedFinite ==
    ASSUME IsFiniteSet(Queued), NEW t, Queued' \subseteq Queued \union {t}
    PROVE  IsFiniteSet(Queued')
BY FS_AddElement, FS_Subset

LEMMA ReadyFinite ==
    ASSUME IsFiniteSet(Queued)
    PROVE  IsFiniteSet(ReadyTasks) /\ \A w : IsFiniteSet(Passed(w))
<1>1. ReadyTasks \in SUBSET Queued /\ \A w : Passed(w) \in SUBSET Queued
  BY DEF ReadyTasks, Passed
<1> QED
  BY <1>1, FS_Subset

\* One worker is notified, or all of those that sleep.
LEMMA NotifiedOne ==
    ASSUME IsFiniteSet(Workers), NEW S \in Notified(1), S # Asleep
    PROVE  \E s \in S : s \in Asleep
<1>1. IsFiniteSet(Asleep) /\ S \in SUBSET Asleep /\ IsFiniteSet(S)
  BY FS_Subset DEF Asleep, Notified
<1>2. Cardinality(S) = IF 1 < Cardinality(Asleep) THEN 1 ELSE Cardinality(Asleep)
  BY DEF Notified
<1>3. Cardinality(S) # Cardinality(Asleep)
  BY <1>1, FS_Subset
<1>4. Cardinality(S) = 1
  BY <1>2, <1>3
<1>5. S # {}
  BY <1>4, FS_EmptySet
<1> QED
  BY <1>1, <1>5

LEMMA ExecuteWake ==
    ASSUME IsFiniteSet(Workers), IInv, IInv', WakeInv, NEW x \in Threads, Execute(x)
    PROVE  WakeInv'
<1>0. /\ Workers \subseteq Threads /\ Clients \subseteq Threads /\ Workers \intersect Clients = {}
      /\ \A y \in Threads : y \in Workers \/ y \in Clients
      /\ None \notin Threads
      /\ TypeOK /\ ThreadsInPlace /\ TasksInPlace /\ TypeOK' /\ ThreadsInPlace'
  BY NoneAssumption, DisjointAssumption DEF Threads, IInv
<1>00. \A v \in Workers : Handled(v) \in Nat /\ Handled(v)' \in Nat
  BY <1>0, HandledTypes
<1>1. ASSUME NEW t \in Tasks, NEW D, BeginExecute(x, t, D) PROVE WakeInv'
  <2>1. pc'[x] = "register" /\ \A y \in Threads \ {x} : pc'[y] = pc[y]
    BY <1>0, <1>1, GotoFacts DEF BeginExecute
  <2>2. /\ owner = None /\ t \notin submitted /\ activator' = [activator EXCEPT ![t] = {Local}]
        /\ UNCHANGED <<tasks, shutdown, idx, target, continuations>>
        /\ pc[x] = "body" \/ pc[x] = "idle"
    BY <1>1 DEF BeginExecute
  <2>3. \A v \in Workers : Handling(v)' = Handling(v) /\ Handled(v)' = Handled(v)
    <3>1. ASSUME NEW v \in Workers, v = x
          PROVE  Handling(v)' = Handling(v) /\ Handled(v)' = Handled(v)
      BY <2>1, <2>2, <3>1 DEF Handling, Handled
    <3>2. ASSUME NEW v \in Workers, v # x
          PROVE  Handling(v)' = Handling(v) /\ Handled(v)' = Handled(v)
      BY <1>0, <2>1, <2>2, <3>2, HandledSame
    <3> QED
      BY <3>1, <3>2
  <2>4. WakeUps' = WakeUps
    <3>1. WakeUps' \subseteq WakeUps /\ WakeUps \subseteq WakeUps'
      BY <2>3 DEF WakeUps
    <3> QED
      BY <3>1
  <2>5. ReadyTasks' = ReadyTasks
    <3>1. \A u \in Queued : u \in Tasks /\ u # t
      BY <1>0, <2>2 DEF TasksInPlace, Queued, ToSet, TypeOK
    <3>2. \A u \in Queued : activator'[u] = activator[u]
      BY <1>0, <2>2, <3>1 DEF TypeOK
    <3> QED
      BY <2>2, <3>2 DEF ReadyTasks, IsTaskReady, Queued
  <2>6. Asleep' = Asleep
    BY <1>0, <2>1, <2>2 DEF Asleep
  <2>7. \A v \in Workers : pc'[v] # "scan"
    BY <1>0, <2>1, <2>2 DEF ThreadsInPlace
  <2>8. \A v \in Workers : pc'[v] = "settle" => pc[v] = "settle"
    BY <1>0, <2>1
  <2>9. \A v \in Workers : pc'[v] \notin {"scan", "settle"} => pc[v] \notin {"scan", "settle"}
    BY <1>0, <2>1, <2>2
  <2>10. \A c \in Clients : pc'[c] # "settle"
    BY <1>0, <2>1 DEF WakeInv
  <2> QED
    BY <2>2, <2>4, <2>5, <2>6, <2>7, <2>8, <2>9, <2>10 DEF WakeInv, Queued
<1>2. ASSUME NEW f \in Futures, RegisterDependency(x, f) PROVE WakeInv'
  <2>. PICK t : t = creating[x]
    OBVIOUS
  <2>1. /\ pc[x] = "register" /\ owner = x /\ t \in Tasks /\ t \notin Queued
        /\ UNCHANGED <<tasks, shutdown, idx, target, pc>>
    BY <1>0, <1>2 DEF RegisterDependency, ThreadsInPlace, TasksInPlace, TypeOK, Queued, ToSet
  <2>2. \A g \in Futures : IsSettled(g) => continuations'[g] = continuations[g]
    BY <1>0, <1>2 DEF RegisterDependency, TypeOK
  <2>3. \A v \in Workers : pc[v] \in {"settle", "relock"} =>
            continuations'[target[v]] = continuations[target[v]]
    BY <1>0, <2>2 DEF ThreadsInPlace
  <2>4. \A v \in Workers : Handling(v)' = Handling(v) /\ Handled(v)' = Handled(v)
    BY <2>1, <2>3, HandledSame
  <2>5. WakeUps' = WakeUps
    <3>1. WakeUps' \subseteq WakeUps /\ WakeUps \subseteq WakeUps'
      BY <2>4 DEF WakeUps
    <3> QED
      BY <3>1
  <2>6. ReadyTasks' = ReadyTasks
    <3>1. \A u \in Queued : u \in Tasks /\ u # t
      BY <1>0, <2>1 DEF TasksInPlace, Queued, ToSet, TypeOK
    <3>2. \A u \in Queued : activator'[u] = activator[u]
      BY <1>0, <1>2, <2>1, <3>1 DEF TypeOK, RegisterDependency
    <3> QED
      BY <2>1, <3>2 DEF ReadyTasks, IsTaskReady, Queued
  <2>7. \A v \in Workers : pc'[v] # "scan"
    BY <1>0, <2>1 DEF ThreadsInPlace
  <2> QED
    BY <2>1, <2>3, <2>5, <2>6, <2>7 DEF WakeInv, Queued, Asleep
<1>3. CASE EndExecute(x)
  <2>. PICK t : t = creating[x]
    OBVIOUS
  <2>. PICK l : l = IF x \in Workers THEN "body" ELSE "idle"
    OBVIOUS
  <2>1. PICK S \in Notified(1) : GoNotifying(x, l, S)
    BY <1>3 DEF EndExecute
  <2>2. S \in SUBSET Asleep
    BY NotifiedAsleep
  <2>3. /\ pc'[x] = l
        /\ \A y \in Threads \ {x} : \/ pc'[y] = pc[y]
                                    \/ y \in Workers /\ pc[y] = "asleep" /\ pc'[y] = "locking"
    BY <1>0, <2>1, <2>2, GoFacts
  <2>4. /\ pc[x] = "register" /\ owner = x /\ t \in Tasks /\ t \notin Queued
        /\ tasks' = Append(tasks, t)
        /\ activator' = [activator EXCEPT ![t] = @ \ {Local}]
        /\ UNCHANGED <<shutdown, idx, target, continuations>>
    BY <1>0, <1>3 DEF EndExecute, Drop, ThreadsInPlace, TasksInPlace, TypeOK, Queued, ToSet
  <2>5. Queued' = Queued \union {t}
    BY <1>0, <2>4, ToSetAppend DEF Queued, TypeOK
  <2>6. ReadyTasks' \subseteq ReadyTasks \union {t}
    <3>1. \A u \in Queued : u \in Tasks /\ u # t
      BY <1>0, <2>4 DEF TasksInPlace, Queued, ToSet, TypeOK
    <3>2. \A u \in Queued : activator'[u] = activator[u]
      BY <1>0, <2>4, <3>1 DEF TypeOK
    <3> QED
      BY <2>5, <3>2 DEF ReadyTasks, IsTaskReady
  <2>7. \A v \in Workers : pc'[v] # "scan" /\ (pc'[v] = "settle" => pc[v] = "settle")
    BY <1>0, <2>3, <2>4 DEF ThreadsInPlace
  <2>8. \A v \in Workers :
            \/ Handling(v)' = Handling(v) /\ Handled(v)' = Handled(v)
            \/ ~Handling(v) /\ Handling(v)' /\ Handled(v) = 0 /\ Handled(v)' = 0
    <3>1. ASSUME NEW v \in Workers, v = x
          PROVE  Handling(v)' = Handling(v) /\ Handled(v)' = Handled(v)
      BY <2>3, <2>4, <3>1 DEF Handling, Handled
    <3>2. ASSUME NEW v \in Workers, v # x, pc'[v] = pc[v]
          PROVE  Handling(v)' = Handling(v) /\ Handled(v)' = Handled(v)
      BY <2>4, <3>2, HandledSame
    <3>3. ASSUME NEW v \in Workers, v # x, pc[v] = "asleep", pc'[v] = "locking"
          PROVE  ~Handling(v) /\ Handling(v)' /\ Handled(v) = 0 /\ Handled(v)' = 0
      BY <3>3 DEF Handling, Handled
    <3> QED
      BY <1>0, <2>3, <3>1, <3>2, <3>3
  <2>9. IsFiniteSet(WakeUps')
    <3>1. \A v \in Workers : Handling(v)' =>
               \/ Handling(v) /\ Handled(v)' <= Handled(v)
               \/ Handled(v)' = 0
      BY <1>00, <2>8
    <3> QED
      BY <1>0, <3>1, WakeUpsFiniteStep DEF WakeInv
  <2>10. IsFiniteSet(Queued')
    BY <2>5, FS_AddElement DEF WakeInv
  <2>11. ASSUME Asleep' # {}
         PROVE  AtMost(ReadyTasks', WakeUps')
    <3>1. S # Asleep /\ Asleep # {}
      <4>1. \A y \in S : pc'[y] = "locking"
        BY <1>0, <2>1, <2>2, <2>4 DEF GoNotifying, Asleep
      <4>2. Asleep' \subseteq Asleep
        BY <1>0, <2>3, <2>4 DEF Asleep
      <4>3. \A y \in S : y \notin Asleep'
        BY <4>1 DEF Asleep
      <4> QED
        BY <2>11, <4>2, <4>3
    <3>2. PICK s \in S : s \in Asleep
      BY <3>1, NotifiedOne
    <3>3. /\ s \in Workers /\ s # x /\ pc'[s] = "locking"
          /\ Handling(s)' /\ ~Handling(s) /\ Handled(s)' = 0
      BY <1>0, <2>1, <2>4, <3>2 DEF GoNotifying, Asleep, Handling, Handled
    <3>. PICK k : k = <<s, 0>>
      OBVIOUS
    <3>4. k \in WakeUps' /\ k \notin WakeUps
      <4>1. Handled(s)' >= 0
        BY <3>3
      <4> QED
        BY <3>3 DEF WakeUps
    <3>5. WakeUps \subseteq WakeUps'
      <4>1. \A v \in Workers : Handling(v) => Handling(v)' /\ Handled(v) <= Handled(v)'
        BY <1>00, <2>8
      <4> QED
        BY <1>0, <4>1, WakeUpsGrow
    <3>6. AtMost(ReadyTasks, WakeUps)
      BY <3>1 DEF WakeInv
    <3>7. WakeUps \union {k} \subseteq WakeUps'
      BY <3>4, <3>5
    <3> QED
      <4>1. AtMost(ReadyTasks \union {t}, WakeUps \union {k})
        BY <3>4, <3>6, AtMostAdd
      <4> QED
        BY <2>6, <2>9, <3>7, <4>1, AtMostMonotone
  <2>12. shutdown' => Asleep' = {}
    <3>1. Asleep' \subseteq Asleep
      BY <1>0, <2>3, <2>4 DEF Asleep
    <3> QED
      BY <2>4, <3>1 DEF WakeInv
  <2>13. \A c \in Clients : pc'[c] # "settle"
    BY <1>0, <2>3, <2>4 DEF WakeInv
  <2>14. \A v \in Workers : pc'[v] \notin {"scan", "settle"} => idx'[v] = 1
    <3>1. \A v \in Workers : pc'[v] \notin {"scan", "settle"} => pc[v] \notin {"scan", "settle"}
      BY <1>0, <2>3, <2>4
    <3> QED
      BY <2>4, <3>1 DEF WakeInv
  <2>15. \A v \in Workers : pc'[v] = "settle" => idx'[v] <= Len(continuations'[target'[v]]) + 1
    BY <2>4, <2>7 DEF WakeInv
  <2> QED
    BY <2>7, <2>9, <2>10, <2>11, <2>12, <2>13, <2>14, <2>15 DEF WakeInv
<1> QED
  BY <1>1, <1>2, <1>3 DEF Execute

LEMMA SettleWake ==
    ASSUME IsFiniteSet(Workers), External = {}, IInv, IInv', WakeInv, NEW x \in Threads, Settle(x)
    PROVE  WakeInv'
<1>0. /\ Workers \subseteq Threads /\ Clients \subseteq Threads /\ Workers \intersect Clients = {}
      /\ \A y \in Threads : y \in Workers \/ y \in Clients
      /\ None \notin Threads
      /\ TypeOK /\ ThreadsInPlace /\ TasksInPlace /\ TypeOK' /\ ThreadsInPlace'
  BY NoneAssumption, DisjointAssumption DEF Threads, IInv
<1>00. \A v \in Workers : Handled(v) \in Nat /\ Handled(v)' \in Nat
  BY <1>0, HandledTypes
<1>1. ASSUME NEW e \in External, x \in Clients, SettleExternal(x, e) PROVE FALSE
  OBVIOUS
<1>2. CASE RunContinuation(x)
  <2>. PICK i : i = idx[x]
    OBVIOUS
  <2>. PICK f : f = target[x]
    OBVIOUS
  <2>. PICK t : t = continuations[f][i]
    OBVIOUS
  <2>1. /\ pc[x] = "settle" /\ i <= Len(continuations[f]) /\ Drop(t, f)
        /\ idx' = [idx EXCEPT ![x] = @ + 1]
        /\ UNCHANGED <<tasks, shutdown, pc, target, continuations>>
    BY <1>2 DEF RunContinuation
  <2>2. x \in Workers
    BY <1>0, <2>1 DEF WakeInv
  <2>3. idx'[x] = i + 1 /\ i \in Nat \ {0} /\ \A v \in Threads : v # x => idx'[v] = idx[v]
    BY <1>0, <2>1 DEF TypeOK
  <2>4. ReadyTasks' \subseteq ReadyTasks \union {t}
    <3>1. \A u \in Queued : u \in Tasks
      BY <1>0 DEF Queued, ToSet, TypeOK
    <3>2. \A u \in Queued : u # t => activator'[u] = activator[u]
      BY <1>0, <2>1, <3>1 DEF TypeOK, Drop
    <3> QED
      BY <2>1, <3>2 DEF ReadyTasks, IsTaskReady, Queued
  <2>5. ASSUME NEW v \in Workers, v # x
        PROVE  Handling(v)' = Handling(v) /\ Handled(v)' = Handled(v)
    BY <1>0, <2>1, <2>3, <2>5, HandledSame
  <2>6. ASSUME NEW v \in Workers, v = x
        PROVE  Handling(v) /\ Handling(v)' /\ Handled(v) = i - 1 /\ Handled(v)' = i
    BY <2>1, <2>3, <2>6 DEF Handling, Handled
  <2>7. \A v \in Workers : Handling(v) => Handling(v)' /\ Handled(v) <= Handled(v)'
    BY <1>00, <2>3, <2>5, <2>6
  <2>8. IsFiniteSet(WakeUps')
    <3>1. \A v \in Workers : Handling(v)' =>
              \/ Handling(v) /\ Handled(v)' <= Handled(v)
              \/ Handled(v)' = 0
              \/ v = x /\ Handling(v) /\ Handled(v)' <= Handled(v) + 1
      BY <1>00, <2>3, <2>5, <2>6
    <3> QED
      BY <1>0, <3>1, WakeUpsFiniteStep DEF WakeInv
  <2>. PICK k : k = <<x, i>>
    OBVIOUS
  <2>9. k \in Owed' /\ k \in WakeUps' /\ k \notin WakeUps /\ k \notin Owed
    BY <2>2, <2>3, <2>6 DEF WakeUps, Owed
  <2>10. WakeUps \union {k} \subseteq WakeUps' /\ Owed \union {k} \subseteq Owed'
    BY <1>0, <2>7, <2>9, WakeUpsGrow
  <2>11. ASSUME Asleep' # {}
         PROVE  AtMost(ReadyTasks', WakeUps')
    <3>1. AtMost(ReadyTasks, WakeUps)
      BY <2>1, <2>11 DEF WakeInv, Asleep
    <3>2. AtMost(ReadyTasks \union {t}, WakeUps \union {k})
      BY <2>9, <3>1, AtMostAdd
    <3> QED
      BY <2>4, <2>8, <2>10, <3>2, AtMostMonotone
  <2>12. ASSUME NEW v \in Workers, pc'[v] = "scan"
         PROVE  AtMost(Passed(v)', Owed')
    <3>1. pc[v] = "scan" /\ v # x /\ v \in Threads
      BY <1>0, <2>1, <2>12
    <3>2. AtMost(Passed(v), Owed)
      BY <3>1 DEF WakeInv
    <3>3. AtMost(Passed(v) \union {t}, Owed \union {k})
      BY <2>9, <3>2, AtMostAdd
    <3>4. Passed(v)' \subseteq Passed(v) \union {t}
      BY <2>1, <2>3, <2>4, <3>1 DEF Passed
    <3>5. IsFiniteSet(Owed')
      <4>1. Owed' \subseteq WakeUps'
        BY DEF Owed
      <4> QED
        BY <2>8, <4>1, FS_Subset
    <3> QED
      BY <2>10, <3>3, <3>4, <3>5, AtMostMonotone
  <2>13. \A v \in Workers : pc'[v] = "settle" => idx'[v] <= Len(continuations'[target'[v]]) + 1
    <3>1. Len(continuations[f]) \in Nat
      BY <1>0, <2>1 DEF TypeOK, ThreadsInPlace
    <3>2. \A v \in Workers : v = x => idx'[v] <= Len(continuations'[target'[v]]) + 1
      BY <2>1, <2>3, <3>1
    <3>3. \A v \in Workers : v # x /\ pc'[v] = "settle" => idx'[v] <= Len(continuations'[target'[v]]) + 1
      BY <1>0, <2>1, <2>3 DEF WakeInv
    <3> QED
      BY <3>2, <3>3
  <2>14. \A v \in Workers : pc'[v] \notin {"scan", "settle"} => idx'[v] = 1
    BY <1>0, <2>1, <2>3 DEF WakeInv
  <2> QED
    BY <2>1, <2>8, <2>11, <2>12, <2>13, <2>14 DEF WakeInv, Queued, Asleep
<1>3. CASE EndSettling(x)
  <2>. PICK f : f = target[x]
    OBVIOUS
  <2>1. /\ pc[x] = "settle" /\ idx[x] > Len(continuations[f])
        /\ idx' = [idx EXCEPT ![x] = 1]
        /\ UNCHANGED <<tasks, shutdown, continuations, activator>>
    BY <1>3 DEF EndSettling
  <2>2. x \in Workers
    BY <1>0, <2>1 DEF WakeInv
  <2>3. pc'[x] = "relock" /\ (\A y \in Threads \ {x} : pc'[y] = pc[y]) /\ target' = target
    BY <1>0, <1>3, <2>2, GotoFacts DEF EndSettling
  <2>4. idx'[x] = 1 /\ idx[x] \in Nat \ {0} /\ \A v \in Threads : v # x => idx'[v] = idx[v]
    BY <1>0, <2>1 DEF TypeOK
  <2>5. idx[x] = Len(continuations[f]) + 1 /\ Len(continuations[f]) \in Nat
    <3>1. Len(continuations[f]) \in Nat
      BY <1>0, <2>1 DEF TypeOK, ThreadsInPlace
    <3>2. idx[x] <= Len(continuations[f]) + 1
      BY <2>1, <2>2 DEF WakeInv
    <3> QED
      BY <2>1, <2>4, <3>1, <3>2
  <2>6. \A v \in Workers : Handling(v)' = Handling(v) /\ Handled(v)' = Handled(v)
    <3>1. ASSUME NEW v \in Workers, v # x
          PROVE  Handling(v)' = Handling(v) /\ Handled(v)' = Handled(v)
      BY <1>0, <2>1, <2>3, <2>4, <3>1, HandledSame
    <3>2. ASSUME NEW v \in Workers, v = x
          PROVE  Handling(v)' = Handling(v) /\ Handled(v)' = Handled(v)
      BY <2>1, <2>3, <2>4, <2>5, <3>2 DEF Handling, Handled
    <3> QED
      BY <3>1, <3>2
  <2>7. WakeUps' = WakeUps /\ Owed' = Owed
    <3>1. WakeUps' \subseteq WakeUps /\ WakeUps \subseteq WakeUps'
      BY <2>6 DEF WakeUps
    <3> QED
      BY <3>1 DEF Owed
  <2>8. ReadyTasks' = ReadyTasks /\ Queued' = Queued
    BY <2>1 DEF ReadyTasks, IsTaskReady, Queued
  <2>9. \A v \in Workers : pc'[v] = "scan" => pc[v] = "scan" /\ Passed(v)' = Passed(v)
    BY <1>0, <2>1, <2>3, <2>4, <2>8 DEF Passed
  <2>10. Asleep' = Asleep
    BY <1>0, <2>1, <2>3 DEF Asleep
  <2>11. \A v \in Workers : pc'[v] = "settle" => idx'[v] <= Len(continuations'[target'[v]]) + 1
    BY <1>0, <2>1, <2>3, <2>4 DEF WakeInv
  <2>12. \A v \in Workers : pc'[v] \notin {"scan", "settle"} => idx'[v] = 1
    BY <1>0, <2>3, <2>4 DEF WakeInv
  <2>13. \A c \in Clients : pc'[c] # "settle"
    BY <1>0, <2>2, <2>3 DEF WakeInv
  <2> QED
    BY <2>1, <2>7, <2>8, <2>9, <2>10, <2>11, <2>12, <2>13 DEF WakeInv
<1> QED
  BY <1>1, <1>2, <1>3 DEF Settle

\* As many are notified as wake-ups are owed, or all that sleep: the bound by the
\* number of threads never cuts any off.
LEMMA NotifiedEnough ==
    ASSUME IsFiniteSet(Workers), NEW n \in Nat, NEW m, m = Cardinality(Workers),
           NEW S \in Notified(IF n < m THEN n ELSE m), S # Asleep
    PROVE  IsFiniteSet(S) /\ Cardinality(S) = n
<1>1. IsFiniteSet(Asleep) /\ S \in SUBSET Asleep /\ IsFiniteSet(S) /\ Cardinality(Asleep) <= m
  BY FS_Subset DEF Asleep, Notified
<1>2. m \in Nat /\ Cardinality(Asleep) \in Nat /\ Cardinality(S) \in Nat
  BY <1>1, FS_CardinalityType
<1>3. Cardinality(S) # Cardinality(Asleep)
  BY <1>1, FS_Subset
<1>. PICK q : q = IF n < m THEN n ELSE m
  OBVIOUS
<1>4. Cardinality(S) = IF q < Cardinality(Asleep) THEN q ELSE Cardinality(Asleep)
  BY DEF Notified
<1> QED
  BY <1>1, <1>2, <1>3, <1>4

LEMMA AfterTaskWake ==
    ASSUME IsFiniteSet(Workers), IInv, IInv', WakeInv, NEW w \in Workers, AfterTask(w)
    PROVE  WakeInv'
<1>0. /\ Workers \subseteq Threads /\ Clients \subseteq Threads /\ Workers \intersect Clients = {}
      /\ None \notin Threads /\ None \notin Tasks /\ w \in Threads
      /\ TypeOK /\ ThreadsInPlace /\ TasksInPlace /\ TypeOK' /\ ThreadsInPlace'
  BY NoneAssumption, DisjointAssumption DEF Threads, Futures, IInv
<1>00. \A v \in Workers : Handled(v) \in Nat /\ Handled(v)' \in Nat
  BY <1>0, HandledTypes
<1>. PICK f : f = target[w]
  OBVIOUS
<1>. PICK n : n = Len(continuations[f])
  OBVIOUS
<1>. PICK m : m = Cardinality(Workers)
  OBVIOUS
<1>. PICK l : l = IF shutdown THEN "done" ELSE "scan"
  OBVIOUS
<1>1. PICK S \in Notified(IF n < m THEN n ELSE m) : GoNotifying(w, l, S)
  BY DEF AfterTask, LoopHead
<1>2. S \in SUBSET Asleep
  BY NotifiedAsleep
<1>3. /\ pc[w] = "relock" /\ owner = None /\ f \in Tasks /\ f \in Futures /\ n \in Nat
      /\ continuations' = [continuations EXCEPT ![f] = <<>>]
      /\ target' = [target EXCEPT ![w] = None]
      /\ UNCHANGED <<tasks, shutdown, idx, activator>>
  BY <1>0 DEF AfterTask, ThreadsInPlace, TypeOK
<1>4. /\ pc'[w] = l
      /\ \A y \in Threads \ {w} : \/ pc'[y] = pc[y]
                                  \/ y \in Workers /\ pc[y] = "asleep" /\ pc'[y] = "locking"
  BY <1>0, <1>1, <1>2, GoFacts
<1>5. \A s \in S : s \in Workers /\ s # w /\ pc[s] = "asleep" /\ pc'[s] = "locking"
  BY <1>0, <1>1, <1>2, <1>3 DEF GoNotifying, Asleep
<1>6. ASSUME NEW v \in Workers, v # w, pc[v] \in {"settle", "relock"}
      PROVE  target'[v] = target[v] /\ continuations'[target[v]] = continuations[target[v]]
  <2>1. target[v] \in Tasks /\ target[v] # f
    BY <1>0, <1>3, <1>6 DEF ThreadsInPlace, TasksInPlace
  <2> QED
    BY <1>0, <1>3, <1>6, <2>1 DEF TypeOK, Futures
<1>7. ASSUME NEW v \in Workers, v # w, pc'[v] = pc[v]
      PROVE  Handling(v)' = Handling(v) /\ Handled(v)' = Handled(v)
  <2>1. target'[v] = target[v]
    BY <1>0, <1>3, <1>7 DEF TypeOK
  <2> QED
    BY <1>3, <1>6, <1>7, <2>1, HandledSame
<1>8. ASSUME NEW v \in Workers, pc[v] = "asleep", pc'[v] = "locking"
      PROVE  ~Handling(v) /\ Handling(v)' /\ Handled(v) = 0 /\ Handled(v)' = 0
  BY <1>8 DEF Handling, Handled
<1>9. ASSUME NEW v \in Workers, v = w
      PROVE  /\ Handling(v) /\ Handled(v) = n /\ Handled(v)' = 0
             /\ ~shutdown => Handling(v)'
  BY <1>3, <1>4, <1>9 DEF Handling, Handled
<1>10. \A v \in Workers : v = w \/ pc'[v] = pc[v] \/ (pc[v] = "asleep" /\ pc'[v] = "locking")
  BY <1>0, <1>4
<1>11. IsFiniteSet(WakeUps')
  <2>1. \A v \in Workers : Handling(v)' =>
            \/ Handling(v) /\ Handled(v)' <= Handled(v)
            \/ Handled(v)' = 0
    BY <1>00, <1>7, <1>8, <1>9, <1>10
  <2> QED
    BY <1>0, <2>1, WakeUpsFiniteStep DEF WakeInv
<1>12. Asleep' \subseteq Asleep /\ S \intersect Asleep' = {}
  BY <1>0, <1>3, <1>4, <1>5 DEF Asleep
<1>13. ASSUME Asleep' # {}
       PROVE  AtMost(ReadyTasks', WakeUps')
  <2>1. ~shutdown /\ S # Asleep /\ Asleep # {}
    BY <1>12, <1>13 DEF WakeInv
  <2>2. IsFiniteSet(S) /\ Cardinality(S) = n
    BY <1>3, <2>1, NotifiedEnough
  <2>. PICK C : C = {w} \X (1..n)
    OBVIOUS
  <2>. PICK D : D = S \X {0}
    OBVIOUS
  <2>3. IsFiniteSet(D) /\ Cardinality(D) = n
    <3>1. IsFiniteSet({0}) /\ Cardinality({0}) = 1
      BY FS_Singleton
    <3>2. IsFiniteSet(D) /\ Cardinality(D) = Cardinality(S) * Cardinality({0})
      BY <2>2, <3>1, FS_Product
    <3> QED
      BY <1>3, <2>2, <3>1, <3>2
  <2>4. Cardinality(C) = n
    <3>1. IsFiniteSet({w}) /\ Cardinality({w}) = 1
      BY FS_Singleton
    <3>2. IsFiniteSet(1..n) /\ Cardinality(1..n) = n
      <4>1. 1 \in Int /\ n \in Int /\ n \in Nat
        BY <1>3
      <4>2. IsFiniteSet(1..n) /\ Cardinality(1..n) = IF 1 > n THEN 0 ELSE n - 1 + 1
        BY <4>1, FS_Interval
      <4> QED
        BY <4>1, <4>2
    <3>3. Cardinality(C) = Cardinality({w}) * Cardinality(1..n)
      BY <3>1, <3>2, FS_Product
    <3> QED
      BY <1>3, <3>1, <3>2, <3>3
  <2>5. C \in SUBSET WakeUps
    <3>1. \A j \in 1..n : j \in Nat /\ Handling(w) /\ j <= Handled(w)
      BY <1>3, <1>9
    <3>2. \A j \in 1..n : <<w, j>> \in WakeUps
      BY <3>1, WakeUpsMember
    <3> QED
      BY <3>2
  <2>6. D \intersect WakeUps = {}
    <3>1. \A s \in S : ~Handling(s)
      BY <1>5 DEF Handling
    <3> QED
      BY <3>1 DEF WakeUps
  <2>7. (WakeUps \ C) \union D \subseteq WakeUps'
    <3>1. ASSUME NEW s \in S
          PROVE  <<s, 0>> \in WakeUps'
      <4>1. s \in Workers /\ Handling(s)' /\ Handled(s)' = 0
        BY <1>5, <1>8
      <4> QED
        BY <4>1 DEF WakeUps
    <3>2. ASSUME NEW k \in WakeUps, k \notin C
          PROVE  k \in WakeUps'
      <4>1. k \in Workers \X Nat /\ Handling(k[1]) /\ k[2] <= Handled(k[1])
        BY DEF WakeUps
      <4>. PICK v, j : v = k[1] /\ j = k[2]
        OBVIOUS
      <4>2. v \in Workers /\ j \in Nat /\ k = <<v, j>> /\ Handling(v) /\ j <= Handled(v)
        BY <4>1
      <4>3. CASE v = w
        <5>1. j = 0
          BY <1>3, <1>9, <3>2, <4>2, <4>3
        <5>2. Handling(v)' /\ Handled(v)' = 0
          BY <1>9, <2>1, <4>2, <4>3
        <5>3. Handling(k[1])' /\ k[2] <= Handled(k[1])'
          BY <5>1, <5>2
        <5> QED
          BY <4>1, <5>3 DEF WakeUps
      <4>4. CASE v # w
        <5>1. pc'[v] = pc[v]
          BY <1>8, <1>10, <4>2, <4>4
        <5>2. Handling(v)' /\ j <= Handled(v)'
          BY <1>7, <4>2, <4>4, <5>1
        <5>3. Handling(k[1])' /\ k[2] <= Handled(k[1])'
          BY <5>2
        <5> QED
          BY <4>1, <5>3 DEF WakeUps
      <4> QED
        BY <4>3, <4>4
    <3> QED
      BY <3>1, <3>2
  <2>8. AtMost(ReadyTasks, WakeUps)
    BY <2>1 DEF WakeInv
  <2>9. AtMost(ReadyTasks, (WakeUps \ C) \union D)
    <3>1. Cardinality(C) <= Cardinality(D)
      BY <1>3, <2>3, <2>4
    <3> QED
      BY <2>3, <2>5, <2>6, <2>8, <3>1, AtMostExchange
  <2>10. ReadyTasks' = ReadyTasks
    BY <1>3 DEF ReadyTasks, IsTaskReady, Queued
  <2> QED
    BY <1>11, <2>7, <2>9, <2>10, AtMostMonotone
<1>14. ASSUME NEW v \in Workers, pc'[v] = "scan"
       PROVE  AtMost(Passed(v)', Owed')
  <2>1. v = w
    BY <1>0, <1>3, <1>4, <1>14 DEF ThreadsInPlace
  <2>2. idx'[v] = 1
    BY <1>3, <2>1 DEF WakeInv
  <2>3. Passed(v)' = {}
    BY <2>2 DEF Passed
  <2>4. IsFiniteSet(Owed')
    <3>1. Owed' \subseteq WakeUps'
      BY DEF Owed
    <3> QED
      BY <1>11, <3>1, FS_Subset
  <2>5. IsFiniteSet(Passed(v)') /\ Cardinality(Passed(v)') = 0
    BY <2>3, FS_EmptySet
  <2>6. Cardinality(Owed') \in Nat
    BY <2>4, FS_CardinalityType
  <2> QED
    BY <2>4, <2>5, <2>6 DEF AtMost
<1>15. \A v \in Workers : pc'[v] = "settle" => idx'[v] <= Len(continuations'[target'[v]]) + 1
  <2>1. \A v \in Workers : pc'[v] = "settle" => v # w /\ pc[v] = "settle"
    BY <1>3, <1>4, <1>10
  <2> QED
    BY <1>3, <1>6, <2>1 DEF WakeInv
<1>16. \A v \in Workers : pc'[v] \notin {"scan", "settle"} => idx'[v] = 1
  <2>1. \A v \in Workers : pc'[v] \notin {"scan", "settle"} => pc[v] \notin {"scan", "settle"}
    BY <1>3, <1>10
  <2> QED
    BY <1>3, <2>1 DEF WakeInv
<1>17. \A c \in Clients : pc'[c] # "settle"
  BY <1>0, <1>4 DEF WakeInv
<1>18. shutdown' => Asleep' = {}
  BY <1>3, <1>12 DEF WakeInv
<1>19. IsFiniteSet(Queued')
  BY <1>3 DEF WakeInv, Queued
<1> QED
  BY <1>11, <1>13, <1>14, <1>15, <1>16, <1>17, <1>18, <1>19 DEF WakeInv

LEMMA ThreadLoopWake ==
    ASSUME IsFiniteSet(Workers), IInv, IInv', WakeInv, NEW w \in Workers, ThreadLoop(w)
    PROVE  WakeInv'
<1>0. /\ Workers \subseteq Threads /\ Clients \subseteq Threads /\ Workers \intersect Clients = {}
      /\ None \notin Threads /\ w \in Threads /\ w \notin Clients
      /\ TypeOK /\ ThreadsInPlace /\ TasksInPlace /\ TypeOK' /\ ThreadsInPlace'
  BY NoneAssumption, DisjointAssumption DEF Threads, IInv
<1>00. \A v \in Workers : Handled(v) \in Nat /\ Handled(v)' \in Nat
  BY <1>0, HandledTypes
\* What the steps have in common: w goes from one location to another, its task and
\* the activators stay as they are.
<1>1. ASSUME NEW l, Goto(w, l), UNCHANGED <<shutdown, continuations, activator>>,
             \A y \in Threads \ {w} : idx'[y] = idx[y] /\ target'[y] = target[y],
             idx'[w] = 1, l # "settle" \/ pc[w] = "body",
             pc[w] \in {"locking", "scan", "asleep", "body"},
             l \in {"scan", "done", "asleep", "body", "locking", "settle"}
      PROVE  /\ pc'[w] = l /\ \A y \in Threads \ {w} : pc'[y] = pc[y]
             /\ \A v \in Workers : v # w =>
                    Handling(v)' = Handling(v) /\ Handled(v)' = Handled(v)
             /\ \A v \in Workers : v = w => Handled(v) = 0 /\ Handled(v)' = 0
             /\ IsFiniteSet(WakeUps') /\ IsFiniteSet(Owed')
             /\ Owed' = Owed
             /\ \A v \in Workers : pc'[v] = "settle" => idx'[v] <= Len(continuations'[target'[v]]) + 1
             /\ \A v \in Workers : pc'[v] \notin {"scan", "settle"} => idx'[v] = 1
             /\ \A c \in Clients : pc'[c] # "settle"
             /\ (shutdown => l # "asleep") => (shutdown' => Asleep' = {})
  <2>1. pc'[w] = l /\ \A y \in Threads \ {w} : pc'[y] = pc[y]
    BY <1>0, <1>1, GotoFacts
  <2>2. \A v \in Workers : v # w => Handling(v)' = Handling(v) /\ Handled(v)' = Handled(v)
    <3> SUFFICES ASSUME NEW v \in Workers, v # w
                 PROVE  Handling(v)' = Handling(v) /\ Handled(v)' = Handled(v)
      OBVIOUS
    <3>1. pc'[v] = pc[v] /\ idx'[v] = idx[v] /\ target'[v] = target[v]
      BY <1>0, <1>1, <2>1
    <3> QED
      BY <1>1, <3>1, HandledSame
  <2>3. \A v \in Workers : v = w => Handled(v) = 0 /\ Handled(v)' = 0
    BY <1>1, <2>1 DEF Handled
  <2>4. IsFiniteSet(WakeUps')
    <3>1. \A v \in Workers : Handling(v)' =>
              \/ Handling(v) /\ Handled(v)' <= Handled(v)
              \/ Handled(v)' = 0
      BY <1>00, <2>2, <2>3
    <3> QED
      BY <1>0, <3>1, WakeUpsFiniteStep DEF WakeInv
  <2>5. Owed' = Owed
    <3>1. ASSUME NEW k \in Workers \X Nat, k[2] > 0
          PROVE  /\ Handling(k[1])' /\ k[2] <= Handled(k[1])'
                 <=> Handling(k[1]) /\ k[2] <= Handled(k[1])
      <4>. PICK v, j : v = k[1] /\ j = k[2]
        OBVIOUS
      <4>1. v \in Workers /\ j \in Nat /\ j > 0
        BY <3>1
      <4>2. CASE v = w
        BY <2>3, <4>1, <4>2
      <4>3. CASE v # w
        BY <2>2, <4>1, <4>3
      <4> QED
        BY <4>2, <4>3
    <3>2. Owed' \subseteq Owed /\ Owed \subseteq Owed'
      BY <3>1 DEF Owed, WakeUps
    <3> QED
      BY <3>2
  <2>6. IsFiniteSet(Owed')
    <3>1. Owed' \subseteq WakeUps'
      BY DEF Owed
    <3> QED
      BY <2>4, <3>1, FS_Subset
  <2>7. \A v \in Workers : pc'[v] = "settle" => idx'[v] <= Len(continuations'[target'[v]]) + 1
    <3>1. \A v \in Workers : v # w /\ pc'[v] = "settle" =>
              idx'[v] <= Len(continuations'[target'[v]]) + 1
      BY <1>0, <1>1, <2>1 DEF WakeInv
    <3>2. l = "settle" => Len(continuations'[target'[w]]) \in Nat
      BY <1>0, <2>1 DEF TypeOK, ThreadsInPlace
    <3>3. l = "settle" => idx'[w] <= Len(continuations'[target'[w]]) + 1
      BY <1>1, <3>2
    <3> QED
      BY <2>1, <3>1, <3>3
  <2>8. \A v \in Workers : pc'[v] \notin {"scan", "settle"} => idx'[v] = 1
    BY <1>0, <1>1, <2>1 DEF WakeInv
  <2>9. \A c \in Clients : pc'[c] # "settle"
    BY <1>0, <2>1 DEF WakeInv
  <2>10. (shutdown => l # "asleep") => (shutdown' => Asleep' = {})
    BY <1>0, <1>1, <2>1 DEF WakeInv, Asleep
  <2> QED
    BY <2>1, <2>2, <2>3, <2>4, <2>5, <2>6, <2>7, <2>8, <2>9, <2>10
<1>2. CASE EnterLoop(w)
  <2>. PICK l : l = IF shutdown THEN "done" ELSE "scan"
    OBVIOUS
  <2>1. /\ pc[w] = "locking" /\ owner = None /\ Goto(w, l) /\ idx[w] = 1
        /\ UNCHANGED <<tasks, shutdown, idx, target, continuations, activator>>
    <3>1. pc[w] = "locking"
      BY <1>2 DEF EnterLoop
    <3>2. idx[w] = 1
      BY <3>1 DEF WakeInv
    <3> QED
      BY <1>2, <3>1, <3>2 DEF EnterLoop, LoopHead, Goto
  <2>2. /\ pc'[w] = l /\ \A y \in Threads \ {w} : pc'[y] = pc[y]
        /\ \A v \in Workers : v # w => Handling(v)' = Handling(v) /\ Handled(v)' = Handled(v)
        /\ \A v \in Workers : v = w => Handled(v) = 0 /\ Handled(v)' = 0
        /\ IsFiniteSet(WakeUps') /\ IsFiniteSet(Owed')
        /\ \A v \in Workers : pc'[v] = "settle" => idx'[v] <= Len(continuations'[target'[v]]) + 1
        /\ \A v \in Workers : pc'[v] \notin {"scan", "settle"} => idx'[v] = 1
        /\ \A c \in Clients : pc'[c] # "settle"
        /\ shutdown' => Asleep' = {}
    BY <1>1, <2>1
  <2>3. ASSUME Asleep' # {}
        PROVE  AtMost(ReadyTasks', WakeUps')
    <3>1. Asleep' = Asleep /\ ~shutdown
      BY <1>0, <2>1, <2>2, <2>3 DEF Asleep
    <3>2. \A v \in Workers : v = w => Handling(v)'
      BY <2>2, <3>1 DEF Handling
    <3>3. WakeUps \subseteq WakeUps'
      <4>1. \A v \in Workers : Handling(v) => Handling(v)' /\ Handled(v) <= Handled(v)'
        BY <1>00, <2>2, <3>2
      <4> QED
        BY <1>0, <4>1, WakeUpsGrow
    <3>4. ReadyTasks' = ReadyTasks
      BY <2>1 DEF ReadyTasks, IsTaskReady, Queued
    <3>5. AtMost(ReadyTasks, WakeUps)
      BY <2>3, <3>1 DEF WakeInv
    <3> QED
      BY <2>2, <3>3, <3>4, <3>5, AtMostMonotone
  <2>4. ASSUME NEW v \in Workers, pc'[v] = "scan"
        PROVE  AtMost(Passed(v)', Owed')
    <3>1. v = w
      BY <1>0, <2>1, <2>2, <2>4 DEF ThreadsInPlace
    <3>2. Passed(v)' = {}
      BY <1>0, <2>1, <3>1 DEF Passed
    <3>3. /\ IsFiniteSet(Passed(v)') /\ Cardinality(Passed(v)') = 0
          /\ Cardinality(Owed') \in Nat
      BY <2>2, <3>2, FS_EmptySet, FS_CardinalityType
    <3> QED
      BY <2>2, <3>3 DEF AtMost
  <2> QED
    BY <2>1, <2>2, <2>3, <2>4 DEF WakeInv, Queued
<1>3. CASE SkipTask(w)
  <2>1. /\ pc[w] = "scan" /\ idx[w] \in 1..Len(tasks) /\ ~IsTaskReady(tasks[idx[w]])
        /\ idx' = [idx EXCEPT ![w] = @ + 1]
        /\ UNCHANGED <<tasks, shutdown, pc, target, continuations, activator>>
    BY <1>0, <1>3 DEF SkipTask, TypeOK
  <2>2. idx'[w] = idx[w] + 1 /\ \A y \in Threads : y # w => idx'[y] = idx[y]
    BY <1>0, <2>1 DEF TypeOK
  <2>3. \A v \in Workers : Handling(v)' = Handling(v) /\ Handled(v)' = Handled(v)
    <3>1. ASSUME NEW v \in Workers, v # w
          PROVE  Handling(v)' = Handling(v) /\ Handled(v)' = Handled(v)
      BY <1>0, <2>1, <2>2, <3>1, HandledSame
    <3>2. ASSUME NEW v \in Workers, v = w
          PROVE  Handling(v)' = Handling(v) /\ Handled(v)' = Handled(v)
      BY <2>1, <3>2 DEF Handling, Handled
    <3> QED
      BY <3>1, <3>2
  <2>4. WakeUps' = WakeUps /\ Owed' = Owed
    <3>1. WakeUps' \subseteq WakeUps /\ WakeUps \subseteq WakeUps'
      BY <2>3 DEF WakeUps
    <3> QED
      BY <3>1 DEF Owed
  <2>5. ReadyTasks' = ReadyTasks /\ Queued' = Queued /\ Asleep' = Asleep
    BY <2>1 DEF ReadyTasks, IsTaskReady, Queued, Asleep
  <2>6. \A v \in Workers : pc'[v] = "scan" => Passed(v)' = Passed(v)
    <3>1. ASSUME NEW v \in Workers, v # w
          PROVE  Passed(v)' = Passed(v)
      BY <1>0, <2>1, <2>2, <2>5, <3>1 DEF Passed
    <3>2. ASSUME NEW v \in Workers, v = w
          PROVE  Passed(v)' = Passed(v)
      <4>. PICK i : i = idx[w]
        OBVIOUS
      <4>1. i \in 1..Len(tasks) /\ tasks[i] \notin ReadyTasks /\ idx[v] = i /\ idx'[v] = i + 1
        BY <2>1, <2>2, <3>2 DEF ReadyTasks
      <4>2. \A j \in 1..Len(tasks) : j < i + 1 <=> j < i \/ j = i
        BY <4>1
      <4>3. Passed(v)' \subseteq Passed(v) /\ Passed(v) \subseteq Passed(v)'
        BY <2>1, <2>5, <4>1, <4>2 DEF Passed
      <4> QED
        BY <4>3
    <3> QED
      BY <3>1, <3>2
  <2>7. \A v \in Workers : pc'[v] = "settle" => idx'[v] <= Len(continuations'[target'[v]]) + 1
    BY <1>0, <2>1, <2>2 DEF WakeInv
  <2>8. \A v \in Workers : pc'[v] \notin {"scan", "settle"} => idx'[v] = 1
    BY <1>0, <2>1, <2>2 DEF WakeInv
  <2> QED
    BY <2>1, <2>4, <2>5, <2>6, <2>7, <2>8 DEF WakeInv
<1>4. CASE TakeTask(w)
  <2>. PICK i : i = idx[w]
    OBVIOUS
  <2>. PICK t : t = tasks[i]
    OBVIOUS
  <2>1. /\ pc[w] = "scan" /\ Goto(w, "body") /\ owner' = None
        /\ i \in 1..Len(tasks) /\ t \in ReadyTasks
        /\ tasks' = RemoveAt(tasks, i)
        /\ idx' = [idx EXCEPT ![w] = 1] /\ target' = [target EXCEPT ![w] = t]
        /\ UNCHANGED <<shutdown, continuations, activator>>
    <3>1. i \in 1..Len(tasks) /\ IsTaskReady(t)
      BY <1>0, <1>4 DEF TakeTask, TypeOK
    <3>2. t \in ReadyTasks
      BY <1>0, <3>1 DEF ReadyTasks, Queued, ToSet, TypeOK
    <3> QED
      BY <1>4, <3>1, <3>2 DEF TakeTask
  <2>2. /\ idx'[w] = 1
        /\ \A y \in Threads \ {w} : idx'[y] = idx[y] /\ target'[y] = target[y]
    BY <1>0, <2>1 DEF TypeOK
  <2>3. /\ pc'[w] = "body" /\ \A y \in Threads \ {w} : pc'[y] = pc[y]
        /\ \A v \in Workers : v # w => Handling(v)' = Handling(v) /\ Handled(v)' = Handled(v)
        /\ \A v \in Workers : v = w => Handled(v) = 0 /\ Handled(v)' = 0
        /\ IsFiniteSet(WakeUps')
        /\ \A v \in Workers : pc'[v] = "settle" => idx'[v] <= Len(continuations'[target'[v]]) + 1
        /\ \A v \in Workers : pc'[v] \notin {"scan", "settle"} => idx'[v] = 1
        /\ \A c \in Clients : pc'[c] # "settle"
        /\ shutdown' => Asleep' = {}
    BY <1>1, <2>1, <2>2
  <2>4. Queued' = Queued \ {t}
    <3>1. tasks \in Seq(Tasks) /\ \A j, k \in 1..Len(tasks) : tasks[j] = tasks[k] => j = k
      BY <1>0 DEF TypeOK, TasksInPlace
    <3>2. ToSet(RemoveAt(tasks, i)) = ToSet(tasks) \ {tasks[i]}
      BY <2>1, <3>1, ToSetRemoveAt
    <3> QED
      BY <2>1, <3>2 DEF Queued
  <2>5. ReadyTasks' \subseteq ReadyTasks \ {t}
    BY <2>1, <2>4 DEF ReadyTasks, IsTaskReady
  <2>6. IsFiniteSet(Queued')
    BY <2>4, FS_RemoveElement DEF WakeInv
  <2>7. ASSUME Asleep' # {}
        PROVE  AtMost(ReadyTasks', WakeUps')
    <3>1. Asleep' = Asleep
      BY <1>0, <2>1, <2>3 DEF Asleep
    <3>2. AtMost(ReadyTasks, WakeUps)
      BY <2>7, <3>1 DEF WakeInv
    <3>. PICK k : k = <<w, 0>>
      OBVIOUS
    <3>3. AtMost(ReadyTasks \ {t}, WakeUps \ {k})
      BY <2>1, <3>2, AtMostRemove
    <3>4. ASSUME NEW j \in WakeUps, j # k
          PROVE  j \in WakeUps'
      <4>1. j \in Workers \X Nat /\ Handling(j[1]) /\ j[2] <= Handled(j[1])
        BY DEF WakeUps
      <4>. PICK v, n : v = j[1] /\ n = j[2]
        OBVIOUS
      <4>2. v \in Workers /\ n \in Nat /\ j = <<v, n>> /\ Handling(v) /\ n <= Handled(v)
        BY <4>1
      <4>3. v # w
        BY <2>3, <3>4, <4>2
      <4>4. Handling(v)' /\ n <= Handled(v)'
        BY <2>3, <4>2, <4>3
      <4>5. Handling(j[1])' /\ j[2] <= Handled(j[1])'
        BY <4>4
      <4> QED
        BY <4>1, <4>5 DEF WakeUps
    <3>5. WakeUps \ {k} \subseteq WakeUps'
      BY <3>4
    <3> QED
      BY <2>3, <2>5, <3>3, <3>5, AtMostMonotone
  <2>8. \A v \in Workers : pc'[v] # "scan"
    BY <1>0, <2>1 DEF ThreadsInPlace
  <2> QED
    BY <2>3, <2>6, <2>7, <2>8 DEF WakeInv
<1>5. CASE Sleep(w)
  <2>1. /\ pc[w] = "scan" /\ idx[w] > Len(tasks) /\ Goto(w, "asleep") /\ owner' = None
        /\ ~shutdown /\ idx' = [idx EXCEPT ![w] = 1]
        /\ UNCHANGED <<tasks, shutdown, target, continuations, activator>>
    BY <1>0, <1>5 DEF Sleep, ThreadsInPlace
  <2>2. idx'[w] = 1 /\ \A y \in Threads \ {w} : idx'[y] = idx[y] /\ target'[y] = target[y]
    BY <1>0, <2>1 DEF TypeOK
  <2>3. /\ pc'[w] = "asleep" /\ \A y \in Threads \ {w} : pc'[y] = pc[y]
        /\ IsFiniteSet(WakeUps')
        /\ Owed' = Owed
        /\ \A v \in Workers : pc'[v] = "settle" => idx'[v] <= Len(continuations'[target'[v]]) + 1
        /\ \A v \in Workers : pc'[v] \notin {"scan", "settle"} => idx'[v] = 1
        /\ \A c \in Clients : pc'[c] # "settle"
        /\ shutdown' => Asleep' = {}
    BY <1>1, <2>1, <2>2
  <2>4. ReadyTasks' = ReadyTasks /\ Queued' = Queued
    BY <2>1 DEF ReadyTasks, IsTaskReady, Queued
  <2>5. AtMost(ReadyTasks', WakeUps')
    <3>1. AtMost(Passed(w), Owed)
      BY <2>1 DEF WakeInv
    <3>2. ReadyTasks \subseteq Passed(w)
      <4> SUFFICES ASSUME NEW t \in ReadyTasks PROVE t \in Passed(w)
        OBVIOUS
      <4>1. PICK i \in 1..Len(tasks) : tasks[i] = t
        BY <1>0 DEF ReadyTasks, Queued, ToSet, TypeOK
      <4>2. i < idx[w]
        BY <1>0, <2>1 DEF TypeOK
      <4> QED
        BY <4>1, <4>2 DEF Passed
    <3>3. Owed \subseteq WakeUps'
      <4>1. Owed' \subseteq WakeUps'
        BY DEF Owed
      <4> QED
        BY <2>3, <4>1
    <3> QED
      BY <2>3, <2>4, <3>1, <3>2, <3>3, AtMostMonotone
  <2>6. \A v \in Workers : pc'[v] # "scan"
    BY <1>0, <2>1 DEF ThreadsInPlace
  <2> QED
    BY <2>3, <2>4, <2>5, <2>6 DEF WakeInv
<1>6. CASE WakeUp(w) \/ FinishBody(w)
  <2>. PICK l : l = IF pc[w] = "body" THEN "settle" ELSE "locking"
    OBVIOUS
  <2>1. /\ pc[w] \in {"asleep", "body"} /\ Goto(w, l)
        /\ idx'[w] = 1
        /\ \A y \in Threads \ {w} : idx'[y] = idx[y] /\ target'[y] = target[y]
        /\ UNCHANGED <<tasks, shutdown, continuations, activator>>
    <3>1. CASE WakeUp(w)
      <4>1. pc[w] = "asleep" /\ Goto(w, l) /\ idx[w] = 1
        BY <3>1 DEF WakeUp, WakeInv
      <4> QED
        BY <3>1, <4>1 DEF WakeUp
    <3>2. CASE FinishBody(w)
      <4>1. PICK s : StartSettling(w, target[w], s)
        BY <3>2 DEF FinishBody
      <4>2. /\ pc[w] = "body" /\ Goto(w, l)
            /\ idx' = [idx EXCEPT ![w] = 1] /\ target' = [target EXCEPT ![w] = target[w]]
            /\ UNCHANGED <<tasks, shutdown, continuations, activator>>
        BY <3>2, <4>1 DEF FinishBody, StartSettling
      <4> QED
        BY <1>0, <4>2 DEF TypeOK
    <3> QED
      BY <1>6, <3>1, <3>2
  <2>2. /\ pc'[w] = l /\ \A y \in Threads \ {w} : pc'[y] = pc[y]
        /\ \A v \in Workers : v # w => Handling(v)' = Handling(v) /\ Handled(v)' = Handled(v)
        /\ \A v \in Workers : v = w => Handled(v) = 0 /\ Handled(v)' = 0
        /\ IsFiniteSet(WakeUps')
        /\ Owed' = Owed
        /\ \A v \in Workers : pc'[v] = "settle" => idx'[v] <= Len(continuations'[target'[v]]) + 1
        /\ \A v \in Workers : pc'[v] \notin {"scan", "settle"} => idx'[v] = 1
        /\ \A c \in Clients : pc'[c] # "settle"
        /\ shutdown' => Asleep' = {}
    <3>1. l # "settle" \/ pc[w] = "body"
      OBVIOUS
    <3>2. l \in {"scan", "done", "asleep", "body", "locking", "settle"} /\ l # "asleep"
      OBVIOUS
    <3> QED
      BY <1>1, <2>1, <3>1, <3>2
  <2>3. WakeUps \subseteq WakeUps'
    <3>1. \A v \in Workers : v = w => ~Handling(v)
      BY <2>1 DEF Handling
    <3>2. \A v \in Workers : Handling(v) => Handling(v)' /\ Handled(v) <= Handled(v)'
      BY <1>00, <2>2, <3>1
    <3> QED
      BY <1>0, <3>2, WakeUpsGrow
  <2>4. ReadyTasks' = ReadyTasks /\ Queued' = Queued
    BY <2>1 DEF ReadyTasks, IsTaskReady, Queued
  <2>5. ASSUME Asleep' # {}
        PROVE  AtMost(ReadyTasks', WakeUps')
    <3>1. Asleep' \subseteq Asleep
      BY <1>0, <2>1, <2>2 DEF Asleep
    <3>2. AtMost(ReadyTasks, WakeUps)
      BY <2>5, <3>1 DEF WakeInv
    <3> QED
      BY <2>2, <2>3, <2>4, <3>2, AtMostMonotone
  <2>6. ASSUME NEW v \in Workers, pc'[v] = "scan"
        PROVE  AtMost(Passed(v)', Owed')
    <3>1. v # w /\ pc[v] = "scan" /\ idx'[v] = idx[v]
      BY <1>0, <2>1, <2>2, <2>6
    <3>2. Passed(v)' = Passed(v)
      BY <2>1, <2>4, <3>1 DEF Passed
    <3> QED
      BY <2>2, <3>1, <3>2 DEF WakeInv
  <2> QED
    BY <2>2, <2>4, <2>5, <2>6 DEF WakeInv
<1> QED
  BY <1>2, <1>3, <1>4, <1>5, <1>6, AfterTaskWake DEF ThreadLoop

LEMMA DestroyWake ==
    ASSUME IsFiniteSet(Workers), IInv, IInv', WakeInv, Destroy
    PROVE  WakeInv'
<1>0. /\ Workers \subseteq Threads /\ Clients \subseteq Threads
      /\ None \notin Threads
      /\ TypeOK /\ ThreadsInPlace /\ TypeOK' /\ ThreadsInPlace'
  BY NoneAssumption DEF Threads, IInv
<1>1. CASE ShutdownNotifyThreads
  <2>1. /\ owner = None
        /\ pc' = [x \in Threads |-> IF x \in Asleep THEN "locking" ELSE pc[x]]
        /\ UNCHANGED <<tasks, idx, target, continuations, activator>>
    BY <1>1 DEF ShutdownNotifyThreads
  <2>2. \A v \in Workers : \/ pc'[v] = pc[v]
                           \/ pc[v] = "asleep" /\ pc'[v] = "locking"
    BY <1>0, <2>1 DEF Asleep
  <2>3. \A v \in Workers : \/ Handling(v)' = Handling(v) /\ Handled(v)' = Handled(v)
                           \/ Handled(v)' = 0
    <3>1. ASSUME NEW v \in Workers, pc'[v] = pc[v]
          PROVE  Handling(v)' = Handling(v) /\ Handled(v)' = Handled(v)
      BY <2>1, <3>1, HandledSame
    <3>2. ASSUME NEW v \in Workers, pc'[v] = "locking"
          PROVE  Handled(v)' = 0
      BY <3>2 DEF Handled
    <3> QED
      BY <2>2, <3>1, <3>2
  <2>4. IsFiniteSet(WakeUps')
    <3>1. \A v \in Workers : Handled(v) \in Nat /\ Handled(v)' \in Nat
      BY <1>0, HandledTypes
    <3>2. \A v \in Workers : Handling(v)' =>
              \/ Handling(v) /\ Handled(v)' <= Handled(v)
              \/ Handled(v)' = 0
      BY <2>3, <3>1
    <3> QED
      BY <1>0, <3>2, WakeUpsFiniteStep DEF WakeInv
  <2>5. Asleep' = {}
    <3>1. \A v \in Workers : pc'[v] # "asleep"
      BY <1>0, <2>1 DEF Asleep
    <3> QED
      BY <3>1 DEF Asleep
  <2>6. \A v \in Workers : pc'[v] # "scan" /\ (pc'[v] = "settle" => pc[v] = "settle")
    BY <1>0, <2>1, <2>2 DEF ThreadsInPlace
  <2>7. \A v \in Workers : pc'[v] = "settle" => idx'[v] <= Len(continuations'[target'[v]]) + 1
    BY <2>1, <2>6 DEF WakeInv
  <2>8. \A v \in Workers : pc'[v] \notin {"scan", "settle"} => idx'[v] = 1
    <3>1. \A v \in Workers : pc'[v] \notin {"scan", "settle"} => pc[v] \notin {"scan", "settle"}
      BY <2>2
    <3> QED
      BY <2>1, <3>1 DEF WakeInv
  <2>9. \A c \in Clients : pc'[c] # "settle"
    BY <1>0, <2>1 DEF WakeInv
  <2> QED
    BY <2>1, <2>4, <2>5, <2>6, <2>7, <2>8, <2>9 DEF WakeInv, Queued
<1>2. CASE ShutdownJoinThreads \/ DestructorReturns
  <2>1. UNCHANGED <<tasks, shutdown, pc, idx, target, continuations, activator>>
    BY <1>2 DEF ShutdownJoinThreads, DestructorReturns
  <2>2. \A v \in Workers : Handling(v)' = Handling(v) /\ Handled(v)' = Handled(v)
    BY <2>1, HandledSame
  <2>3. WakeUps' = WakeUps /\ Owed' = Owed
    <3>1. WakeUps' \subseteq WakeUps /\ WakeUps \subseteq WakeUps'
      BY <2>2 DEF WakeUps
    <3> QED
      BY <3>1 DEF Owed
  <2>4. ReadyTasks' = ReadyTasks /\ Queued' = Queued /\ Asleep' = Asleep
    BY <2>1 DEF ReadyTasks, IsTaskReady, Queued, Asleep
  <2>5. \A v \in Workers : Passed(v)' = Passed(v)
    BY <2>1, <2>4 DEF Passed
  <2> QED
    BY <2>1, <2>3, <2>4, <2>5 DEF WakeInv
<1>3. CASE DestroyTask
  <2>1. /\ \A v \in Workers : pc[v] = "done"
        /\ tasks # <<>> /\ tasks' = Tail(tasks) /\ tasks \in Seq(Tasks)
        /\ UNCHANGED <<shutdown, pc, idx>>
    BY <1>0, <1>3 DEF DestroyTask, ThreadsInPlace, TypeOK
  <2>2. WakeUps' \subseteq WakeUps
    BY <2>1 DEF WakeUps, Handling
  <2>3. IsFiniteSet(WakeUps')
    BY <2>2, FS_Subset DEF WakeInv
  <2>4. IsFiniteSet(Queued')
    <3>1. Queued' \subseteq Queued
      <4>. DEFINE r == Tail(tasks)
      <4>1. /\ r \in Seq(Tasks) /\ Len(r) = Len(tasks) - 1 /\ Len(tasks) \in Nat
            /\ \A j \in 1..(Len(tasks) - 1) : r[j] = tasks[j + 1]
        BY <2>1, TailFacts
      <4>2. tasks' = r
        BY <2>1
      <4>. HIDE DEF r
      <4>3. DOMAIN r = 1..(Len(tasks) - 1) /\ DOMAIN tasks = 1..Len(tasks)
        BY <2>1, <4>1
      <4>4. \A j \in DOMAIN r : j + 1 \in DOMAIN tasks /\ r[j] = tasks[j + 1]
        BY <4>1, <4>3
      <4>5. \A j \in DOMAIN r : r[j] \in ToSet(tasks)
        BY <4>4 DEF ToSet
      <4> QED
        BY <4>2, <4>5 DEF Queued, ToSet
    <3> QED
      BY <3>1, FS_Subset DEF WakeInv
  <2>5. Asleep' = {}
    BY <2>1 DEF Asleep
  <2> QED
    BY <2>1, <2>3, <2>4, <2>5 DEF WakeInv
<1> QED
  BY <1>1, <1>2, <1>3 DEF Destroy

LEMMA InitWake == IsFiniteSet(Workers) /\ Init => WakeInv
<1> SUFFICES ASSUME IsFiniteSet(Workers), Init PROVE WakeInv
  OBVIOUS
<1>0. Workers \subseteq Threads /\ Clients \subseteq Threads /\ Workers \intersect Clients = {}
  BY DisjointAssumption DEF Threads
<1>1. /\ \A w \in Workers : pc[w] = "locking" /\ idx[w] = 1
      /\ \A c \in Clients : pc[c] = "idle"
  BY <1>0 DEF Init
<1>2. Asleep = {}
  BY <1>1 DEF Asleep
<1>3. IsFiniteSet(WakeUps)
  <2>1. WakeUps \subseteq Workers \X {0}
    BY <1>1 DEF WakeUps, Handled
  <2>2. IsFiniteSet(Workers \X {0})
    BY FS_Singleton, FS_Product
  <2> QED
    BY <2>1, <2>2, FS_Subset
<1>4. IsFiniteSet(Queued)
  <2>1. Queued = {}
    BY DEF Init, Queued, ToSet
  <2> QED
    BY <2>1, FS_EmptySet
<1> QED
  BY <1>1, <1>2, <1>3, <1>4 DEF WakeInv

LEMMA WakeUndisturbed == WakeInv /\ UNCHANGED vars => WakeInv'
<1> SUFFICES ASSUME WakeInv, UNCHANGED vars PROVE WakeInv'
  OBVIOUS
<1>1. \A v \in Workers : Handling(v)' = Handling(v) /\ Handled(v)' = Handled(v)
  BY HandledSame DEF vars
<1>2. WakeUps' = WakeUps /\ Owed' = Owed
  <2>1. WakeUps' \subseteq WakeUps /\ WakeUps \subseteq WakeUps'
    BY <1>1 DEF WakeUps
  <2> QED
    BY <2>1 DEF Owed
<1>3. ReadyTasks' = ReadyTasks /\ Queued' = Queued /\ Asleep' = Asleep
  BY DEF vars, ReadyTasks, IsTaskReady, Queued, Asleep
<1>4. \A v \in Workers : Passed(v)' = Passed(v)
  BY <1>3 DEF vars, Passed
<1> QED
  BY <1>2, <1>3, <1>4 DEF vars, WakeInv

\* Whenever the mutex is free and every worker either sleeps or is inside a callable,
\* a sleeping worker means that no task in the list is ready: one notify_one per task
\* that is listed, and one per continuation of a task that has run, are enough, whoever
\* they wake and whatever is listed, settled and scanned in between.  It needs that
\* every future the tasks wait for is one of the pool's (StaticThreadPool.hpp:54,
\* 104-109), and a pool of finitely many threads.
THEOREM NoTaskSleptOver ==
    ASSUME IsFiniteSet(Workers), External = {}
    PROVE  Spec => []NoSleepingOverReadyTask
<1>1. Init => WakeInv
  BY InitWake
<1>2. IInv /\ IInv' /\ WakeInv /\ [Next]_vars => WakeInv'
  <2> SUFFICES ASSUME IInv, IInv', WakeInv, [Next]_vars PROVE WakeInv'
    OBVIOUS
  <2> QED
    BY WakeUndisturbed, ExecuteWake, SettleWake, ThreadLoopWake, DestroyWake DEF Next, Gone
<1>3. IInv /\ WakeInv => NoSleepingOverReadyTask
  <2> SUFFICES ASSUME IInv, WakeInv, Asleep # {},
                      \A w \in Workers : pc[w] \in {"asleep", "body"},
                      NEW t \in Queued, IsTaskReady(t)
               PROVE  FALSE
    BY DEF NoSleepingOverReadyTask
  <2>1. AtMost(ReadyTasks, WakeUps)
    BY DEF WakeInv
  <2>2. WakeUps = {}
    BY DEF WakeUps, Handling
  <2>3. Cardinality(WakeUps) = 0
    BY <2>2, FS_EmptySet
  <2>4. Cardinality(ReadyTasks) = 0
    <3>1. Cardinality(ReadyTasks) \in Nat /\ Cardinality(ReadyTasks) <= Cardinality(WakeUps)
      BY <2>1, FS_CardinalityType DEF AtMost
    <3> QED
      BY <2>3, <3>1
  <2>5. ReadyTasks = {}
    BY <2>1, <2>4, FS_EmptySet DEF AtMost
  <2> QED
    BY <2>5 DEF ReadyTasks
<1> QED
  BY <1>1, <1>2, <1>3, SpecIInv, PTL DEF Spec
=============================================================================
