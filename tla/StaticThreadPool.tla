-------------------------- MODULE StaticThreadPool --------------------------
(***************************************************************************)
(* azul::async::StaticThreadPool (include/azul/async/StaticThreadPool.hpp) *)
(* with the tasks it runs (Task.hpp) and the WhenAll over a task's         *)
(* dependencies (Future.hpp:216-233): worker threads, clients that call    *)
(* Execute and settle promises of their own, tasks that call Execute       *)
(* while they run, and the destructor.                                     *)
(*                                                                         *)
(* The pool's _mutex is explicit: a worker holds it for a whole scan of    *)
(* the list and a caller of Execute while it registers the dependencies    *)
(* one by one, but the futures are settled by threads that do not hold it. *)
(* The state of a future has its own mutex (module FutureState), so a call *)
(* into it is one step here, and so is each continuation it runs.          *)
(***************************************************************************)
EXTENDS Naturals, FiniteSets, SequencesExt

CONSTANTS
    Workers,        \* _threads
    Clients,        \* other threads that use the pool
    Tasks,          \* the tasks that Execute may create
    External,       \* futures of promises the clients hold
    TaskOutcomes,   \* how the callable of a task ends: "Ready" or "Exception"
    None,           \* the owner of a free mutex, a null task
    Local           \* the reference of WhenAll's own frame to its activator

Threads == Workers \union Clients
Futures == Tasks \union External

ASSUME NoneAssumption == None \notin Threads \union Futures
ASSUME LocalAssumption == Local \notin Futures
ASSUME DisjointAssumption == Workers \intersect Clients = {} /\ Tasks \intersect External = {}
ASSUME OutcomeAssumption == TaskOutcomes \subseteq {"Ready", "Exception"}

VARIABLES
    owner,          \* the thread that holds _mutex
    tasks,          \* _tasks
    shutdown,       \* _shutdownInitiated
    destructor,     \* how far ~StaticThreadPool is
    pc,             \* where each thread is
    idx,            \* the element of _tasks or _continuations it is at
    target,         \* the task a worker runs, the future a client settles
    creating,       \* the task a thread creates in Execute
    todo,           \* the dependencies it has not called Then on yet
    state,          \* _state of every future
    continuations,  \* per future, the tasks whose WhenAll is registered there
    activator,      \* per task, who refers to the activator of its WhenAll
    dependencies,   \* history: the futures each submitted task was given
    submitted,      \* history: the tasks Execute was called for
    runs            \* history: how often each task's callable was started

vars == <<owner, tasks, shutdown, destructor, pc, idx, target, creating, todo,
          state, continuations, activator, dependencies, submitted, runs>>

FutureStates == {"Undefined", "Ready", "Exception", "BrokenPromise"}
Locations == {"idle", "locking", "scan", "asleep", "body", "register", "settle",
              "relock", "done"}

IsSettled(f) == state[f] # "Undefined"
Asleep == {w \in Workers : pc[w] = "asleep"}
Queued == ToSet(tasks)

\* TaskBase::IsReady.  The last reference to the activator sets the dependency.
IsTaskReady(t) == activator[t] = {}

Init ==
    /\ owner = None
    /\ tasks = <<>>
    /\ shutdown = FALSE
    /\ destructor = "alive"
    /\ pc = [x \in Threads |-> IF x \in Workers THEN "locking" ELSE "idle"]
    /\ idx = [x \in Threads |-> 1]
    /\ target = [x \in Threads |-> None]
    /\ creating = [x \in Threads |-> None]
    /\ todo = [x \in Threads |-> {}]
    /\ state = [f \in Futures |-> "Undefined"]
    /\ continuations = [f \in Futures |-> <<>>]
    /\ activator = [t \in Tasks |-> {}]
    /\ dependencies = [t \in Tasks |-> {}]
    /\ submitted = {}
    /\ runs = [t \in Tasks |-> 0]

\* pc' when x goes to location l and the sleepers in S are notified.
GoNotifying(x, l, S) ==
    pc' = [y \in Threads |-> IF y = x THEN l ELSE IF y \in S THEN "locking" ELSE pc[y]]

Goto(x, l) == GoNotifying(x, l, {})

\* The sets of sleepers that n calls of notify_one may wake.
Notified(n) == {S \in SUBSET Asleep :
                    Cardinality(S) = IF n < Cardinality(Asleep) THEN n ELSE Cardinality(Asleep)}

\* Fault: the first continuation to run sets the dependency, as WhenAny would.
DropEveryReference(t, f) == activator' = [activator EXCEPT ![t] = {}]

\* The reference of future f to the activator of t goes away.
Drop(t, f) == activator' = [activator EXCEPT ![t] = @ \ {f}]

-----------------------------------------------------------------------------
(* Execute, called by a client or by the callable of a task                *)

\* The mutex is taken and WhenAll creates its activator.
BeginExecute(x, t, D) ==
    /\ owner = None
    /\ pc[x] = "body" \/ (pc[x] = "idle" /\ destructor = "alive")
    /\ t \notin submitted
    /\ owner' = x
    /\ Goto(x, "register")
    /\ creating' = [creating EXCEPT ![x] = t]
    /\ todo' = [todo EXCEPT ![x] = D]
    /\ activator' = [activator EXCEPT ![t] = {Local}]
    /\ dependencies' = [dependencies EXCEPT ![t] = D]
    /\ submitted' = submitted \union {t}
    /\ UNCHANGED <<tasks, shutdown, destructor, idx, target, state, continuations, runs>>

\* WhenAll calls Then on a dependency: it is registered there, or it runs inline
\* and drops its copy of the activator at once.
RegisterDependency(x, f) ==
    /\ pc[x] = "register" /\ f \in todo[x]
    /\ todo' = [todo EXCEPT ![x] = @ \ {f}]
    /\ IF IsSettled(f)
         THEN UNCHANGED <<continuations, activator>>
         ELSE /\ continuations' = [continuations EXCEPT ![f] = Append(@, creating[x])]
              /\ activator' = [activator EXCEPT ![creating[x]] = @ \union {f}]
    /\ UNCHANGED <<owner, tasks, shutdown, destructor, pc, idx, target, creating, state,
                   dependencies, submitted, runs>>

\* WhenAll returns; the task is appended, one worker notified, the mutex released.
EndExecute(x) ==
    /\ pc[x] = "register" /\ todo[x] = {}
    /\ Drop(creating[x], Local)
    /\ tasks' = Append(tasks, creating[x])
    /\ creating' = [creating EXCEPT ![x] = None]
    /\ \E S \in Notified(1) :
           GoNotifying(x, IF x \in Workers THEN "body" ELSE "idle", S)
    /\ owner' = None
    /\ UNCHANGED <<shutdown, destructor, idx, target, todo, state, continuations,
                   dependencies, submitted, runs>>

-----------------------------------------------------------------------------
(* Settling a future: its state changes, then its continuations run        *)

StartSettling(x, f, s) ==
    /\ state' = [state EXCEPT ![f] = s]
    /\ Goto(x, "settle")
    /\ target' = [target EXCEPT ![x] = f]
    /\ idx' = [idx EXCEPT ![x] = 1]

\* A client fulfils its promise or destroys it.
SettleExternal(x, e) ==
    /\ pc[x] = "idle" /\ ~IsSettled(e)
    /\ \E s \in {"Ready", "Exception", "BrokenPromise"} : StartSettling(x, e, s)
    /\ UNCHANGED <<owner, tasks, shutdown, destructor, creating, todo, continuations,
                   activator, dependencies, submitted, runs>>

\* Task::operator(): the callable returns or throws.
FinishBody(w) ==
    /\ pc[w] = "body"
    /\ \E s \in TaskOutcomes : StartSettling(w, target[w], s)
    /\ UNCHANGED <<owner, tasks, shutdown, destructor, creating, todo, continuations,
                   activator, dependencies, submitted, runs>>

\* One continuation runs, or is destroyed with a broken promise: either way its
\* copy of the activator of the dependent task goes away.
RunContinuation(x) ==
    LET f == target[x] IN
    /\ pc[x] = "settle" /\ idx[x] <= Len(continuations[f])
    /\ Drop(continuations[f][idx[x]], f)
    /\ idx' = [idx EXCEPT ![x] = @ + 1]
    /\ UNCHANGED <<owner, tasks, shutdown, destructor, pc, target, creating, todo, state,
                   continuations, dependencies, submitted, runs>>

EndSettling(x) ==
    /\ pc[x] = "settle" /\ idx[x] > Len(continuations[target[x]])
    /\ Goto(x, IF x \in Workers THEN "relock" ELSE "idle")
    /\ idx' = [idx EXCEPT ![x] = 1]
    /\ target' = IF x \in Workers THEN target ELSE [target EXCEPT ![x] = None]
    /\ UNCHANGED <<owner, tasks, shutdown, destructor, creating, todo, state,
                   continuations, activator, dependencies, submitted, runs>>

-----------------------------------------------------------------------------
(* ThreadLoop                                                              *)

\* Fault: the loop does not look at _shutdownInitiated.
LoopHeadForever(w, S) ==
    /\ owner' = w
    /\ GoNotifying(w, "scan", S)

\* The head of the loop, with the mutex just taken: leave, or scan from the front.
\* The sleepers in S have been notified before.
LoopHead(w, S) ==
    /\ owner' = IF shutdown THEN None ELSE w
    /\ GoNotifying(w, IF shutdown THEN "done" ELSE "scan", S)

\* The thread starts, or its wait_for has returned.
EnterLoop(w) ==
    /\ pc[w] = "locking" /\ owner = None
    /\ LoopHead(w, {})
    /\ UNCHANGED <<tasks, shutdown, destructor, idx, target, creating, todo, state,
                   continuations, activator, dependencies, submitted, runs>>

\* NextTask, one element: IsReady reads the dependency of the task as it is now.
SkipTask(w) ==
    /\ pc[w] = "scan" /\ idx[w] <= Len(tasks) /\ ~IsTaskReady(tasks[idx[w]])
    /\ idx' = [idx EXCEPT ![w] = @ + 1]
    /\ UNCHANGED <<owner, tasks, shutdown, destructor, pc, target, creating, todo, state,
                   continuations, activator, dependencies, submitted, runs>>

\* The task leaves the list, the mutex is released and the callable starts.
TakeTask(w) ==
    /\ pc[w] = "scan" /\ idx[w] <= Len(tasks) /\ IsTaskReady(tasks[idx[w]])
    /\ tasks' = RemoveAt(tasks, idx[w])
    /\ target' = [target EXCEPT ![w] = tasks[idx[w]]]
    /\ runs' = [runs EXCEPT ![tasks[idx[w]]] = @ + 1]
    /\ idx' = [idx EXCEPT ![w] = 1]
    /\ owner' = None
    /\ Goto(w, "body")
    /\ UNCHANGED <<shutdown, destructor, creating, todo, state, continuations, activator,
                   dependencies, submitted>>

\* No task is ready: wait_for releases the mutex.
Sleep(w) ==
    /\ pc[w] = "scan" /\ idx[w] > Len(tasks)
    /\ idx' = [idx EXCEPT ![w] = 1]
    /\ owner' = None
    /\ Goto(w, "asleep")
    /\ UNCHANGED <<tasks, shutdown, destructor, target, creating, todo, state,
                   continuations, activator, dependencies, submitted, runs>>

\* Fault: a wait without a timeout (and, by luck, without spurious wake-ups).
WakeUpNever(w) == pc[w] = "asleep" /\ FALSE /\ UNCHANGED vars

\* The 1000 ms are over, or the wake-up is spurious.
WakeUp(w) ==
    /\ pc[w] = "asleep"
    /\ Goto(w, "locking")
    /\ UNCHANGED <<owner, tasks, shutdown, destructor, idx, target, creating, todo, state,
                   continuations, activator, dependencies, submitted, runs>>

\* Fault: no worker is notified of the tasks that became ready.
AfterTaskSilently(w) ==
    /\ pc[w] = "relock" /\ owner = None
    /\ LoopHead(w, {})
    /\ continuations' = [continuations EXCEPT ![target[w]] = <<>>]
    /\ target' = [target EXCEPT ![w] = None]
    /\ UNCHANGED <<tasks, shutdown, destructor, idx, creating, todo, state, activator,
                   dependencies, submitted, runs>>

\* The mutex is taken again after the task: one notify_one per continuation of the
\* task, at most one per thread, and the task is destroyed.
AfterTask(w) ==
    LET n == Len(continuations[target[w]])
        m == Cardinality(Workers)
    IN
    /\ pc[w] = "relock" /\ owner = None
    /\ \E S \in Notified(IF n < m THEN n ELSE m) : LoopHead(w, S)
    /\ continuations' = [continuations EXCEPT ![target[w]] = <<>>]
    /\ target' = [target EXCEPT ![w] = None]
    /\ UNCHANGED <<tasks, shutdown, destructor, idx, creating, todo, state, activator,
                   dependencies, submitted, runs>>

-----------------------------------------------------------------------------
(* ~StaticThreadPool                                                       *)

\* ShutdownNotifyThreads.  A client must not be in Execute, nor call it again.
ShutdownNotifyThreads ==
    /\ destructor = "alive" /\ owner = None
    /\ shutdown' = TRUE
    /\ destructor' = "join"
    /\ pc' = [x \in Threads |-> IF x \in Asleep THEN "locking" ELSE pc[x]]
    /\ UNCHANGED <<owner, tasks, idx, target, creating, todo, state, continuations,
                   activator, dependencies, submitted, runs>>

\* Fault: the destructor does not wait for the workers.
ShutdownDetachThreads ==
    /\ destructor = "join"
    /\ destructor' = "destroy"
    /\ UNCHANGED <<owner, tasks, shutdown, pc, idx, target, creating, todo, state,
                   continuations, activator, dependencies, submitted, runs>>

ShutdownJoinThreads ==
    /\ destructor = "join" /\ \A w \in Workers : pc[w] = "done"
    /\ destructor' = "destroy"
    /\ UNCHANGED <<owner, tasks, shutdown, pc, idx, target, creating, todo, state,
                   continuations, activator, dependencies, submitted, runs>>

\* ShutdownDestroyRemainingTasks, one task of the list: ~Promise breaks its future
\* and destroys what is registered there.
DestroyTask ==
    LET t == Head(tasks) IN
    /\ destructor = "destroy" /\ tasks # <<>>
    /\ tasks' = Tail(tasks)
    /\ state' = [state EXCEPT ![t] = "BrokenPromise"]
    /\ activator' = [u \in Tasks |-> IF u \in ToSet(continuations[t])
                                       THEN activator[u] \ {t} ELSE activator[u]]
    /\ continuations' = [continuations EXCEPT ![t] = <<>>]
    /\ UNCHANGED <<owner, shutdown, destructor, pc, idx, target, creating, todo,
                   dependencies, submitted, runs>>

\* Fault: the remaining tasks outlive the pool.
DestructorLeavesTasks ==
    /\ destructor = "destroy"
    /\ destructor' = "done"
    /\ UNCHANGED <<owner, tasks, shutdown, pc, idx, target, creating, todo, state,
                   continuations, activator, dependencies, submitted, runs>>

DestructorReturns ==
    /\ destructor = "destroy" /\ tasks = <<>>
    /\ destructor' = "done"
    /\ UNCHANGED <<owner, tasks, shutdown, pc, idx, target, creating, todo, state,
                   continuations, activator, dependencies, submitted, runs>>

-----------------------------------------------------------------------------
Execute(x) ==
    \/ \E t \in Tasks : \E D \in SUBSET (submitted \union External) : BeginExecute(x, t, D)
    \/ \E f \in Futures : RegisterDependency(x, f)
    \/ EndExecute(x)

Settle(x) ==
    \/ \E e \in External : x \in Clients /\ SettleExternal(x, e)
    \/ RunContinuation(x)
    \/ EndSettling(x)

ThreadLoop(w) ==
    \/ EnterLoop(w) \/ SkipTask(w) \/ TakeTask(w) \/ Sleep(w) \/ WakeUp(w)
    \/ FinishBody(w) \/ AfterTask(w)

Destroy ==
    \/ ShutdownNotifyThreads \/ ShutdownJoinThreads \/ DestroyTask \/ DestructorReturns

\* The pool is gone; whoever is left does nothing with it.
Gone == destructor = "done" /\ UNCHANGED vars

Next ==
    \/ \E x \in Threads : Execute(x) \/ Settle(x)
    \/ \E w \in Workers : ThreadLoop(w)
    \/ Destroy
    \/ Gone

Spec == Init /\ [][Next]_vars

\* Nobody has to call Execute or to destroy the pool.  A thread that has something
\* to do is scheduled, wait_for ends after 1000 ms at the latest, a mutex that
\* stays free is taken, a callable returns, and whoever holds an external promise
\* settles it some day.
Fairness ==
    /\ \A w \in Workers : WF_vars(ThreadLoop(w))
    /\ \A x \in Threads :
           /\ WF_vars(\E f \in Futures : RegisterDependency(x, f))
           /\ WF_vars(EndExecute(x))
           /\ WF_vars(Settle(x))
    /\ WF_vars(ShutdownJoinThreads \/ DestroyTask \/ DestructorReturns)

FairSpec == Spec /\ Fairness

-----------------------------------------------------------------------------
(* Properties                                                              *)

\* The pool, its futures and the program counters stay well formed.
TypeOK ==
    /\ owner \in Threads \union {None}
    /\ tasks \in Seq(Tasks)
    /\ shutdown \in BOOLEAN
    /\ destructor \in {"alive", "join", "destroy", "done"}
    /\ pc \in [Threads -> Locations]
    /\ idx \in [Threads -> Nat \ {0}]
    /\ target \in [Threads -> Futures \union {None}]
    /\ creating \in [Threads -> Tasks \union {None}]
    /\ todo \in [Threads -> SUBSET Futures]
    /\ state \in [Futures -> FutureStates]
    /\ continuations \in [Futures -> Seq(Tasks)]
    /\ activator \in [Tasks -> SUBSET (Futures \union {Local})]
    /\ dependencies \in [Tasks -> SUBSET Futures]
    /\ submitted \in SUBSET Tasks
    /\ runs \in [Tasks -> Nat]

\* Where the threads and their tasks are: what the two invariants below rest on.
ThreadsInPlace ==
    /\ \A x \in Threads : pc[x] \in {"register", "scan"} => owner = x
    /\ \A x \in Threads : pc[x] = "register" <=> creating[x] # None
    /\ \A x \in Threads : pc[x] \in {"idle", "locking", "scan", "asleep", "done"} => target[x] = None
    /\ \A w \in Workers : pc[w] \in {"body", "register", "settle", "relock"} => target[w] \in Tasks
    /\ \A w \in Workers : pc[w] # "idle"
    /\ \A c \in Clients : /\ pc[c] \in {"idle", "register", "settle"}
                          /\ target[c] \in External \union {None}
                          /\ pc[c] = "register" => target[c] = None
    /\ \A x \in Threads : pc[x] \in {"settle", "relock"} =>
           target[x] \in Futures /\ IsSettled(target[x])
    /\ destructor \in {"destroy", "done"} => \A w \in Workers : pc[w] = "done"
    /\ shutdown <=> destructor # "alive"
    /\ \A w \in Workers : pc[w] = "scan" => ~shutdown

\* A submitted task is in one place: being created, in the list once, or taken by
\* one worker, and then it is settled by that worker or by nobody.
TasksInPlace ==
    /\ \A x \in Threads : creating[x] # None =>
           /\ creating[x] \in submitted
           /\ runs[creating[x]] = 0 /\ ~IsSettled(creating[x])
           /\ \A i \in 1..Len(tasks) : tasks[i] # creating[x]
    /\ \A i \in 1..Len(tasks) :
           tasks[i] \in submitted /\ runs[tasks[i]] = 0 /\ ~IsSettled(tasks[i])
    /\ \A i, j \in 1..Len(tasks) : tasks[i] = tasks[j] => i = j
    /\ \A t \in Tasks \ submitted : runs[t] = 0 /\ ~IsSettled(t)
    /\ \A w \in Workers : target[w] # None => runs[target[w]] = 1
    /\ \A w \in Workers : pc[w] \in {"body", "register"} => ~IsSettled(target[w])
    /\ \A v, w \in Workers : target[v] = target[w] /\ v # w => target[v] = None
    /\ \A t \in Tasks : runs[t] <= 1
    /\ \A t \in Tasks : runs[t] > 0 /\ ~IsSettled(t)
           => \E w \in Workers : target[w] = t /\ pc[w] # "done"

\* A dependency of a task is settled, or it holds the task's activator, or Execute
\* has yet to register with it.
DependencyHeld(t, f) ==
    \/ IsSettled(f)
    \/ f \in activator[t]
    \/ \E x \in Threads : creating[x] = t /\ f \in todo[x]

DependenciesHeld == \A t \in submitted : \A f \in dependencies[t] : DependencyHeld(t, f)

\* A callable starts only after every future it was given is settled, although
\* the dependencies are settled while they are still being registered
\* (WhenAll, Future.hpp:216-233, Task.hpp:30-33, StaticThreadPool.hpp:69-89).
DependenciesSettledBeforeRun ==
    \A t \in Tasks : runs[t] > 0 => \A f \in dependencies[t] : IsSettled(f)

\* The inductive invariant of Spec.
IInv ==
    /\ TypeOK
    /\ ThreadsInPlace
    /\ TasksInPlace
    /\ DependenciesHeld
    /\ DependenciesSettledBeforeRun

\* A task is taken by one worker only, and its future is not settled while it is
\* still in the list (StaticThreadPool.hpp:81-86).
TakenOnce ==
    /\ \A t \in Tasks : runs[t] <= 1
    /\ \A t \in Queued : runs[t] = 0 /\ ~IsSettled(t)
    /\ \A v, w \in Workers : target[v] = target[w] /\ v # w => target[v] = None

\* No worker sleeps over a task it could run.  Whenever the mutex is free and every
\* worker either sleeps or is inside a callable, a sleeping worker means that no
\* task in the list is ready (the notify_one of lines 54 and 104-109).  It does not
\* hold for tasks that wait for external promises, which nobody tells the pool of.
NoSleepingOverReadyTask ==
    owner = None /\ Asleep # {} /\ (\A w \in Workers : pc[w] \in {"asleep", "body"})
        => \A t \in Queued : ~IsTaskReady(t)

\* The destructor leaves no future unsettled: it breaks exactly the promises of the
\* tasks that never started, those submitted by a task during shutdown included
\* (lines 119-134).
AllSettledAfterDestruction ==
    destructor = "done"
        => \A t \in submitted :
               /\ IsSettled(t)
               /\ (state[t] = "BrokenPromise") <=> (runs[t] = 0)

\* The tasks, seen as a TaskGraph: a task is waiting from the moment Execute takes
\* the mutex, and running until its future is settled.
StatusOf(t) ==
    CASE t \notin submitted -> "new"
      [] t \in submitted /\ state[t] = "BrokenPromise" -> "broken"
      [] t \in submitted /\ state[t] \in {"Ready", "Exception"} -> "done"
      [] t \in submitted /\ ~IsSettled(t) -> IF runs[t] > 0 THEN "running" ELSE "waiting"

Status == [t \in Tasks |-> StatusOf(t)]
SettledExternal == {e \in External : IsSettled(e)}

Graph == INSTANCE TaskGraph WITH
    status <- Status,
    settled <- SettledExternal,
    open <- (destructor = "alive")

\* The pool implements the task graph.
ImplementsTaskGraph == Graph!Spec

\* Every submitted task is settled some day, be it that a worker runs it or that
\* the destructor breaks it, external dependencies included (the timeout of 114).
SubmittedIsSettled == \A t \in Tasks : (t \in submitted) ~> IsSettled(t)

\* The destructor returns: no worker is left waiting (lines 33-38, 95, 112).
DestructorTerminates == (destructor = "join") ~> (destructor = "done")
=============================================================================
