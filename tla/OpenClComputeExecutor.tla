----------------------- MODULE OpenClComputeExecutor -----------------------
(***************************************************************************)
(* One Execute of azul::compute::clcpp::OpenClComputeExecutor              *)
(* (include/azul/compute/clcpp/OpenClComputeExecutor.hpp): the work items  *)
(* of a range of one, two or three dimensions are cut into tasks for the   *)
(* thread pool, each task calls the kernel once for each of its items with *)
(* the item's coordinates in a thread-local array, and the caller gets one *)
(* future for all of them.  Of the pool there are the list, the threads    *)
(* that take from it, and the destructor, which breaks what they left; how *)
(* they sleep and wake is in StaticThreadPool.                             *)
(***************************************************************************)
EXTENDS Naturals, Sequences, FiniteSets

CONSTANTS
    Workers,    \* the threads of the pool
    Sizes,      \* the global work sizes to try, sequences of 1, 2 or 3 numbers
    Offset      \* globalWorkOffset, three numbers of which a size uses the first ones

ASSUME WorkersAssumption == IsFiniteSet(Workers) /\ Workers # {}
ASSUME SizesAssumption ==
    /\ Sizes \subseteq Seq(Nat)
    /\ \A s \in Sizes : Len(s) \in 1..3
    /\ Offset \in [1..3 -> Nat]

VARIABLES
    size,       \* globalWorkSize
    next,       \* i of the loop in Execute
    tasks,      \* the tasks in the list of the pool, each by its first item and its end
    submitted,  \* those of taskResults
    finished,   \* those whose future is settled
    caller,     \* where the thread in Execute is
    task,       \* the task of each worker, or Idle
    item,       \* its j
    ready,      \* the workers that have set the coordinates and are about to call the kernel
    global_index,
    local,      \* WaitFor has a reference to sharedPromiseActivator
    held,       \* the tasks whose continuation has one
    settled,    \* the future of the caller has its value
    open,       \* the pool has not begun to shut down
    \* history: the coordinates the kernel has been called with, whether it was twice with
    \* the same, the items not reached because the kernel threw, and those of the tasks
    \* that were destroyed with the pool
    ran, again, skipped, unstarted

work == <<task, item, ready, global_index>>
promise == <<finished, local, held, settled>>
history == <<ran, again, skipped, unstarted>>
vars == <<size, next, tasks, submitted, caller, open, work, promise, history>>

Idle == [first |-> 0, end |-> 0]

-----------------------------------------------------------------------------
(* The work items                                                          *)

WorkItems(s) ==
    CASE Len(s) = 1 -> s[1]
      [] Len(s) = 2 -> s[1] * s[2]
      [] Len(s) = 3 -> s[1] * s[2] * s[3]

WorkItemsPerTask(s) ==
    LET share == WorkItems(s) \div Cardinality(Workers)
    IN  IF share > 1 THEN share ELSE 1

\* The coordinates of work item j, without the offset.
Coordinates(s, j) ==
    CASE Len(s) = 1 -> <<j>>
      [] Len(s) = 2 -> <<j % s[1], j \div s[1]>>
      [] Len(s) = 3 -> <<j % s[1], (j % (s[1] * s[2])) \div s[1], j \div (s[1] * s[2])>>

-----------------------------------------------------------------------------
Init ==
    /\ size \in Sizes
    /\ next = 0
    /\ tasks = <<>>
    /\ submitted = {} /\ finished = {}
    /\ caller = "submitting"
    /\ task = [w \in Workers |-> Idle]
    /\ item = [w \in Workers |-> 0]
    /\ ready = {}
    /\ global_index = [w \in Workers |-> [d \in 1..3 |-> 0]]
    /\ local = TRUE /\ held = {}
    /\ settled = FALSE
    /\ open = TRUE
    /\ ran = {} /\ again = FALSE /\ skipped = {} /\ unstarted = {}

\* The disposer sets the value when the last reference is gone.
Release(l, h) ==
    /\ local' = l
    /\ held' = h
    /\ settled' = (settled \/ (~l /\ h = {}))

-----------------------------------------------------------------------------
(* The caller                                                              *)

\* A round of the loop.
Submit ==
    LET per == WorkItemsPerTask(size)
        rest == WorkItems(size) - next
        new == [first |-> next, end |-> next + IF per < rest THEN per ELSE rest]
    IN
    /\ caller = "submitting" /\ next < WorkItems(size)
    /\ tasks' = Append(tasks, new)
    /\ submitted' = submitted \union {new}
    /\ next' = next + per
    /\ UNCHANGED <<size, caller, open, work, promise, history>>

\* WaitFor.
BeginWaitFor ==
    /\ caller = "submitting" /\ next >= WorkItems(size)
    /\ caller' = "registering"
    /\ next' = 0
    /\ UNCHANGED <<size, tasks, submitted, open, work, promise, history>>

\* Then on the next future: the continuation keeps a reference, or has run at once if
\* the task has finished.
Register ==
    \E t \in submitted :
        /\ caller = "registering" /\ t.first = next
        /\ held' = IF t \in finished THEN held ELSE held \union {t}
        /\ next' = t.end
        /\ UNCHANGED <<size, tasks, submitted, caller, open, work, finished, local, settled,
                       history>>

\* Fault: the value is set when WaitFor returns.
ReturnSettled ==
    /\ caller = "registering" /\ next = WorkItems(size)
    /\ caller' = "returned"
    /\ local' = FALSE
    /\ settled' = TRUE
    /\ UNCHANGED <<size, next, tasks, submitted, open, work, finished, held, history>>

\* Fault: a reference stays in the function that has been registered.
ReturnHolding ==
    /\ caller = "registering" /\ next = WorkItems(size)
    /\ caller' = "returned"
    /\ UNCHANGED <<size, next, tasks, submitted, open, work, promise, history>>

Return ==
    /\ caller = "registering" /\ next = WorkItems(size)
    /\ caller' = "returned"
    /\ Release(FALSE, held)
    /\ UNCHANGED <<size, next, tasks, submitted, open, work, finished, history>>

-----------------------------------------------------------------------------
(* The workers                                                             *)

\* A thread that is not to leave the loop takes the first task: none depends on any.
Take(w) ==
    /\ open /\ task[w] = Idle /\ tasks # <<>>
    /\ task' = [task EXCEPT ![w] = Head(tasks)]
    /\ item' = [item EXCEPT ![w] = Head(tasks).first]
    /\ tasks' = Tail(tasks)
    /\ UNCHANGED <<size, next, submitted, caller, open, ready, global_index, promise, history>>

GlobalIds(w) ==
    [d \in 1..3 |-> IF d <= Len(size) THEN Offset[d] + Coordinates(size, item[w])[d]
                                      ELSE global_index[w][d]]

\* Fault: all threads share one array.
SetGlobalIdsOfAll(w) ==
    /\ task[w] # Idle /\ w \notin ready /\ item[w] < task[w].end
    /\ global_index' = [v \in Workers |-> GlobalIds(w)]
    /\ ready' = ready \union {w}
    /\ UNCHANGED <<size, next, tasks, submitted, caller, open, task, item, promise, history>>

SetGlobalIds(w) ==
    /\ task[w] # Idle /\ w \notin ready /\ item[w] < task[w].end
    /\ global_index' = [global_index EXCEPT ![w] = GlobalIds(w)]
    /\ ready' = ready \union {w}
    /\ UNCHANGED <<size, next, tasks, submitted, caller, open, task, item, promise, history>>

\* The future of the task is settled, and with it goes the reference of its
\* continuation.
Finish(w) ==
    /\ finished' = finished \union {task[w]}
    /\ Release(local, held \ {task[w]})
    /\ task' = [task EXCEPT ![w] = Idle]

\* The kernel reads its coordinates.
CallKernel(w) ==
    LET id == SubSeq(global_index[w], 1, Len(size)) IN
    /\ w \in ready
    /\ ready' = ready \ {w}
    /\ ran' = ran \union {id}
    /\ again' = (again \/ id \in ran)
    /\ item' = [item EXCEPT ![w] = @ + 1]
    /\ UNCHANGED <<size, next, tasks, submitted, caller, open, task, global_index, promise,
                   skipped, unstarted>>

\* The kernel throws, which the future of the task keeps and nobody reads.
KernelThrows(w) ==
    /\ w \in ready
    /\ ready' = ready \ {w}
    /\ skipped' = skipped \union item[w]..(task[w].end - 1)
    /\ Finish(w)
    /\ UNCHANGED <<size, next, tasks, submitted, caller, open, item, global_index, ran, again,
                   unstarted>>

FinishTask(w) ==
    /\ task[w] # Idle /\ w \notin ready /\ item[w] = task[w].end
    /\ Finish(w)
    /\ UNCHANGED <<size, next, tasks, submitted, caller, open, item, ready, global_index, history>>

-----------------------------------------------------------------------------
(* ~StaticThreadPool                                                       *)

\* Nobody is in Execute: its executor has a reference to the pool.  The workers end what
\* they run and are joined.
Shutdown ==
    /\ open /\ caller = "returned"
    /\ open' = FALSE
    /\ UNCHANGED <<size, next, tasks, submitted, caller, work, promise, history>>

\* ShutdownDestroyRemainingTasks, one task of the list: its future is broken, and its
\* continuation destroyed with the reference.
BreakTask ==
    LET t == Head(tasks) IN
    /\ ~open /\ (\A w \in Workers : task[w] = Idle) /\ tasks # <<>>
    /\ tasks' = Tail(tasks)
    /\ finished' = finished \union {t}
    /\ Release(local, held \ {t})
    /\ unstarted' = unstarted \union t.first..(t.end - 1)
    /\ UNCHANGED <<size, next, submitted, caller, open, work, ran, again, skipped>>

-----------------------------------------------------------------------------
Execute == Submit \/ BeginWaitFor \/ Register \/ Return

Run(w) == Take(w) \/ SetGlobalIds(w) \/ CallKernel(w) \/ KernelThrows(w) \/ FinishTask(w)

\* Everybody has returned.
Done ==
    /\ caller = "returned" /\ finished = submitted
    /\ UNCHANGED vars

Next == Execute \/ (\E w \in Workers : Run(w)) \/ Shutdown \/ BreakTask \/ Done

Spec == Init /\ [][Next]_vars

\* The caller returns and each worker goes on, as threads do whose kernel returns.  Nobody
\* has to destroy the pool, but a destructor that has begun gets to its end.
FairSpec ==
    /\ Spec
    /\ WF_vars(Execute)
    /\ \A w \in Workers : WF_vars(Run(w))
    /\ WF_vars(BreakTask)

-----------------------------------------------------------------------------
(* Properties                                                              *)

Tasks == [first : Nat, end : Nat]

\* Every variable has its type.
TypeOK ==
    /\ size \in Sizes
    /\ next \in Nat
    /\ tasks \in Seq(Tasks)
    /\ submitted \subseteq Tasks
    /\ finished \subseteq submitted /\ held \subseteq submitted
    /\ caller \in {"submitting", "registering", "returned"}
    /\ task \in [Workers -> Tasks]
    /\ item \in [Workers -> Nat]
    /\ ready \subseteq Workers
    /\ global_index \in [Workers -> [1..3 -> Nat]]
    /\ local \in BOOLEAN /\ settled \in BOOLEAN /\ open \in BOOLEAN /\ again \in BOOLEAN
    /\ ran \subseteq Seq(Nat) /\ skipped \subseteq Nat /\ unstarted \subseteq Nat

\* The kernel is called at most once for each point of the range and for no other,
\* however the range is cut (lines 37-54, 62-77, 86-102) and whichever thread of the
\* pool runs a task while others set their coordinates.
EachItemOnce ==
    /\ ~again
    /\ \A id \in ran : \A d \in 1..Len(size) : id[d] \in Offset[d]..(Offset[d] + size[d] - 1)

\* When the future of Execute is settled the kernel has been called for every point of
\* the range (lines 108-127), but for those that it left out by throwing at them or at one
\* before them in the same task, and for those of the tasks that nobody had started when
\* the pool was destroyed (StaticThreadPool.hpp:131-134): these are broken one by one, but
\* the future of Execute gets its value all the same.
SettledAfterAll ==
    settled =>
        /\ Cardinality(ran) + Cardinality(skipped) + Cardinality(unstarted) = WorkItems(size)
        /\ open => unstarted = {}

\* The future of Execute is settled, with tasks or without, although the tasks may finish
\* before, while or after WaitFor registers on them, and the pool may be destroyed.
ResultSettled == <>settled
=============================================================================
