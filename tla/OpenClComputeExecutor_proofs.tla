--------------------- MODULE OpenClComputeExecutor_proofs ---------------------
(***************************************************************************)
(* The executor calls the kernel once for each point of the range and      *)
(* settles the future of the caller after all of them, for any ranges and  *)
(* any number of workers, also when the pool is destroyed meanwhile.       *)
(***************************************************************************)
EXTENDS OpenClComputeExecutor, Integers, FiniteSetTheorems, TLAPS

-----------------------------------------------------------------------------
(* Division                                                                *)

LEMMA Distributive == \A a, x, y \in Int : a * (x + y) = a * x + a * y
  OBVIOUS

LEMMA Associative == \A a, x, y \in Int : (a * x) * y = a * (x * y)
  OBVIOUS

LEMMA NoFactorZero ==
    ASSUME NEW a \in Nat, NEW b \in Nat, NEW c \in Nat, NEW j \in Nat, j < (a * b) * c
    PROVE  a # 0 /\ b # 0
  <1>1. \A x \in Nat : 0 * x = 0 /\ x * 0 = 0
    OBVIOUS
  <1>2. CASE a = 0
    <2>1. a * b = 0
      BY <1>1, <1>2
    <2>2. (a * b) * c = 0
      BY <1>1, <2>1
    <2>. QED  BY <2>2
  <1>3. CASE b = 0
    <2>1. a * b = 0
      BY <1>1, <1>3
    <2>2. (a * b) * c = 0
      BY <1>1, <2>1
    <2>. QED  BY <2>2
  <1>. QED  BY <1>2, <1>3

\* The multiples of a are at least a apart.
LEMMA Multiples == \A a, x, y \in Nat : x < y => a * x + a <= a * y
  OBVIOUS

LEMMA Division ==
    ASSUME NEW a \in Nat \ {0}, NEW j \in Nat
    PROVE  /\ j \div a \in Nat /\ j % a \in 0..(a - 1)
           /\ j = a * (j \div a) + (j % a)
  OBVIOUS

\* A remainder and a quotient determine the number.
LEMMA DivisionInjective ==
    ASSUME NEW a \in Nat \ {0}, NEW j \in Nat, NEW k \in Nat,
           j % a = k % a, j \div a = k \div a
    PROVE  j = k
  BY Division

\* The quotient of a number below a * m is below m.
LEMMA QuotientBelow ==
    ASSUME NEW a \in Nat \ {0}, NEW m \in Nat, NEW j \in Nat, j < a * m
    PROVE  j \div a \in 0..(m - 1)
  <1>. DEFINE q == j \div a
  <1>1. q \in Nat /\ j % a \in 0..(a - 1) /\ j = a * q + (j % a)
    BY Division
  <1>2. m <= q => a * m <= a * q
    <2>1. m < q => a * m + a <= a * q
      BY <1>1, Multiples
    <2>. QED  BY <1>1, <2>1
  <1>3. a * q \in Nat /\ a * m \in Nat
    BY <1>1
  <1>. HIDE DEF q
  <1>4. ~(m <= q)
    BY <1>1, <1>2, <1>3
  <1>5. q \in 0..(m - 1)
    BY <1>1, <1>4
  <1>. QED  BY <1>5 DEF q

\* The remainder for a multiple of a has the remainder for a.
LEMMA RemainderOfRemainder ==
    ASSUME NEW a \in Nat \ {0}, NEW b \in Nat \ {0}, NEW j \in Nat
    PROVE  /\ a * b \in Nat \ {0}
           /\ (j % (a * b)) % a = j % a
  <1>1. a * b \in Nat \ {0}
    OBVIOUS
  <1>2. PICK q \in Nat, r \in Nat :
            /\ r = j % (a * b)
            /\ j = (a * b) * q + r
    <2>1. ASSUME NEW c \in Nat \ {0}
          PROVE  \E q \in Nat, r \in Nat : r = j % c /\ j = c * q + r
      <3>1. /\ j \div c \in Nat /\ j % c \in Nat
            /\ j = c * (j \div c) + (j % c)
        BY Division
      <3>. QED  BY <3>1, Zenon
    <2>. QED  BY <1>1, <2>1
  <1>3. PICK x \in Nat, v \in 0..(a - 1) : v = r % a /\ r = a * x + v
    BY Division
  <1>4. (a * b) * q = a * (b * q)
    BY Associative
  <1>5. a * (b * q + x) = a * (b * q) + a * x
    <2>1. b * q \in Nat
      OBVIOUS
    <2>. QED  BY <2>1, Distributive
  <1>6. PICK y \in Nat : y = b * q + x
    OBVIOUS
  <1>7. j = a * y + v
    <2>1. a * (b * q) \in Nat /\ a * x \in Nat /\ a * y \in Nat
      BY <1>6
    <2>. QED  BY <1>2, <1>3, <1>4, <1>5, <1>6, <2>1
  <1>8. (a * y + v) % a = v
    OBVIOUS
  <1>. QED  BY <1>1, <1>2, <1>3, <1>7, <1>8

-----------------------------------------------------------------------------
(* The range                                                               *)

Items(s) == 0..(WorkItems(s) - 1)

\* The sizes the assumption speaks of, written out.
LEMMA SizeCases ==
    ASSUME NEW s \in Sizes
    PROVE  \/ Len(s) = 1 /\ s[1] \in Nat /\ WorkItems(s) = s[1]
           \/ Len(s) = 2 /\ s[1] \in Nat /\ s[2] \in Nat /\ WorkItems(s) = s[1] * s[2]
           \/ /\ Len(s) = 3 /\ s[1] \in Nat /\ s[2] \in Nat /\ s[3] \in Nat
              /\ WorkItems(s) = (s[1] * s[2]) * s[3]
  <1>1. s \in Seq(Nat) /\ Len(s) \in 1..3
    BY SizesAssumption
  <1>2. CASE Len(s) = 1
    BY <1>1, <1>2 DEF WorkItems
  <1>3. CASE Len(s) = 2
    BY <1>1, <1>3 DEF WorkItems
  <1>4. CASE Len(s) = 3
    <2>1. s[1] \in Nat /\ s[2] \in Nat /\ s[3] \in Nat
      <3>1. \A i \in 1..Len(s) : s[i] \in Nat
        BY <1>1
      <3>2. 1 \in 1..Len(s) /\ 2 \in 1..Len(s) /\ 3 \in 1..Len(s)
        BY <1>4
      <3>. QED  BY <3>1, <3>2
    <2>2. Len(s) # 1 /\ Len(s) # 2
      BY <1>4
    <2>3. WorkItems(s) = (s[1] * s[2]) * s[3]
      BY <1>4, <2>2 DEF WorkItems
    <2>. QED  BY <1>4, <2>1, <2>3
  <1>. QED  BY <1>1, <1>2, <1>3, <1>4

LEMMA WorkItemsType == \A s \in Sizes : WorkItems(s) \in Nat
  BY SizeCases

LEMMA WorkItemsPerTaskType ==
    ASSUME NEW s \in Sizes
    PROVE  WorkItemsPerTask(s) \in Nat \ {0}
  <1>1. Cardinality(Workers) \in Nat \ {0}
    BY WorkersAssumption, FS_CardinalityType, FS_EmptySet
  <1>2. WorkItems(s) \div Cardinality(Workers) \in Nat
    <2>1. ASSUME NEW c \in Nat \ {0}, NEW n \in Nat
          PROVE  n \div c \in Nat
      BY Division
    <2>. QED  BY <1>1, <2>1, WorkItemsType
  <1>. QED  BY <1>2 DEF WorkItemsPerTask

\* No coordinate leaves its dimension, and no two items have the same coordinates.
LEMMA CoordinatesInRange ==
    ASSUME NEW s \in Sizes, NEW j \in Items(s), NEW d \in 1..Len(s)
    PROVE  s[d] \in Nat /\ Coordinates(s, j)[d] \in 0..(s[d] - 1)
  <1>1. j \in Nat /\ j < WorkItems(s)
    BY WorkItemsType DEF Items
  <1>2. CASE Len(s) = 1
    BY <1>1, <1>2, SizeCases DEF Coordinates
  <1>3. CASE Len(s) = 2
    <2>1. PICK a \in Nat, b \in Nat : a = s[1] /\ b = s[2] /\ j < a * b
      BY <1>1, <1>3, SizeCases
    <2>2. a # 0
      BY <1>1, <2>1
    <2>3. j % a \in 0..(a - 1) /\ j \div a \in 0..(b - 1)
      BY <1>1, <2>1, <2>2, Division, QuotientBelow
    <2>4. Coordinates(s, j) = <<j % a, j \div a>>
      BY <1>3, <2>1 DEF Coordinates
    <2>. QED  BY <1>3, <2>1, <2>3, <2>4
  <1>4. CASE Len(s) = 3
    <2>1. PICK a \in Nat, b \in Nat, c \in Nat :
              a = s[1] /\ b = s[2] /\ c = s[3] /\ j < (a * b) * c
      <3>1. /\ s[1] \in Nat /\ s[2] \in Nat /\ s[3] \in Nat
            /\ WorkItems(s) = (s[1] * s[2]) * s[3]
        BY <1>4, SizeCases
      <3>. QED  BY <1>1, <3>1, Zenon
    <2>2. a # 0 /\ b # 0
      BY <1>1, <2>1, NoFactorZero
    <2>3. a * b \in Nat \ {0}
      BY <2>2, RemainderOfRemainder
    <2>4. /\ j % a \in 0..(a - 1)
          /\ j \div (a * b) \in 0..(c - 1)
          /\ j % (a * b) \in 0..(a * b - 1)
      BY <1>1, <2>1, <2>2, <2>3, Division, QuotientBelow
    <2>5. (j % (a * b)) \div a \in 0..(b - 1)
      <3>1. PICK r \in Nat : r = j % (a * b) /\ r < a * b
        BY <2>3, <2>4
      <3>2. r \div a \in 0..(b - 1)
        BY <2>2, <3>1, QuotientBelow
      <3>. QED  BY <3>1, <3>2, Zenon
    <2>6. Coordinates(s, j) = <<j % a, (j % (a * b)) \div a, j \div (a * b)>>
      BY <1>4, <2>1 DEF Coordinates
    <2>. QED  BY <1>4, <2>1, <2>4, <2>5, <2>6
  <1>. QED  BY <1>2, <1>3, <1>4, SizesAssumption

LEMMA CoordinatesInjective ==
    ASSUME NEW s \in Sizes, NEW j \in Items(s), NEW k \in Items(s),
           \A d \in 1..Len(s) : Coordinates(s, j)[d] = Coordinates(s, k)[d]
    PROVE  j = k
  <1>1. j \in Nat /\ k \in Nat /\ j < WorkItems(s)
    BY WorkItemsType DEF Items
  <1>2. CASE Len(s) = 1
    BY <1>1, <1>2 DEF Coordinates
  <1>3. CASE Len(s) = 2
    <2>1. PICK a \in Nat, b \in Nat : a = s[1] /\ b = s[2] /\ j < a * b
      BY <1>1, <1>3, SizeCases
    <2>2. a # 0
      BY <1>1, <2>1
    <2>3. j % a = k % a /\ j \div a = k \div a
      BY <1>3, <2>1 DEF Coordinates
    <2>. QED  BY <1>1, <2>2, <2>3, DivisionInjective
  <1>4. CASE Len(s) = 3
    <2>1. PICK a \in Nat, b \in Nat, c \in Nat :
              a = s[1] /\ b = s[2] /\ c = s[3] /\ j < (a * b) * c
      <3>1. /\ s[1] \in Nat /\ s[2] \in Nat /\ s[3] \in Nat
            /\ WorkItems(s) = (s[1] * s[2]) * s[3]
        BY <1>4, SizeCases
      <3>. QED  BY <1>1, <3>1, Zenon
    <2>2. a # 0 /\ b # 0
      BY <1>1, <2>1, NoFactorZero
    <2>3. a * b \in Nat \ {0}
      BY <2>2, RemainderOfRemainder
    <2>4. /\ j % a = k % a
          /\ (j % (a * b)) \div a = (k % (a * b)) \div a
          /\ j \div (a * b) = k \div (a * b)
      BY <1>4, <2>1 DEF Coordinates
    <2>5. (j % (a * b)) % a = (k % (a * b)) % a
      <3>1. (j % (a * b)) % a = j % a /\ (k % (a * b)) % a = k % a
        BY <1>1, <2>2, RemainderOfRemainder
      <3>. QED  BY <2>4, <3>1, Zenon
    <2>6. j % (a * b) \in Nat /\ k % (a * b) \in Nat
      <3>1. \A m \in Nat \ {0} : \A i \in Nat : i % m \in Nat
        BY Division
      <3>. QED  BY <1>1, <2>3, <3>1
    <2>7. j % (a * b) = k % (a * b)
      BY <2>2, <2>4, <2>5, <2>6, DivisionInjective
    <2>. QED  BY <1>1, <2>3, <2>4, <2>7, DivisionInjective
  <1>. QED  BY <1>2, <1>3, <1>4, SizesAssumption

LEMMA OffsetType ==
    ASSUME NEW s \in Sizes, NEW d \in 1..Len(s)
    PROVE  d \in 1..3 /\ Offset[d] \in Nat
  <1>1. PICK n \in 1..3 : n = Len(s)
    BY SizesAssumption
  <1>2. d \in 1..3
    BY <1>1
  <1>. QED  BY <1>2, SizesAssumption

\* The global coordinates of work item j.
Point(s, j) == [d \in 1..Len(s) |-> Offset[d] + Coordinates(s, j)[d]]

LEMMA PointInRange ==
    ASSUME NEW s \in Sizes, NEW j \in Items(s)
    PROVE  /\ Point(s, j) \in Seq(Nat)
           /\ \A d \in 1..Len(s) : Point(s, j)[d] \in Offset[d]..(Offset[d] + s[d] - 1)
  <1>1. \A d \in 1..Len(s) : Offset[d] \in Nat
    BY OffsetType
  <1>2. \A d \in 1..Len(s) : s[d] \in Nat /\ Coordinates(s, j)[d] \in 0..(s[d] - 1)
    BY CoordinatesInRange
  <1>3. \A d \in 1..Len(s) : Point(s, j)[d] = Offset[d] + Coordinates(s, j)[d]
    BY DEF Point
  <1>4. \A d \in 1..Len(s) : Point(s, j)[d] \in Nat
    BY <1>1, <1>2, <1>3
  <1>5. Point(s, j) = [d \in 1..Len(s) |-> Point(s, j)[d]]
    BY DEF Point
  <1>6. Point(s, j) \in [1..Len(s) -> Nat] /\ Len(s) \in Nat
    BY <1>4, <1>5, SizesAssumption
  <1>7. Point(s, j) \in Seq(Nat)
    BY <1>6
  <1>. QED  BY <1>1, <1>2, <1>3, <1>7

LEMMA PointInjective ==
    ASSUME NEW s \in Sizes, NEW j \in Items(s), NEW k \in Items(s), Point(s, j) = Point(s, k)
    PROVE  j = k
  <1>1. ASSUME NEW d \in 1..Len(s)
        PROVE  Coordinates(s, j)[d] = Coordinates(s, k)[d]
    <2>1. Offset[d] + Coordinates(s, j)[d] = Offset[d] + Coordinates(s, k)[d]
      <3>1. Point(s, j)[d] = Point(s, k)[d]
        OBVIOUS
      <3>. QED  BY <3>1 DEF Point
    <2>2. /\ Offset[d] \in Nat
          /\ Coordinates(s, j)[d] \in Nat /\ Coordinates(s, k)[d] \in Nat
      BY OffsetType, CoordinatesInRange
    <2>. QED  BY <2>1, <2>2
  <1>. QED  BY <1>1, CoordinatesInjective

-----------------------------------------------------------------------------
(* The inductive invariant                                                 *)

\* Item j belongs to task t.
Holds(t, j) == t.first <= j /\ j < t.end

\* The tasks lie one beside the other inside of the range, so far up to next.
TasksInRange ==
    /\ \A t \in submitted :
        /\ t.first < t.end /\ t.end <= WorkItems(size)
        /\ caller = "submitting" => t.end <= next
    /\ \A t, u \in submitted : t = u \/ t.end <= u.first \/ u.end <= t.first

\* They leave no item out.
ItemsCovered ==
    \A j \in Items(size) :
        (caller = "submitting" => j < next) => \E t \in submitted : Holds(t, j)

\* A task waits at one place of the list or is run by one worker, or none.
TasksInPlace ==
    /\ \A i \in 1..Len(tasks) :
        /\ tasks[i] \in submitted \ finished
        /\ \A w \in Workers : task[w] # tasks[i]
    /\ \A i, j \in 1..Len(tasks) : tasks[i] = tasks[j] => i = j
    /\ \A w \in Workers : task[w] # Idle => task[w] \in submitted \ finished
    /\ \A v, w \in Workers : task[v] = task[w] /\ task[v] # Idle => v = w

\* A worker is at an item of its task, and about to call the kernel it has set the
\* coordinates of that item.
ItemInTask ==
    \A w \in Workers :
        /\ task[w] # Idle => task[w].first <= item[w] /\ item[w] <= task[w].end
        /\ w \in ready =>
            /\ task[w] # Idle /\ item[w] < task[w].end
            /\ \A d \in 1..Len(size) : global_index[w][d] = Point(size, item[w])[d]

\* A worker has been at item j and has gone on, or has ended the task.
Passed(j) ==
    \E t \in submitted :
        /\ Holds(t, j)
        /\ t \in finished \/ \E w \in Workers : task[w] = t /\ j < item[w]

Called == {j \in Items(size) : Passed(j) /\ j \notin skipped \union unstarted}

\* The kernel has been called for the items passed, but for those that were skipped
\* when it threw and those of the tasks that nobody had started when the pool went.
CalledOnce ==
    /\ ran = {Point(size, j) : j \in Called}
    /\ ~again
    /\ \A j \in skipped \union unstarted :
          j \in Items(size) /\ \E t \in finished : Holds(t, j)
    /\ skipped \intersect unstarted = {}
    /\ open => unstarted = {}

\* The references to the promise outlive the tasks: that of WaitFor until it has
\* registered on all of them, those of the continuations until their tasks are finished.
ResultLast ==
    /\ local <=> caller # "returned"
    /\ settled => ~local /\ held = {}
    /\ caller = "registering" =>
        /\ next <= WorkItems(size)
        /\ \A t \in submitted : t.first < next => t \in held \/ t \in finished
    /\ caller = "returned" => submitted \subseteq held \union finished

IInv ==
    /\ TypeOK
    /\ TasksInRange
    /\ ItemsCovered
    /\ TasksInPlace
    /\ ItemInTask
    /\ CalledOnce
    /\ ResultLast

LEMMA InitIInv == Init => IInv
  <1>. SUFFICES ASSUME Init
                PROVE  IInv
    OBVIOUS
  <1>1. TypeOK
    <2>. USE DEF Init
    <2>1. Idle \in Tasks
      BY DEF Idle, Tasks
    <2>2. task \in [Workers -> Tasks] /\ item \in [Workers -> Nat]
      BY <2>1
    <2>3. global_index \in [Workers -> [1..3 -> Nat]]
      OBVIOUS
    <2>4. /\ tasks \in Seq(Tasks)
          /\ submitted \subseteq Tasks /\ finished \subseteq submitted /\ held \subseteq submitted
          /\ ran \subseteq Seq(Nat) /\ skipped \subseteq Nat
      OBVIOUS
    <2>. QED  BY <2>2, <2>3, <2>4 DEF TypeOK
  <1>2. TasksInRange /\ TasksInPlace /\ ItemInTask /\ ResultLast
    BY DEF Init, TasksInRange, TasksInPlace, ItemInTask, ResultLast
  <1>3. ItemsCovered
    BY WorkItemsType DEF Init, ItemsCovered, Items
  <1>4. CalledOnce
    <2>1. Called = {}
      BY DEF Init, Called, Passed
    <2>. QED  BY <2>1 DEF Init, CalledOnce
  <1>. QED  BY <1>1, <1>2, <1>3, <1>4 DEF IInv

-----------------------------------------------------------------------------
(* The types                                                               *)

\* The task that a round of the loop submits.
LEMMA SubmitTask ==
    ASSUME TypeOK, Submit
    PROVE  \E new \in Tasks :
              /\ new.first = next /\ next < new.end /\ new.end <= WorkItems(size)
              /\ next' \in Nat /\ new.end <= next'
              /\ next' < WorkItems(size) => new.end = next'
              /\ next' >= WorkItems(size) => new.end = WorkItems(size)
              /\ tasks' = Append(tasks, new)
              /\ submitted' = submitted \union {new}
  <1>1. /\ next \in Nat /\ WorkItems(size) \in Nat /\ next < WorkItems(size)
        /\ WorkItemsPerTask(size) \in Nat \ {0}
    BY WorkItemsType, WorkItemsPerTaskType DEF TypeOK, Submit
  <1>2. PICK per \in Nat \ {0}, n \in Nat : per = WorkItemsPerTask(size) /\ n = WorkItems(size)
    BY <1>1
  <1>3. PICK e : e = next + IF per < n - next THEN per ELSE n - next
    OBVIOUS
  <1>4. PICK new : new = [first |-> next, end |-> e]
    OBVIOUS
  <1>5. /\ next' = next + per
        /\ tasks' = Append(tasks, new)
        /\ submitted' = submitted \union {new}
    BY <1>2, <1>3, <1>4 DEF Submit
  <1>6. /\ e \in Nat /\ next < e /\ e <= n /\ e <= next'
        /\ next' < n => e = next'
        /\ next' >= n => e = n
    BY <1>1, <1>2, <1>3, <1>5
  <1>7. new \in Tasks /\ new.first = next /\ new.end = e
    BY <1>1, <1>4, <1>6 DEF Tasks
  <1>8. next' \in Nat
    BY <1>1, <1>2, <1>5
  <1>. QED  BY <1>2, <1>5, <1>6, <1>7, <1>8

\* The coordinates a worker sets are those of its item.
LEMMA GlobalIdsAreOfItem ==
    ASSUME TypeOK, NEW w \in Workers, item[w] \in Items(size)
    PROVE  /\ GlobalIds(w) \in [1..3 -> Nat]
           /\ \A d \in 1..Len(size) : GlobalIds(w)[d] = Point(size, item[w])[d]
  <1>1. size \in Sizes /\ size \in Seq(Nat) /\ Len(size) \in 1..3
    BY SizesAssumption DEF TypeOK
  <1>2. ASSUME NEW d \in 1..3, d <= Len(size)
        PROVE  /\ GlobalIds(w)[d] = Point(size, item[w])[d]
               /\ GlobalIds(w)[d] \in Nat
    <2>1. d \in 1..Len(size)
      BY <1>1, <1>2
    <2>2. GlobalIds(w)[d] = Offset[d] + Coordinates(size, item[w])[d]
      BY <1>2 DEF GlobalIds
    <2>3. Offset[d] \in Nat /\ Coordinates(size, item[w])[d] \in Nat
      BY <1>1, <2>1, OffsetType, CoordinatesInRange
    <2>. QED  BY <2>1, <2>2, <2>3 DEF Point
  <1>3. ASSUME NEW d \in 1..3, ~(d <= Len(size))
        PROVE  GlobalIds(w)[d] \in Nat
    BY <1>3 DEF GlobalIds, TypeOK
  <1>4. \A d \in 1..3 : GlobalIds(w)[d] \in Nat
    BY <1>2, <1>3
  <1>5. GlobalIds(w) \in [1..3 -> Nat]
    BY <1>4 DEF GlobalIds
  <1>6. \A d \in 1..Len(size) : d \in 1..3 /\ d <= Len(size)
    <2>1. PICK n \in 1..3 : n = Len(size)
      BY <1>1
    <2>. QED  BY <2>1
  <1>. QED  BY <1>2, <1>5, <1>6

\* The kernel gets the coordinates of the item its worker is at.
LEMMA KernelGetsPoint ==
    ASSUME TypeOK, ItemInTask, NEW w \in ready, item[w] \in Items(size)
    PROVE  SubSeq(global_index[w], 1, Len(size)) = Point(size, item[w])
  <1>1. w \in Workers /\ size \in Sizes /\ Len(size) \in 1..3
    BY SizesAssumption DEF TypeOK
  <1>2. global_index[w] \in [1..3 -> Nat]
    BY <1>1 DEF TypeOK
  <1>3. SubSeq(global_index[w], 1, Len(size)) = [d \in 1..Len(size) |-> global_index[w][d]]
    <2>1. ASSUME NEW g \in [1..3 -> Nat], NEW n \in 1..3
          PROVE  SubSeq(g, 1, n) = [d \in 1..n |-> g[d]]
      OBVIOUS
    <2>. QED  BY <1>1, <1>2, <2>1
  <1>4. \A d \in 1..Len(size) : global_index[w][d] = Point(size, item[w])[d]
    BY <1>1 DEF ItemInTask
  <1>5. Point(size, item[w]) = [d \in 1..Len(size) |-> Point(size, item[w])[d]]
    BY DEF Point
  <1>. QED  BY <1>3, <1>4, <1>5

\* Where a worker stands that has a task: at an item of the range, or at the end.
LEMMA AtItem ==
    ASSUME IInv, NEW w \in Workers, task[w] # Idle
    PROVE  /\ task[w] \in Tasks /\ task[w] \in submitted \ finished
           /\ item[w] \in Nat /\ task[w].first \in Nat /\ task[w].end \in Nat
           /\ task[w].first <= item[w] /\ item[w] <= task[w].end
           /\ task[w].end <= WorkItems(size)
           /\ item[w] < task[w].end => item[w] \in Items(size)
  <1>1. task[w] \in Tasks /\ item[w] \in Nat /\ WorkItems(size) \in Nat
    BY WorkItemsType DEF IInv, TypeOK
  <1>2. task[w].first \in Nat /\ task[w].end \in Nat
    BY <1>1 DEF Tasks
  <1>3. task[w] \in submitted \ finished
    BY DEF IInv, TasksInPlace
  <1>4. task[w].first <= item[w] /\ item[w] <= task[w].end
    BY DEF IInv, ItemInTask
  <1>5. task[w].end <= WorkItems(size)
    BY <1>3 DEF IInv, TasksInRange
  <1>. QED  BY <1>1, <1>2, <1>3, <1>4, <1>5 DEF Items

\* The task that the destructor breaks, and what becomes of it.
LEMMA BrokenTask ==
    ASSUME IInv, BreakTask
    PROVE  \E t \in submitted \ finished :
              /\ t = tasks[1] /\ 1 \in 1..Len(tasks)
              /\ t.first \in Nat /\ t.end \in Nat /\ t.end <= WorkItems(size)
              /\ tasks' = Tail(tasks) /\ Tail(tasks) \in Seq(Tasks)
              /\ finished' = finished \union {t} /\ Release(local, held \ {t})
              /\ unstarted' = unstarted \union t.first..(t.end - 1)
              /\ \A w \in Workers : task[w] = Idle
              /\ UNCHANGED <<size, next, submitted, caller, open, work, ran, again, skipped>>
  <1>1. Head(tasks) = tasks[1] /\ 1 \in 1..Len(tasks) /\ Tail(tasks) \in Seq(Tasks)
    BY DEF IInv, TypeOK, BreakTask
  <1>2. tasks[1] \in submitted \ finished
    BY <1>1 DEF IInv, TasksInPlace
  <1>3. tasks[1].first \in Nat /\ tasks[1].end \in Nat /\ tasks[1].end <= WorkItems(size)
    BY <1>2 DEF IInv, TypeOK, TasksInRange, Tasks
  <1>. QED  BY <1>1, <1>2, <1>3, Zenon DEF BreakTask

LEMMA StepType ==
    ASSUME IInv, Next
    PROVE  TypeOK'
  <1>. USE DEF work, promise, history
  <1>. TypeOK
    BY DEF IInv
  <1>1. CASE Submit
    <2>1. PICK new \in Tasks :
              /\ next' \in Nat
              /\ tasks' = Append(tasks, new)
              /\ submitted' = submitted \union {new}
      BY <1>1, SubmitTask
    <2>2. tasks' \in Seq(Tasks)
      BY <2>1 DEF TypeOK
    <2>3. /\ submitted' \subseteq Tasks
          /\ finished' \subseteq submitted' /\ held' \subseteq submitted'
      BY <1>1, <2>1 DEF TypeOK, Submit
    <2>. QED  BY <1>1, <2>1, <2>2, <2>3 DEF TypeOK, Submit
  <1>2. CASE BeginWaitFor
    BY <1>2 DEF TypeOK, BeginWaitFor
  <1>3. CASE Register
    <2>1. PICK t \in submitted : /\ held' = IF t \in finished THEN held ELSE held \union {t}
                                 /\ next' = t.end
      BY <1>3 DEF Register
    <2>2. next' \in Nat
      BY <2>1 DEF TypeOK, Tasks
    <2>3. held' \subseteq submitted
      BY <2>1 DEF TypeOK
    <2>. QED  BY <1>3, <2>2, <2>3 DEF TypeOK, Register
  <1>4. CASE Return
    BY <1>4 DEF TypeOK, Return, Release
  <1>5. ASSUME NEW w \in Workers, Take(w)
        PROVE  TypeOK'
    <2>1. Head(tasks) \in Tasks /\ Tail(tasks) \in Seq(Tasks)
      BY <1>5 DEF TypeOK, Take
    <2>2. Head(tasks).first \in Nat
      BY <2>1 DEF Tasks
    <2>. QED  BY <1>5, <2>1, <2>2 DEF TypeOK, Take
  <1>6. ASSUME NEW w \in Workers, SetGlobalIds(w)
        PROVE  TypeOK'
    <2>1. item[w] \in Items(size)
      BY <1>6, AtItem DEF SetGlobalIds
    <2>2. GlobalIds(w) \in [1..3 -> Nat]
      BY <2>1, GlobalIdsAreOfItem
    <2>3. global_index' \in [Workers -> [1..3 -> Nat]]
      BY <1>6, <2>2 DEF TypeOK, SetGlobalIds
    <2>. QED  BY <1>6, <2>3 DEF TypeOK, SetGlobalIds
  <1>7. ASSUME NEW w \in Workers, CallKernel(w)
        PROVE  TypeOK'
    <2>1. task[w] # Idle /\ item[w] < task[w].end /\ w \in ready
      BY <1>7 DEF CallKernel, IInv, ItemInTask
    <2>2. item[w] \in Items(size) /\ size \in Sizes
      BY <2>1, AtItem DEF TypeOK
    <2>3. SubSeq(global_index[w], 1, Len(size)) = Point(size, item[w])
      BY <2>1, <2>2, KernelGetsPoint DEF IInv
    <2>4. ran' \subseteq Seq(Nat)
      <3>1. Point(size, item[w]) \in Seq(Nat)
        BY <2>2, PointInRange
      <3>2. ran' = ran \union {Point(size, item[w])}
        BY <1>7, <2>3 DEF CallKernel
      <3>. QED  BY <3>1, <3>2 DEF TypeOK
    <2>5. again' \in BOOLEAN
      BY <1>7 DEF CallKernel, TypeOK
    <2>6. item' \in [Workers -> Nat]
      BY <1>7 DEF CallKernel, TypeOK
    <2>. QED  BY <1>7, <2>4, <2>5, <2>6 DEF TypeOK, CallKernel
  <1>8. ASSUME NEW w \in Workers, KernelThrows(w)
        PROVE  TypeOK'
    <2>1. task[w] # Idle
      BY <1>8 DEF KernelThrows, IInv, ItemInTask
    <2>2. /\ task[w] \in submitted
          /\ item[w] \in Nat /\ task[w].end \in Nat
      BY <2>1, AtItem
    <2>3. skipped' \subseteq Nat
      <3>1. item[w]..(task[w].end - 1) \subseteq Nat
        BY <2>2
      <3>. QED  BY <1>8, <3>1 DEF KernelThrows, TypeOK
    <2>4. Idle \in Tasks
      BY DEF Idle, Tasks
    <2>. QED  BY <1>8, <2>2, <2>3, <2>4 DEF TypeOK, KernelThrows, Finish, Release
  <1>9. ASSUME NEW w \in Workers, FinishTask(w)
        PROVE  TypeOK'
    <2>1. task[w] \in submitted
      BY <1>9, AtItem DEF FinishTask
    <2>2. Idle \in Tasks
      BY DEF Idle, Tasks
    <2>. QED  BY <1>9, <2>1, <2>2 DEF TypeOK, FinishTask, Finish, Release
  <1>10. CASE Done
    BY <1>10 DEF Done, vars, TypeOK
  <1>11. CASE Shutdown
    BY <1>11 DEF Shutdown, TypeOK
  <1>12. CASE BreakTask
    <2>1. PICK t \in submitted :
              /\ t.first \in Nat /\ t.end \in Nat
              /\ tasks' \in Seq(Tasks)
              /\ finished' = finished \union {t} /\ Release(local, held \ {t})
              /\ unstarted' = unstarted \union t.first..(t.end - 1)
              /\ UNCHANGED <<size, next, submitted, caller, open, work, ran, again, skipped>>
      BY <1>12, BrokenTask
    <2>2. unstarted' \subseteq Nat
      <3>1. t.first..(t.end - 1) \subseteq Nat
        BY <2>1
      <3>. QED  BY <2>1, <3>1 DEF TypeOK
    <2>. QED  BY <2>1, <2>2 DEF TypeOK, Release
  <1>. QED
    BY <1>1, <1>2, <1>3, <1>4, <1>5, <1>6, <1>7, <1>8, <1>9, <1>10, <1>11, <1>12
       DEF Next, Execute, Run

-----------------------------------------------------------------------------
(* The cut                                                                 *)

\* What the steps of the workers leave alone.
LEMMA WorkersKeepCut ==
    ASSUME NEW w \in Workers, Run(w)
    PROVE  /\ size' = size /\ next' = next /\ caller' = caller
           /\ submitted' = submitted /\ local' = local
  BY DEF Run, Take, SetGlobalIds, CallKernel, KernelThrows, FinishTask, Finish, Release,
         work, promise, history

LEMMA SizeFixed == Next => size' = size
  BY WorkersKeepCut DEF Next, Execute, Submit, BeginWaitFor, Register, Return, Done, Shutdown,
     BreakTask, vars

LEMMA StepInRange ==
    ASSUME IInv, Next
    PROVE  TasksInRange'
  <1>. TypeOK /\ TasksInRange /\ size' = size
    BY SizeFixed DEF IInv
  <1>1. CASE Submit
    <2>1. PICK new \in Tasks :
              /\ new.first = next /\ next < new.end /\ new.end <= WorkItems(size)
              /\ next' \in Nat /\ new.end <= next'
              /\ submitted' = submitted \union {new}
      BY <1>1, SubmitTask
    <2>2. caller = "submitting" /\ caller' = "submitting" /\ next \in Nat
      BY <1>1 DEF Submit, TypeOK
    <2>3. /\ new.first \in Nat /\ new.end \in Nat
          /\ \A t \in submitted : t.first \in Nat /\ t.end \in Nat
      BY DEF TypeOK, Tasks
    <2>4. \A t \in submitted : t.first < t.end /\ t.end <= WorkItems(size) /\ t.end <= next
      BY <2>2 DEF TasksInRange
    <2>5. \A t \in submitted : t.end <= new.first /\ t.end <= next'
      BY <2>1, <2>2, <2>3, <2>4
    <2>6. \A t \in submitted' :
              t.first < t.end /\ t.end <= WorkItems(size') /\ t.end <= next'
      BY <2>1, <2>2, <2>3, <2>4, <2>5
    <2>7. \A t, u \in submitted' : t = u \/ t.end <= u.first \/ u.end <= t.first
      BY <2>1, <2>5 DEF TasksInRange
    <2>. QED  BY <2>6, <2>7 DEF TasksInRange
  <1>2. CASE BeginWaitFor \/ Register \/ Return \/ Shutdown \/ BreakTask \/ Done
    <2>1. submitted' = submitted /\ (caller' = "submitting" => caller = caller' /\ next' = next)
      BY <1>2 DEF BeginWaitFor, Register, Return, Shutdown, BreakTask, Done, vars, promise,
         history, work
    <2>. QED  BY <2>1 DEF TasksInRange
  <1>3. ASSUME NEW w \in Workers, Run(w)
        PROVE  TasksInRange'
    BY <1>3, WorkersKeepCut DEF TasksInRange
  <1>. QED  BY <1>1, <1>2, <1>3 DEF Next, Execute

LEMMA StepCovered ==
    ASSUME IInv, Next
    PROVE  ItemsCovered'
  <1>. TypeOK /\ ItemsCovered /\ size' = size
    BY SizeFixed DEF IInv
  <1>0. /\ WorkItems(size) \in Nat
        /\ Items(size') = Items(size) /\ Items(size) \subseteq Nat
        /\ \A j \in Items(size) : j < WorkItems(size)
    BY WorkItemsType DEF Items, TypeOK
  <1>1. CASE Submit
    <2>1. PICK new \in Tasks :
              /\ new.first = next /\ next < new.end /\ new.end <= WorkItems(size)
              /\ next' \in Nat
              /\ next' < WorkItems(size) => new.end = next'
              /\ next' >= WorkItems(size) => new.end = WorkItems(size)
              /\ submitted' = submitted \union {new}
      BY <1>1, SubmitTask
    <2>2. ASSUME NEW j \in Items(size), j < next'
          PROVE  \E t \in submitted' : Holds(t, j)
      <3>0. caller = "submitting" /\ next \in Nat /\ new.end \in Nat
        BY <1>1 DEF Submit, TypeOK, Tasks
      <3>1. CASE j < next
        BY <2>1, <3>0, <3>1 DEF ItemsCovered
      <3>2. CASE ~(j < next)
        <4>1. Holds(new, j)
          BY <1>0, <2>1, <2>2, <3>0, <3>2 DEF Holds
        <4>. QED  BY <2>1, <4>1
      <3>. QED  BY <3>1, <3>2
    <2>3. caller' = "submitting"
      BY <1>1 DEF Submit
    <2>. QED  BY <1>0, <2>2, <2>3 DEF ItemsCovered
  <1>2. CASE BeginWaitFor
    <2>1. \A j \in Items(size) : j < next
      BY <1>0, <1>2 DEF BeginWaitFor, TypeOK
    <2>2. submitted' = submitted
      BY <1>2 DEF BeginWaitFor
    <2>. QED  BY <1>0, <2>1, <2>2 DEF ItemsCovered
  <1>3. CASE Register \/ Return \/ Shutdown \/ BreakTask \/ Done
    <2>1. submitted' = submitted /\ (caller = "submitting" => caller' = caller /\ next' = next)
      BY <1>3 DEF Register, Return, Shutdown, BreakTask, Done, vars
    <2>. QED  BY <1>0, <2>1 DEF ItemsCovered
  <1>4. ASSUME NEW w \in Workers, Run(w)
        PROVE  ItemsCovered'
    BY <1>0, <1>4, WorkersKeepCut DEF ItemsCovered
  <1>. QED  BY <1>1, <1>2, <1>3, <1>4 DEF Next, Execute

-----------------------------------------------------------------------------
(* The list and the workers                                                *)

\* A worker that ends its task leaves the others as they are.
LEMMA FinishKeepsPlaces ==
    ASSUME IInv, NEW w \in Workers, task[w] # Idle, Finish(w),
           tasks' = tasks, submitted' = submitted
    PROVE  TasksInPlace'
  <1>. TypeOK /\ TasksInPlace
    BY DEF IInv
  <1>1. /\ finished' = finished \union {task[w]}
        /\ task' = [task EXCEPT ![w] = Idle]
    BY DEF Finish
  <1>2. task'[w] = Idle /\ \A v \in Workers : v # w => task'[v] = task[v]
    BY <1>1 DEF TypeOK
  <1>3. \A i \in 1..Len(tasks) : tasks[i] # task[w] /\ tasks[i] \in submitted \ finished
    BY DEF TasksInPlace
  <1>4. \A i \in 1..Len(tasks) : tasks[i] # Idle
    <2>1. \A t \in submitted : t.first < t.end
      BY DEF IInv, TasksInRange
    <2>2. Idle \notin submitted
      BY <2>1 DEF Idle
    <2>. QED  BY <1>3, <2>2
  <1>5. \A i \in 1..Len(tasks) :
            tasks[i] \in submitted \ finished' /\ \A v \in Workers : task'[v] # tasks[i]
    BY <1>1, <1>2, <1>3, <1>4 DEF TasksInPlace
  <1>6. \A v \in Workers : task'[v] # Idle => task'[v] \in submitted \ finished'
    BY <1>1, <1>2 DEF TasksInPlace
  <1>7. \A v, u \in Workers : task'[v] = task'[u] /\ task'[v] # Idle => v = u
    BY <1>2 DEF TasksInPlace
  <1>. QED  BY <1>5, <1>6, <1>7 DEF TasksInPlace

LEMMA StepInPlace ==
    ASSUME IInv, Next
    PROVE  TasksInPlace'
  <1>. TypeOK /\ TasksInPlace
    BY DEF IInv
  <1>0. Idle \notin submitted
    <2>1. \A t \in submitted : t.first < t.end
      BY DEF IInv, TasksInRange
    <2>. QED  BY <2>1 DEF Idle
  <1>1. CASE Submit
    <2>1. PICK new \in Tasks :
              /\ new.first = next /\ next < new.end
              /\ tasks' = Append(tasks, new)
              /\ submitted' = submitted \union {new}
      BY <1>1, SubmitTask
    <2>2. task' = task /\ finished' = finished
      BY <1>1 DEF Submit, work, promise
    <2>3. new \notin submitted
      <3>1. next \in Nat /\ new.end \in Nat
        BY DEF TypeOK, Tasks
      <3>2. \A t \in submitted : t.end <= next
        BY <1>1 DEF IInv, TasksInRange, Submit
      <3>3. ~(new.end <= next)
        BY <2>1, <3>1
      <3>. QED  BY <3>2, <3>3
    <2>4. /\ Len(tasks') = Len(tasks) + 1 /\ Len(tasks) \in Nat
          /\ \A i \in 1..Len(tasks) : tasks'[i] = tasks[i]
          /\ tasks'[Len(tasks) + 1] = new
      BY <2>1 DEF TypeOK
    <2>5. new \notin finished /\ new # Idle
      <3>1. new.end # Idle.end
        BY <2>1 DEF Idle, TypeOK, Tasks
      <3>. QED  BY <2>3, <3>1 DEF TypeOK
    <2>6. \A v \in Workers : task[v] # new
      BY <2>3, <2>5 DEF TasksInPlace
    <2>7. \A i \in 1..Len(tasks') : i \in 1..Len(tasks) \/ i = Len(tasks) + 1
      BY <2>4
    <2>8. \A i \in 1..Len(tasks) : tasks[i] # new
      BY <2>3 DEF TasksInPlace
    <2>9. \A i \in 1..Len(tasks') :
              /\ tasks'[i] \in submitted' \ finished'
              /\ \A v \in Workers : task'[v] # tasks'[i]
      BY <2>1, <2>2, <2>4, <2>5, <2>6, <2>7 DEF TasksInPlace
    <2>10. \A i, j \in 1..Len(tasks') : tasks'[i] = tasks'[j] => i = j
      BY <2>4, <2>7, <2>8 DEF TasksInPlace
    <2>. QED  BY <2>1, <2>2, <2>9, <2>10 DEF TasksInPlace
  <1>2. CASE BeginWaitFor \/ Register \/ Return \/ Shutdown \/ Done
    <2>1. tasks' = tasks /\ submitted' = submitted /\ finished' = finished /\ task' = task
      BY <1>2 DEF BeginWaitFor, Register, Return, Shutdown, Done, vars, promise, work
    <2>. QED  BY <2>1 DEF TasksInPlace
  <1>3. ASSUME NEW w \in Workers, Take(w)
        PROVE  TasksInPlace'
    <2>1. /\ task[w] = Idle /\ tasks # <<>> /\ task' = [task EXCEPT ![w] = Head(tasks)]
          /\ tasks' = Tail(tasks)
          /\ submitted' = submitted /\ finished' = finished
      BY <1>3 DEF Take, promise
    <2>2. /\ Head(tasks) = tasks[1] /\ Len(tasks) \in Nat /\ Len(tasks) > 0
          /\ Len(tasks') = Len(tasks) - 1
          /\ \A i \in 1..Len(tasks') : tasks'[i] = tasks[i + 1]
      BY <2>1 DEF TypeOK
    <2>3. task'[w] = tasks[1] /\ \A v \in Workers : v # w => task'[v] = task[v]
      BY <2>1, <2>2 DEF TypeOK
    <2>4. \A i \in 1..Len(tasks') : i + 1 \in 1..Len(tasks) /\ i + 1 # 1
      BY <2>2
    <2>5. 1 \in 1..Len(tasks)
      BY <2>2
    <2>6. tasks[1] \in submitted \ finished /\ \A v \in Workers : task[v] # tasks[1]
      BY <2>5 DEF TasksInPlace
    <2>7. \A i \in 1..Len(tasks') :
              /\ tasks'[i] \in submitted \ finished
              /\ \A v \in Workers : task'[v] # tasks'[i]
      <3>. SUFFICES ASSUME NEW i \in 1..Len(tasks')
                    PROVE  /\ tasks'[i] \in submitted \ finished
                           /\ \A v \in Workers : task'[v] # tasks'[i]
        OBVIOUS
      <3>1. PICK k \in 1..Len(tasks) : k # 1 /\ tasks'[i] = tasks[k]
        BY <2>2, <2>4
      <3>2. tasks[k] # tasks[1]
        BY <2>5, <3>1 DEF TasksInPlace
      <3>. QED  BY <2>3, <3>1, <3>2 DEF TasksInPlace
    <2>8. \A i, j \in 1..Len(tasks') : tasks'[i] = tasks'[j] => i = j
      <3>. SUFFICES ASSUME NEW i \in 1..Len(tasks'), NEW j \in 1..Len(tasks'),
                           tasks'[i] = tasks'[j]
                    PROVE  i = j
        OBVIOUS
      <3>1. i + 1 = j + 1
        BY <2>2, <2>4 DEF TasksInPlace
      <3>. QED  BY <2>2, <3>1
    <2>9. \A v \in Workers : task'[v] # Idle => task'[v] \in submitted \ finished
      BY <2>3, <2>6 DEF TasksInPlace
    <2>10. \A v, u \in Workers : task'[v] = task'[u] /\ task'[v] # Idle => v = u
      BY <2>3, <2>6 DEF TasksInPlace
    <2>. QED  BY <2>1, <2>7, <2>8, <2>9, <2>10 DEF TasksInPlace
  <1>4. ASSUME NEW w \in Workers, SetGlobalIds(w) \/ CallKernel(w)
        PROVE  TasksInPlace'
    <2>1. tasks' = tasks /\ submitted' = submitted /\ finished' = finished /\ task' = task
      BY <1>4 DEF SetGlobalIds, CallKernel, promise
    <2>. QED  BY <2>1 DEF TasksInPlace
  <1>5. ASSUME NEW w \in Workers, KernelThrows(w) \/ FinishTask(w)
        PROVE  TasksInPlace'
    <2>1. Finish(w) /\ tasks' = tasks /\ submitted' = submitted /\ task[w] # Idle
      BY <1>5 DEF KernelThrows, FinishTask, IInv, ItemInTask
    <2>. QED  BY <2>1, FinishKeepsPlaces
  <1>6. CASE BreakTask
    <2>1. PICK t \in submitted \ finished :
              /\ t = tasks[1] /\ 1 \in 1..Len(tasks)
              /\ tasks' = Tail(tasks)
              /\ finished' = finished \union {t}
              /\ submitted' = submitted /\ task' = task
              /\ \A w \in Workers : task[w] = Idle
      BY <1>6, BrokenTask DEF work
    <2>2. /\ Len(tasks) \in Nat
          /\ Len(tasks') = Len(tasks) - 1
          /\ \A i \in 1..Len(tasks') :
                tasks'[i] = tasks[i + 1] /\ i + 1 \in 1..Len(tasks) /\ i + 1 # 1
      BY <2>1 DEF TypeOK
    <2>3. ASSUME NEW i \in 1..Len(tasks')
          PROVE  /\ tasks'[i] \in submitted \ finished'
                 /\ \A v \in Workers : task[v] # tasks'[i]
      <3>1. PICK k \in 1..Len(tasks) : k # 1 /\ tasks'[i] = tasks[k]
        BY <2>2
      <3>2. tasks[k] # tasks[1]
        BY <2>1, <3>1 DEF TasksInPlace
      <3>. QED  BY <2>1, <3>1, <3>2 DEF TasksInPlace
    <2>4. ASSUME NEW i \in 1..Len(tasks'), NEW j \in 1..Len(tasks'), tasks'[i] = tasks'[j]
          PROVE  i = j
      <3>1. i + 1 = j + 1
        BY <2>2, <2>4 DEF TasksInPlace
      <3>. QED  BY <2>2, <3>1
    <2>. QED  BY <2>1, <2>3, <2>4 DEF TasksInPlace
  <1>. QED  BY <1>1, <1>2, <1>3, <1>4, <1>5, <1>6 DEF Next, Execute, Run

LEMMA StepInTask ==
    ASSUME IInv, Next
    PROVE  ItemInTask'
  <1>. TypeOK /\ ItemInTask
    BY DEF IInv
  <1>0. size' = size
    BY SizeFixed
  <1>1. CASE Execute \/ Shutdown \/ BreakTask \/ Done
    <2>1. task' = task /\ item' = item /\ ready' = ready /\ global_index' = global_index
      BY <1>1 DEF Execute, Submit, BeginWaitFor, Register, Return, Shutdown, BreakTask, Done,
         vars, work
    <2>. QED  BY <1>0, <2>1 DEF ItemInTask
  <1>2. ASSUME NEW w \in Workers, Take(w)
        PROVE  ItemInTask'
    <2>1. /\ task[w] = Idle /\ tasks # <<>> /\ task' = [task EXCEPT ![w] = Head(tasks)]
          /\ item' = [item EXCEPT ![w] = Head(tasks).first]
          /\ ready' = ready /\ global_index' = global_index
      BY <1>2 DEF Take
    <2>2. w \notin ready
      BY <2>1 DEF ItemInTask
    <2>3. Head(tasks).first \in Nat /\ Head(tasks).first <= Head(tasks).end
      <3>1. Head(tasks) = tasks[1] /\ 1 \in 1..Len(tasks)
        BY <2>1 DEF TypeOK
      <3>2. Head(tasks) \in submitted
        BY <3>1 DEF IInv, TasksInPlace
      <3>3. /\ Head(tasks).first < Head(tasks).end
            /\ Head(tasks).first \in Nat /\ Head(tasks).end \in Nat
        BY <3>2 DEF IInv, TasksInRange, TypeOK, Tasks
      <3>. QED  BY <3>3
    <2>4. /\ task'[w] = Head(tasks) /\ item'[w] = Head(tasks).first
          /\ \A v \in Workers : v # w => task'[v] = task[v] /\ item'[v] = item[v]
      BY <2>1 DEF TypeOK
    <2>. QED  BY <1>0, <2>1, <2>2, <2>3, <2>4 DEF ItemInTask
  <1>3. ASSUME NEW w \in Workers, SetGlobalIds(w)
        PROVE  ItemInTask'
    <2>1. /\ task[w] # Idle /\ item[w] < task[w].end
          /\ global_index' = [global_index EXCEPT ![w] = GlobalIds(w)]
          /\ ready' = ready \union {w}
          /\ task' = task /\ item' = item
      BY <1>3 DEF SetGlobalIds
    <2>2. \A d \in 1..Len(size) : GlobalIds(w)[d] = Point(size, item[w])[d]
      BY <2>1, AtItem, GlobalIdsAreOfItem
    <2>3. /\ global_index'[w] = GlobalIds(w)
          /\ \A v \in Workers : v # w => global_index'[v] = global_index[v]
      BY <2>1 DEF TypeOK
    <2>. QED  BY <1>0, <2>1, <2>2, <2>3 DEF ItemInTask
  <1>4. ASSUME NEW w \in Workers, CallKernel(w)
        PROVE  ItemInTask'
    <2>1. /\ w \in ready /\ ready' = ready \ {w}
          /\ item' = [item EXCEPT ![w] = @ + 1]
          /\ task' = task /\ global_index' = global_index
      BY <1>4 DEF CallKernel
    <2>2. task[w] # Idle /\ item[w] < task[w].end
      BY <2>1 DEF ItemInTask
    <2>3. /\ item[w] \in Nat /\ task[w].first \in Nat /\ task[w].end \in Nat
          /\ task[w].first <= item[w]
      BY <2>2, AtItem
    <2>4. task[w].first <= item[w] + 1 /\ item[w] + 1 <= task[w].end
      BY <2>2, <2>3
    <2>5. item'[w] = item[w] + 1 /\ \A v \in Workers : v # w => item'[v] = item[v]
      BY <2>1 DEF TypeOK
    <2>. QED  BY <1>0, <2>1, <2>4, <2>5 DEF ItemInTask
  <1>5. ASSUME NEW w \in Workers, KernelThrows(w) \/ FinishTask(w)
        PROVE  ItemInTask'
    <2>1. /\ task' = [task EXCEPT ![w] = Idle]
          /\ item' = item /\ global_index' = global_index
          /\ ready' \subseteq ready /\ w \notin ready'
      BY <1>5 DEF KernelThrows, FinishTask, Finish, history
    <2>2. task'[w] = Idle /\ \A v \in Workers : v # w => task'[v] = task[v]
      BY <2>1 DEF TypeOK
    <2>. QED  BY <1>0, <2>1, <2>2 DEF ItemInTask
  <1>. QED  BY <1>1, <1>2, <1>3, <1>4, <1>5 DEF Next, Run

-----------------------------------------------------------------------------
(* The calls of the kernel                                                 *)

\* An item belongs to one task.
LEMMA OneTask ==
    ASSUME IInv, NEW t \in submitted, NEW u \in submitted, NEW j \in Nat,
           Holds(t, j), Holds(u, j)
    PROVE  t = u
  <1>1. t = u \/ t.end <= u.first \/ u.end <= t.first
    BY DEF IInv, TasksInRange
  <1>2. t.first \in Nat /\ t.end \in Nat /\ u.first \in Nat /\ u.end \in Nat
    BY DEF IInv, TypeOK, Tasks
  <1>. QED  BY <1>1, <1>2 DEF Holds

\* No worker but the one that runs a task is at its items.
LEMMA OnlyItsWorker ==
    ASSUME IInv, NEW w \in Workers, task[w] # Idle,
           NEW j \in Nat, Holds(task[w], j)
    PROVE  Passed(j) <=> j < item[w]
  <1>. TypeOK /\ TasksInRange /\ TasksInPlace
    BY DEF IInv
  <1>1. task[w] \in submitted \ finished
    BY DEF TasksInPlace
  <1>2. ASSUME NEW t \in submitted, Holds(t, j)
        PROVE  t = task[w]
    BY <1>1, <1>2, OneTask
  <1>. QED  BY <1>1, <1>2 DEF Passed, TasksInPlace

\* A step that passes no other items and skips none calls the kernel for none.
LEMMA CalledAsBefore ==
    ASSUME CalledOnce, size' = size, skipped' = skipped, ran' = ran, again' = again,
           unstarted' = unstarted, open' => open,
           finished \subseteq finished',
           \A j \in Items(size) : Passed(j)' <=> Passed(j)
    PROVE  CalledOnce'
  <1>1. Called' = Called
    BY DEF Called
  <1>. QED  BY <1>1 DEF CalledOnce

LEMMA SubmitPassesNothing ==
    ASSUME IInv, Submit
    PROVE  \A j \in Items(size) : Passed(j)' <=> Passed(j)
  <1>1. PICK new \in Tasks :
            /\ new.first = next /\ next < new.end
            /\ submitted' = submitted \union {new}
    BY SubmitTask DEF IInv
  <1>2. task' = task /\ item' = item /\ finished' = finished
    BY DEF Submit, work, promise
  <1>3. new \notin submitted /\ new # Idle
    <2>1. next \in Nat /\ new.end \in Nat
      BY DEF IInv, TypeOK, Tasks
    <2>2. \A t \in submitted : t.end <= next
      BY DEF IInv, TasksInRange, Submit
    <2>. QED  BY <1>1, <2>1, <2>2 DEF Idle
  <1>4. new \notin finished /\ \A w \in Workers : task[w] # new
    BY <1>3 DEF IInv, TypeOK, TasksInPlace
  <1>. QED  BY <1>1, <1>2, <1>4 DEF Passed

LEMMA TakePassesNothing ==
    ASSUME IInv, NEW w \in Workers, Take(w)
    PROVE  \A j \in Items(size) : Passed(j)' <=> Passed(j)
  <1>. TypeOK /\ TasksInPlace
    BY DEF IInv
  <1>1. /\ task[w] = Idle /\ tasks # <<>> /\ task' = [task EXCEPT ![w] = Head(tasks)]
        /\ item' = [item EXCEPT ![w] = Head(tasks).first]
        /\ submitted' = submitted /\ finished' = finished
    BY DEF Take, promise
  <1>2. PICK t \in submitted : t = Head(tasks)
    <2>1. Head(tasks) = tasks[1] /\ 1 \in 1..Len(tasks)
      BY <1>1 DEF TypeOK
    <2>. QED  BY <2>1 DEF TasksInPlace
  <1>3. \A v \in Workers : task[v] # t
    <2>1. Head(tasks) = tasks[1] /\ 1 \in 1..Len(tasks)
      BY <1>1 DEF TypeOK
    <2>. QED  BY <1>2, <2>1 DEF TasksInPlace
  <1>4. /\ task'[w] = t /\ item'[w] = t.first
        /\ \A v \in Workers : v # w => task'[v] = task[v] /\ item'[v] = item[v]
    BY <1>1, <1>2 DEF TypeOK
  <1>5. Idle \notin submitted
    <2>1. \A u \in submitted : u.first < u.end
      BY DEF IInv, TasksInRange
    <2>. QED  BY <2>1 DEF Idle
  <1>6. t.first \in Nat /\ \A j \in Items(size) : j \in Int
    BY WorkItemsType DEF TypeOK, Tasks, Items
  <1>7. ASSUME NEW j \in Items(size), NEW u \in submitted, Holds(u, j)
        PROVE  (\E v \in Workers : task'[v] = u /\ j < item'[v])
                  <=> \E v \in Workers : task[v] = u /\ j < item[v]
    <2>1. ~(task'[w] = u /\ j < item'[w])
      BY <1>4, <1>6, <1>7 DEF Holds
    <2>2. task[w] # u
      BY <1>1, <1>5
    <2>. QED  BY <1>4, <2>1, <2>2
  <1>. QED  BY <1>1, <1>7 DEF Passed

LEMMA FinishPasses ==
    ASSUME IInv, NEW w \in Workers, task[w] # Idle, Finish(w),
           submitted' = submitted, item' = item, NEW j \in Nat
    PROVE  Passed(j)' <=> Passed(j) \/ Holds(task[w], j)
  <1>. TypeOK /\ TasksInPlace
    BY DEF IInv
  <1>1. /\ finished' = finished \union {task[w]}
        /\ task' = [task EXCEPT ![w] = Idle]
    BY DEF Finish
  <1>2. task'[w] = Idle /\ \A v \in Workers : v # w => task'[v] = task[v]
    BY <1>1 DEF TypeOK
  <1>3. task[w] \in submitted
    BY DEF TasksInPlace
  <1>4. Idle \notin submitted
    <2>1. \A u \in submitted : u.first < u.end
      BY DEF IInv, TasksInRange
    <2>. QED  BY <2>1 DEF Idle
  <1>5. ASSUME NEW u \in submitted, Holds(u, j), u # task[w]
        PROVE  /\ u \in finished' <=> u \in finished
               /\ (\E v \in Workers : task'[v] = u /\ j < item[v])
                     <=> \E v \in Workers : task[v] = u /\ j < item[v]
    BY <1>1, <1>2, <1>4, <1>5
  <1>6. Passed(j)' => Passed(j) \/ Holds(task[w], j)
    BY <1>5 DEF Passed
  <1>7. Holds(task[w], j) => Passed(j)'
    BY <1>1, <1>3 DEF Passed
  <1>8. Passed(j) => Passed(j)' \/ Holds(task[w], j)
    BY <1>5 DEF Passed
  <1>. QED  BY <1>6, <1>7, <1>8

LEMMA CallKernelPasses ==
    ASSUME IInv, NEW w \in Workers, CallKernel(w), NEW j \in Nat
    PROVE  Passed(j)' <=> Passed(j) \/ j = item[w]
  <1>. TypeOK /\ TasksInPlace
    BY DEF IInv
  <1>1. /\ w \in ready /\ item' = [item EXCEPT ![w] = @ + 1]
        /\ task' = task /\ submitted' = submitted /\ finished' = finished
    BY DEF CallKernel, promise
  <1>2. task[w] # Idle /\ item[w] < task[w].end
    BY <1>1 DEF IInv, ItemInTask
  <1>3. /\ task[w] \in submitted
        /\ item[w] \in Nat /\ task[w].first \in Nat /\ task[w].end \in Nat
        /\ task[w].first <= item[w]
    BY <1>2, AtItem
  <1>4. item'[w] = item[w] + 1 /\ \A v \in Workers : v # w => item'[v] = item[v]
    BY <1>1 DEF TypeOK
  <1>5. j < item'[w] <=> j < item[w] \/ j = item[w]
    BY <1>3, <1>4
  <1>6. Holds(task[w], item[w])
    BY <1>2, <1>3 DEF Holds
  <1>7. Passed(j) => Passed(j)'
    BY <1>1, <1>4, <1>5 DEF Passed
  <1>8. j = item[w] => Passed(j)'
    BY <1>1, <1>3, <1>5, <1>6 DEF Passed
  <1>9. Passed(j)' => Passed(j) \/ j = item[w]
    BY <1>1, <1>4, <1>5 DEF Passed
  <1>. QED  BY <1>7, <1>8, <1>9

LEMMA StepCalled ==
    ASSUME IInv, Next
    PROVE  CalledOnce'
  <1>. TypeOK /\ CalledOnce
    BY DEF IInv
  <1>0. size' = size
    BY SizeFixed
  <1>a. \A j \in Items(size) : j \in Nat
    BY WorkItemsType DEF Items, TypeOK
  <1>1. CASE Submit
    BY <1>0, <1>1, SubmitPassesNothing, CalledAsBefore DEF Submit, history, promise
  <1>2. CASE BeginWaitFor \/ Register \/ Return \/ Shutdown \/ Done
    <2>0. /\ BeginWaitFor \/ Register \/ Return \/ Done => open' = open
          /\ Shutdown => ~open'
      BY DEF BeginWaitFor, Register, Return, Shutdown, Done, vars
    <2>1. /\ submitted' = submitted /\ finished' = finished /\ task' = task /\ item' = item
          /\ ran' = ran /\ again' = again /\ skipped' = skipped /\ unstarted' = unstarted
      BY <1>2 DEF BeginWaitFor, Register, Return, Shutdown, Done, vars, promise, work, history
    <2>2. \A j \in Items(size) : Passed(j)' <=> Passed(j)
      BY <2>1 DEF Passed
    <2>. QED  BY <1>0, <1>2, <2>0, <2>1, <2>2, CalledAsBefore
  <1>3. ASSUME NEW w \in Workers, Take(w)
        PROVE  CalledOnce'
    BY <1>0, <1>3, TakePassesNothing, CalledAsBefore DEF Take, history, promise
  <1>4. ASSUME NEW w \in Workers, SetGlobalIds(w)
        PROVE  CalledOnce'
    <2>1. /\ submitted' = submitted /\ finished' = finished /\ task' = task /\ item' = item
          /\ ran' = ran /\ again' = again /\ skipped' = skipped /\ unstarted' = unstarted
          /\ open' = open
      BY <1>4 DEF SetGlobalIds, promise, history
    <2>2. \A j \in Items(size) : Passed(j)' <=> Passed(j)
      BY <2>1 DEF Passed
    <2>. QED  BY <1>0, <2>1, <2>2, CalledAsBefore
  <1>5. ASSUME NEW w \in Workers, CallKernel(w)
        PROVE  CalledOnce'
    <2>1. w \in ready /\ task[w] # Idle /\ item[w] < task[w].end
      BY <1>5 DEF CallKernel, IInv, ItemInTask
    <2>2. /\ item[w] \in Items(size) /\ item[w] \in Nat /\ size \in Sizes
          /\ Holds(task[w], item[w])
      BY <2>1, AtItem DEF Holds, TypeOK
    <2>3. SubSeq(global_index[w], 1, Len(size)) = Point(size, item[w])
      BY <2>1, <2>2, KernelGetsPoint DEF IInv
    <2>4. /\ ran' = ran \union {Point(size, item[w])}
          /\ again' = (again \/ Point(size, item[w]) \in ran)
          /\ submitted' = submitted /\ finished' = finished /\ skipped' = skipped
          /\ unstarted' = unstarted /\ open' = open
      BY <1>5, <2>3 DEF CallKernel, promise
    <2>5. ~Passed(item[w])
      BY <2>1, <2>2, OnlyItsWorker
    <2>6. item[w] \notin skipped \union unstarted
      <3>1. \A t \in finished : t \in submitted
        BY DEF TypeOK
      <3>. QED  BY <2>5, <3>1 DEF CalledOnce, Passed
    <2>7. Point(size, item[w]) \notin ran
      <3>. SUFFICES ASSUME NEW j \in Called, Point(size, j) = Point(size, item[w])
                    PROVE  FALSE
        BY DEF CalledOnce
      <3>1. j \in Items(size) /\ Passed(j)
        BY DEF Called
      <3>2. j = item[w]
        BY <2>2, <3>1, PointInjective
      <3>. QED  BY <2>5, <3>1, <3>2
    <2>8. Called' = Called \union {item[w]}
      <3>1. \A j \in Items(size) : Passed(j)' <=> Passed(j) \/ j = item[w]
        BY <1>5, <1>a, CallKernelPasses
      <3>. QED  BY <1>0, <2>2, <2>4, <2>6, <3>1 DEF Called
    <2>9. ran' = {Point(size', j) : j \in Called'}
      BY <1>0, <2>4, <2>8 DEF CalledOnce
    <2>. QED  BY <1>0, <2>4, <2>7, <2>9 DEF CalledOnce
  <1>6. ASSUME NEW w \in Workers, KernelThrows(w)
        PROVE  CalledOnce'
    <2>1. /\ task[w] # Idle /\ Finish(w)
          /\ submitted' = submitted /\ item' = item /\ ran' = ran /\ again' = again
          /\ unstarted' = unstarted /\ open' = open
          /\ skipped' = skipped \union item[w]..(task[w].end - 1)
          /\ finished' = finished \union {task[w]}
      BY <1>6 DEF KernelThrows, Finish, IInv, ItemInTask
    <2>2. /\ item[w] \in Nat /\ task[w].first \in Nat /\ task[w].end \in Nat
          /\ task[w].first <= item[w] /\ task[w].end <= WorkItems(size)
          /\ WorkItems(size) \in Nat
      BY <2>1, AtItem, WorkItemsType DEF TypeOK
    <2>3. \A j \in Items(size) : Passed(j)' <=> Passed(j) \/ Holds(task[w], j)
      BY <1>a, <2>1, FinishPasses
    <2>4. \A j \in Items(size) : Holds(task[w], j) => (Passed(j) <=> j < item[w])
      BY <1>a, <2>1, OnlyItsWorker
    <2>5. \A j \in Nat : j \in item[w]..(task[w].end - 1)
                            <=> Holds(task[w], j) /\ ~(j < item[w])
      BY <2>2 DEF Holds
    <2>6. Called' = Called
      BY <1>0, <1>a, <2>1, <2>3, <2>4, <2>5 DEF Called
    <2>7. \A j \in item[w]..(task[w].end - 1) : j \in Items(size) /\ Holds(task[w], j)
      BY <2>2 DEF Items, Holds
    <2>8. \A j \in item[w]..(task[w].end - 1) : j \notin unstarted
      <3>1. task[w] \in submitted \ finished /\ finished \subseteq submitted
        BY <2>1, AtItem DEF TypeOK
      <3>. QED  BY <1>a, <2>7, <3>1, OneTask DEF CalledOnce
    <2>. QED  BY <1>0, <2>1, <2>6, <2>7, <2>8 DEF CalledOnce
  <1>7. ASSUME NEW w \in Workers, FinishTask(w)
        PROVE  CalledOnce'
    <2>1. /\ task[w] # Idle /\ Finish(w) /\ item[w] = task[w].end
          /\ submitted' = submitted /\ item' = item
          /\ ran' = ran /\ again' = again /\ skipped' = skipped
          /\ unstarted' = unstarted /\ open' = open
          /\ finished \subseteq finished'
      BY <1>7 DEF FinishTask, Finish, history
    <2>2. \A j \in Items(size) : Passed(j)' <=> Passed(j) \/ Holds(task[w], j)
      BY <1>a, <2>1, FinishPasses
    <2>3. \A j \in Items(size) : Holds(task[w], j) => Passed(j)
      <3>1. \A j \in Items(size) : Holds(task[w], j) => (Passed(j) <=> j < item[w])
        BY <1>a, <2>1, OnlyItsWorker
      <3>. QED  BY <2>1, <3>1 DEF Holds
    <2>. QED  BY <1>0, <2>1, <2>2, <2>3, CalledAsBefore
  <1>8. CASE BreakTask
    <2>1. PICK t \in submitted \ finished :
              /\ t.first \in Nat /\ t.end \in Nat /\ t.end <= WorkItems(size)
              /\ finished' = finished \union {t}
              /\ unstarted' = unstarted \union t.first..(t.end - 1)
              /\ \A w \in Workers : task[w] = Idle
              /\ submitted' = submitted /\ task' = task /\ item' = item
              /\ ran' = ran /\ again' = again /\ skipped' = skipped
      BY <1>8, BrokenTask DEF work
    <2>2. WorkItems(size) \in Nat /\ finished \subseteq submitted
      BY WorkItemsType DEF TypeOK
    <2>3. \A j \in Nat : j \in t.first..(t.end - 1) <=> Holds(t, j)
      BY <2>1 DEF Holds
    <2>4. \A j \in t.first..(t.end - 1) : j \in Items(size)
      BY <2>1, <2>2 DEF Items
    <2>5. \A j \in Items(size) : Passed(j)' <=> Passed(j) \/ Holds(t, j)
      BY <2>1 DEF Passed
    <2>6. ~open
      BY <1>8 DEF BreakTask
    <2>7. open' = open
      BY <1>8 DEF BreakTask
    <2>8. t # Idle
      BY DEF Idle, IInv, TasksInRange
    <2>9. \A j \in Items(size) : Holds(t, j) => ~Passed(j) /\ j \notin skipped
      <3>. SUFFICES ASSUME NEW j \in Items(size), Holds(t, j)
                    PROVE  ~Passed(j) /\ j \notin skipped
        OBVIOUS
      <3>1. \A u \in submitted : Holds(u, j) => u = t
        BY <1>a, <2>1, OneTask
      <3>. QED  BY <2>1, <2>2, <2>8, <3>1 DEF Passed, CalledOnce
    <2>10. Called' = Called
      BY <1>0, <1>a, <2>1, <2>3, <2>5, <2>9 DEF Called
    <2>11. skipped \intersect unstarted' = {}
      BY <1>a, <2>1, <2>3, <2>4, <2>9 DEF CalledOnce
    <2>. QED  BY <1>0, <1>a, <2>1, <2>3, <2>4, <2>6, <2>7, <2>10, <2>11 DEF CalledOnce
  <1>. QED  BY <1>1, <1>2, <1>3, <1>4, <1>5, <1>6, <1>7, <1>8 DEF Next, Execute, Run

-----------------------------------------------------------------------------
(* The future of the caller                                                *)

LEMMA StepResult ==
    ASSUME IInv, Next
    PROVE  ResultLast'
  <1>. TypeOK /\ ResultLast
    BY DEF IInv
  <1>0. size' = size
    BY SizeFixed
  <1>1. CASE Submit \/ Shutdown \/ Done
    <2>1. /\ caller' = caller /\ local' = local /\ held' = held /\ settled' = settled
          /\ finished' = finished
          /\ caller # "submitting" => submitted' = submitted /\ next' = next
      BY <1>1 DEF Submit, Shutdown, Done, vars, promise
    <2>. QED  BY <1>0, <2>1 DEF ResultLast
  <1>2. CASE BeginWaitFor
    <2>1. /\ caller = "submitting" /\ caller' = "registering" /\ next' = 0
          /\ local' = local /\ held' = held /\ settled' = settled
          /\ submitted' = submitted
      BY <1>2 DEF BeginWaitFor, promise
    <2>2. \A t \in submitted : ~(t.first < 0)
      BY DEF TypeOK, Tasks
    <2>3. 0 <= WorkItems(size)
      BY WorkItemsType DEF TypeOK
    <2>. QED  BY <1>0, <2>1, <2>2, <2>3 DEF ResultLast
  <1>3. CASE Register
    <2>1. PICK t \in submitted : /\ caller = "registering" /\ t.first = next
                                 /\ held' = IF t \in finished THEN held ELSE held \union {t}
                                 /\ next' = t.end
      BY <1>3 DEF Register
    <2>2. /\ caller' = caller /\ local' = local /\ settled' = settled
          /\ submitted' = submitted /\ finished' = finished
      BY <1>3 DEF Register
    <2>3. t.end <= WorkItems(size)
      BY DEF IInv, TasksInRange
    <2>4. ASSUME NEW u \in submitted, u.first < t.end
          PROVE  u \in held' \/ u \in finished
      <3>1. u = t \/ u.end <= t.first \/ t.end <= u.first
        BY DEF IInv, TasksInRange
      <3>2. /\ u.first \in Nat /\ u.end \in Nat /\ t.first \in Nat /\ t.end \in Nat
            /\ u.first < u.end
        BY DEF TypeOK, Tasks, IInv, TasksInRange
      <3>3. u = t \/ u.first < next
        BY <2>1, <2>4, <3>1, <3>2
      <3>. QED  BY <2>1, <3>3 DEF ResultLast
    <2>. QED  BY <1>0, <2>1, <2>2, <2>3, <2>4 DEF ResultLast
  <1>4. CASE Return
    <2>1. /\ caller = "registering" /\ next = WorkItems(size) /\ caller' = "returned"
          /\ local' = FALSE /\ held' = held /\ settled' = (settled \/ held = {})
          /\ submitted' = submitted /\ finished' = finished
      BY <1>4 DEF Return, Release
    <2>2. ASSUME NEW t \in submitted
          PROVE  t \in held \/ t \in finished
      <3>1. t.first \in Nat /\ t.end \in Nat /\ t.first < t.end /\ t.end <= next /\ next \in Nat
        BY <2>1 DEF TypeOK, Tasks, IInv, TasksInRange
      <3>2. t.first < next
        BY <3>1
      <3>. QED  BY <2>1, <3>2 DEF ResultLast
    <2>. QED  BY <2>1, <2>2 DEF ResultLast
  <1>5. ASSUME NEW w \in Workers, Take(w) \/ SetGlobalIds(w) \/ CallKernel(w)
        PROVE  ResultLast'
    <2>1. /\ caller' = caller /\ local' = local /\ held' = held /\ settled' = settled
          /\ finished' = finished /\ submitted' = submitted /\ next' = next
      BY <1>5 DEF Take, SetGlobalIds, CallKernel, promise
    <2>. QED  BY <1>0, <2>1 DEF ResultLast
  <1>6. ASSUME NEW w \in Workers, KernelThrows(w) \/ FinishTask(w)
        PROVE  ResultLast'
    <2>1. /\ caller' = caller /\ submitted' = submitted /\ next' = next
          /\ finished' = finished \union {task[w]}
          /\ local' = local /\ held' = held \ {task[w]}
          /\ settled' = (settled \/ (~local /\ held' = {}))
      BY <1>6 DEF KernelThrows, FinishTask, Finish, Release
    <2>. QED  BY <1>0, <2>1 DEF ResultLast
  <1>7. CASE BreakTask
    <2>1. PICK t : /\ caller' = caller /\ submitted' = submitted /\ next' = next
                   /\ finished' = finished \union {t}
                   /\ local' = local /\ held' = held \ {t}
                   /\ settled' = (settled \/ (~local /\ held' = {}))
      BY <1>7, BrokenTask DEF Release
    <2>. QED  BY <1>0, <2>1 DEF ResultLast
  <1>. QED  BY <1>1, <1>2, <1>3, <1>4, <1>5, <1>6, <1>7 DEF Next, Execute, Run

LEMMA Invariance == Spec => []IInv
  <1>1. IInv /\ [Next]_vars => IInv'
    <2>1. CASE Next
      BY <2>1, StepType, StepInRange, StepCovered, StepInPlace, StepInTask, StepCalled,
         StepResult DEF IInv
    <2>2. CASE UNCHANGED vars
      BY <2>2
         DEF IInv, vars, work, promise, history, TypeOK, TasksInRange, ItemsCovered, TasksInPlace,
             ItemInTask, CalledOnce, Called, Passed, ResultLast
    <2>. QED  BY <2>1, <2>2
  <1>. QED  BY InitIInv, <1>1, PTL DEF Spec

-----------------------------------------------------------------------------
(* What a reader should know of                                            *)

\* The tasks, the items the workers are at and their coordinates stay well formed; in
\* particular no coordinate is ever negative (lines 37-102).
THEOREM TypeCorrect == Spec => []TypeOK
  <1>1. IInv => TypeOK
    BY DEF IInv
  <1>. QED  BY Invariance, <1>1, PTL

\* The kernel is called at most once for each point of the range and for no other, for
\* ranges of any size and any number of workers (lines 37-102).
THEOREM EachItemOnceCorrect == Spec => []EachItemOnce
  <1>1. ASSUME IInv
        PROVE  EachItemOnce
    <2>. USE <1>1
    <2>1. size \in Sizes
      BY DEF IInv, TypeOK
    <2>2. ASSUME NEW id \in ran, NEW d \in 1..Len(size)
          PROVE  id[d] \in Offset[d]..(Offset[d] + size[d] - 1)
      <3>1. PICK j \in Items(size) : id = Point(size, j)
        BY DEF IInv, CalledOnce, Called
      <3>. QED  BY <2>1, <3>1, PointInRange
    <2>. QED  BY <2>2 DEF EachItemOnce, IInv, CalledOnce
  <1>. QED  BY Invariance, <1>1, PTL

\* There is one point for each item the kernel has been called for.
LEMMA AsManyAsCalled ==
    ASSUME IInv
    PROVE  /\ IsFiniteSet(Called) /\ IsFiniteSet(ran)
           /\ Cardinality(ran) = Cardinality(Called)
  <1>1. size \in Sizes /\ WorkItems(size) \in Nat
    BY WorkItemsType DEF IInv, TypeOK
  <1>2. IsFiniteSet(Items(size))
    BY <1>1, FS_Interval DEF Items
  <1>3. IsFiniteSet(Called)
    BY <1>2, FS_Subset DEF Called
  <1>4. ExistsBijection(Called, ran)
    <2>. DEFINE f == [j \in Called |-> Point(size, j)]
    <2>1. f \in [Called -> ran]
      BY DEF IInv, CalledOnce
    <2>2. \A j, k \in Called : f[j] = f[k] => j = k
      BY <1>1, PointInjective DEF Called
    <2>3. \A id \in ran : \E j \in Called : f[j] = id
      BY DEF IInv, CalledOnce
    <2>. HIDE DEF f
    <2>4. f \in Bijection(Called, ran)
      BY <2>1, <2>2, <2>3 DEF Bijection, Injection, Surjection, IsInjective
    <2>. QED  BY <2>4 DEF ExistsBijection
  <1>. QED  BY <1>3, <1>4, FS_Bijection

\* When the future of Execute is settled the kernel has been called for every point of
\* the range, but for those that a kernel call that threw has left out, and for those of
\* the tasks that were not started before the pool was destroyed (lines 37-127,
\* StaticThreadPool.hpp:131-134), for ranges of any size and any number of workers.
THEOREM SettledAfterAllCorrect == Spec => []SettledAfterAll
  <1>1. ASSUME IInv, settled
        PROVE  /\ Cardinality(ran) + Cardinality(skipped) + Cardinality(unstarted)
                     = WorkItems(size)
               /\ open => unstarted = {}
    <2>. USE <1>1
    <2>1. size \in Sizes /\ WorkItems(size) \in Nat
      BY WorkItemsType DEF IInv, TypeOK
    <2>2. submitted \subseteq finished /\ caller # "submitting"
      BY DEF IInv, ResultLast, TypeOK
    <2>3. \A j \in Items(size) : Passed(j)
      BY <2>2 DEF IInv, ItemsCovered, Passed
    <2>. DEFINE left == skipped \union unstarted
    <2>4. /\ Items(size) = Called \union left /\ Called \intersect left = {}
          /\ skipped \intersect unstarted = {} /\ (open => unstarted = {})
          /\ left = skipped \union unstarted
      BY <2>3 DEF Called, IInv, CalledOnce
    <2>. HIDE DEF left
    <2>5. IsFiniteSet(Items(size)) /\ Cardinality(Items(size)) = WorkItems(size)
      <3>1. 0 \in Int /\ WorkItems(size) - 1 \in Int
        BY <2>1
      <3>2. /\ IsFiniteSet(Items(size))
            /\ Cardinality(Items(size)) = IF 0 > WorkItems(size) - 1 THEN 0
                                          ELSE WorkItems(size) - 1 - 0 + 1
        BY <3>1, FS_Interval DEF Items
      <3>. QED  BY <2>1, <3>2
    <2>6. IsFiniteSet(left) /\ IsFiniteSet(skipped) /\ IsFiniteSet(unstarted)
      <3>1. IsFiniteSet(left)
        BY <2>4, <2>5, FS_Subset
      <3>. QED  BY <2>4, <3>1, FS_Subset
    <2>7. /\ Cardinality(Called) \in Nat /\ Cardinality(left) \in Nat
          /\ Cardinality(skipped) \in Nat /\ Cardinality(unstarted) \in Nat
      BY <2>6, AsManyAsCalled, FS_CardinalityType
    <2>8. /\ Cardinality(Called \union left)
                = Cardinality(Called) + Cardinality(left) - Cardinality(Called \intersect left)
          /\ Cardinality(skipped \union unstarted)
                = Cardinality(skipped) + Cardinality(unstarted)
                  - Cardinality(skipped \intersect unstarted)
      BY <2>6, AsManyAsCalled, FS_Union
    <2>9. Cardinality({}) = 0
      BY FS_EmptySet
    <2>10. Cardinality(ran) = Cardinality(Called)
      BY AsManyAsCalled
    <2>11. Cardinality(left) = Cardinality(skipped) + Cardinality(unstarted)
      <3>1. Cardinality(left)
                = Cardinality(skipped) + Cardinality(unstarted) - Cardinality({})
        BY <2>4, <2>8, Zenon
      <3>. QED  BY <2>7, <2>9, <3>1
    <2>12. WorkItems(size) = Cardinality(Called) + Cardinality(left)
      BY <2>4, <2>5, <2>7, <2>8, <2>9
    <2>. QED  BY <2>1, <2>4, <2>7, <2>10, <2>11, <2>12
  <1>2. IInv => SettledAfterAll
    BY <1>1 DEF SettledAfterAll
  <1>. QED  BY Invariance, <1>2, PTL

=============================================================================
