---------------------------- MODULE FutureState ----------------------------
(***************************************************************************)
(* The shared state behind one azul::async::Promise and its Futures        *)
(* (include/azul/async/detail/FutureState.hpp), called by several threads. *)
(*                                                                         *)
(* A block the code runs under _mutex is one step.  What it does after     *)
(* releasing the mutex is a step of its own: every continuation that       *)
(* SetValue, SetException or Then runs, the copy Future::Get takes of the  *)
(* returned reference, and the clear() of AboutToDestroyPromise.           *)
(* The condition variable is the set of the threads asleep on it.          *)
(***************************************************************************)
EXTENDS Naturals, FiniteSets, Sequences

CONSTANTS
    Threads,        \* threads that hold the promise or one of its futures
    Continuations,  \* std::function<void()> objects passed to Then
    IsVoid,         \* TRUE for the specialisation FutureState<void>
    MaxSets         \* bound on the calls of SetValue and SetException

ASSUME ThreadsAssumption == IsFiniteSet(Threads)
ASSUME MaxSetsAssumption == MaxSets \in Nat
ASSUME IsVoidAssumption == IsVoid \in BOOLEAN

VARIABLES
    state,          \* _state
    value,          \* the call of SetValue that _value comes from, 0 for T{ }
    continuations,  \* _continuations
    asleep,         \* threads blocked on _condition
    held,           \* TRUE while a Promise object refers to the state
    pc,             \* where each thread is, "idle" outside of the state
    idx,            \* the element a thread iterating _continuations runs next
    cont,           \* the continuation a thread runs inline in Then
    \* history: calls of Set*, settlements, Then, runs of a continuation, and threads
    \* that nobody woke since they fell asleep
    sets, settlements, registered, runs, spurious

vars == <<state, value, continuations, asleep, held, pc, idx, cont,
          sets, settlements, registered, runs, spurious>>

counts == <<sets, settlements, registered, runs>>
history == <<counts, spurious>>
local == <<pc, idx, cont>>

States == {"Undefined", "Ready", "Exception", "BrokenPromise"}
Locations == {"idle", "Get", "Wait", "WaitFor", "copy", "iterate", "inline", "clear"}

IsReady == state # "Undefined"
NumberOfContinuations == Len(continuations)

Init ==
    /\ state = "Undefined"
    /\ value = 0
    /\ continuations = <<>>
    /\ asleep = {}
    /\ held = TRUE
    /\ pc = [t \in Threads |-> "idle"]
    /\ idx = [t \in Threads |-> 1]
    /\ \E c \in Continuations : cont = [t \in Threads |-> c]
    /\ sets = 0
    /\ settlements = 0
    /\ registered = {}
    /\ runs = [c \in Continuations |-> 0]
    /\ spurious = {}

Goto(t, l) == pc' = [pc EXCEPT ![t] = l]

\* The call ends: with a value, an exception, a timeout, FutureAlreadySet or nothing.
Return(t) == Goto(t, "idle")

\* The thread blocks on the condition variable.
FallAsleep(t) ==
    /\ asleep' = asleep \union {t}
    /\ spurious' = spurious \ {t}

Run(c) == runs' = [runs EXCEPT ![c] = @ + 1]

-----------------------------------------------------------------------------
(* Reading: Get, Wait and WaitFor                                          *)

\* One turn of the loop of Get, under the mutex.
GetTurn(t) ==
    IF ~IsReady
      THEN Goto(t, "Get") /\ FallAsleep(t)
      ELSE /\ IF state = "Ready" /\ ~IsVoid THEN Goto(t, "copy") ELSE Return(t)
           /\ spurious' = spurious \ {t}
           /\ UNCHANGED asleep

Get(t) ==
    /\ pc[t] = "idle"
    /\ GetTurn(t)
    /\ UNCHANGED <<state, value, continuations, held, idx, cont, counts>>

\* The wait in Get returned: the loop looks at the state again.
GetAwake(t) ==
    /\ pc[t] = "Get" /\ t \notin asleep
    /\ GetTurn(t)
    /\ UNCHANGED <<state, value, continuations, held, idx, cont, counts>>

\* Future::Get copies what the returned reference refers to, without the mutex.
CopyValue(t) ==
    /\ pc[t] = "copy"
    /\ Return(t)
    /\ UNCHANGED <<state, value, continuations, asleep, held, idx, cont, history>>

\* Wait and WaitFor sleep at most once and look at the state only before that.
Block(t, l) ==
    /\ pc[t] = "idle"
    /\ IF IsReady
         THEN Return(t) /\ UNCHANGED <<asleep, spurious>>
         ELSE Goto(t, l) /\ FallAsleep(t)
    /\ UNCHANGED <<state, value, continuations, held, idx, cont, counts>>

Wait(t) == Block(t, "Wait")
WaitFor(t) == Block(t, "WaitFor")

WaitAwake(t) ==
    /\ pc[t] \in {"Wait", "WaitFor"} /\ t \notin asleep
    /\ Return(t)
    /\ spurious' = spurious \ {t}
    /\ UNCHANGED <<state, value, continuations, asleep, held, idx, cont, counts>>

\* wait_for reports a timeout, whether or not the state is settled by then.
WaitForTimeout(t) ==
    /\ pc[t] = "WaitFor" /\ t \in asleep
    /\ asleep' = asleep \ {t}
    /\ Return(t)
    /\ UNCHANGED <<state, value, continuations, held, idx, cont, history>>

\* A condition variable may wake a thread that nobody notified.
SpuriousWakeup(t) ==
    /\ t \in asleep
    /\ asleep' = asleep \ {t}
    /\ spurious' = spurious \union {t}
    /\ UNCHANGED <<state, value, continuations, held, local, counts>>

-----------------------------------------------------------------------------
(* Settling: SetValue, SetException and the end of the promise             *)

\* The caller goes on to the loop over _continuations, without the mutex.
StartIterating(t) ==
    /\ Goto(t, "iterate")
    /\ idx' = [idx EXCEPT ![t] = 1]
    /\ settlements' = settlements + 1

\* Fault: SetValue without its check of the state.
SetValueOverwrites(t) ==
    /\ pc[t] = "idle" /\ held /\ sets < MaxSets
    /\ sets' = sets + 1
    /\ state' = "Ready"
    /\ value' = sets'
    /\ asleep' = {}
    /\ StartIterating(t)
    /\ UNCHANGED <<continuations, held, cont, registered, runs, spurious>>

SetValue(t) ==
    /\ pc[t] = "idle" /\ held /\ sets < MaxSets
    /\ sets' = sets + 1
    /\ IF IsReady  \* throws FutureAlreadySet, or returns if the state is void
         THEN /\ Return(t)
              /\ UNCHANGED <<state, value, asleep, idx, settlements>>
         ELSE /\ state' = "Ready"
              /\ value' = sets'
              /\ asleep' = {}
              /\ StartIterating(t)
    /\ UNCHANGED <<continuations, held, cont, registered, runs, spurious>>

\* Fault: SetException without notify_all.
SetExceptionSilently(t) ==
    /\ pc[t] = "idle" /\ held /\ sets < MaxSets
    /\ sets' = sets + 1
    /\ state' = "Exception"
    /\ StartIterating(t)
    /\ UNCHANGED <<value, continuations, asleep, held, cont, registered, runs, spurious>>

SetException(t) ==
    /\ pc[t] = "idle" /\ held /\ sets < MaxSets
    /\ sets' = sets + 1
    /\ state' = "Exception"
    /\ asleep' = {}
    /\ StartIterating(t)
    /\ UNCHANGED <<value, continuations, held, cont, registered, runs, spurious>>

RunContinuation(t) ==
    /\ pc[t] = "iterate" /\ idx[t] <= Len(continuations)
    /\ Run(continuations[idx[t]])
    /\ idx' = [idx EXCEPT ![t] = @ + 1]
    /\ UNCHANGED <<state, value, continuations, asleep, held, pc, cont,
                   sets, settlements, registered, spurious>>

\* Fault: the loop ends before the last element.
FinishIteratingEarly(t) ==
    /\ pc[t] = "iterate" /\ idx[t] >= Len(continuations)
    /\ Return(t)
    /\ UNCHANGED <<state, value, continuations, asleep, held, idx, cont, history>>

FinishIterating(t) ==
    /\ pc[t] = "iterate" /\ idx[t] > Len(continuations)
    /\ Return(t)
    /\ UNCHANGED <<state, value, continuations, asleep, held, idx, cont, history>>

\* The promise is given up by a thread that is done with it: a Promise must not
\* be destroyed or assigned to while another thread is in one of its calls.
MayGiveUp(t) ==
    /\ pc[t] = "idle" /\ held
    /\ \A u \in Threads : pc[u] # "iterate"

\* Fault: the end of the promise breaks a settled state.
AboutToDestroyPromiseAlways(t) ==
    /\ MayGiveUp(t)
    /\ held' = FALSE
    /\ state' = "BrokenPromise"
    /\ asleep' = {}
    /\ Goto(t, "clear")
    /\ UNCHANGED <<value, continuations, idx, cont, history>>

\* Fault: the end of the promise wakes everybody and leaves the state as it is.
AboutToDestroyPromiseUnsettled(t) ==
    /\ MayGiveUp(t)
    /\ held' = FALSE
    /\ asleep' = {}
    /\ Goto(t, "clear")
    /\ UNCHANGED <<state, value, continuations, idx, cont, history>>

\* ~Promise, and the deleter of the pseudo-promise of Future::Then.
AboutToDestroyPromise(t) ==
    /\ MayGiveUp(t)
    /\ held' = FALSE
    /\ state' = IF IsReady THEN state ELSE "BrokenPromise"
    /\ asleep' = {}
    /\ Goto(t, "clear")
    /\ UNCHANGED <<value, continuations, idx, cont, history>>

ClearContinuations(t) ==
    /\ pc[t] = "clear"
    /\ continuations' = <<>>
    /\ Return(t)
    /\ UNCHANGED <<state, value, asleep, held, idx, cont, history>>

\* The defaulted move assignment of Promise lets go of the old state without a
\* call of AboutToDestroyPromise.
MoveAssignPromise(t) ==
    /\ MayGiveUp(t)
    /\ held' = FALSE
    /\ UNCHANGED <<state, value, continuations, asleep, local, history>>

-----------------------------------------------------------------------------
(* Registering: Then                                                       *)

\* Fault: Then without its check of the state.
ThenAppendsAlways(t, c) ==
    /\ pc[t] = "idle" /\ c \notin registered
    /\ registered' = registered \union {c}
    /\ continuations' = Append(continuations, c)
    /\ Return(t)
    /\ UNCHANGED <<state, value, asleep, held, idx, cont, sets, settlements, runs, spurious>>

Then(t, c) ==
    /\ pc[t] = "idle" /\ c \notin registered
    /\ registered' = registered \union {c}
    /\ IF IsReady
         THEN /\ Goto(t, "inline")
              /\ cont' = [cont EXCEPT ![t] = c]
              /\ UNCHANGED continuations
         ELSE /\ continuations' = Append(continuations, c)
              /\ Return(t)
              /\ UNCHANGED cont
    /\ UNCHANGED <<state, value, asleep, held, idx, sets, settlements, runs, spurious>>

RunInline(t) ==
    /\ pc[t] = "inline"
    /\ Run(cont[t])
    /\ Return(t)
    /\ UNCHANGED <<state, value, continuations, asleep, held, idx, cont,
                   sets, settlements, registered, spurious>>

-----------------------------------------------------------------------------
\* What a thread does on its own once it is inside a call.
Proceed(t) ==
    \/ GetAwake(t) \/ CopyValue(t)
    \/ WaitAwake(t) \/ WaitForTimeout(t)
    \/ RunContinuation(t) \/ FinishIterating(t) \/ RunInline(t)
    \/ ClearContinuations(t)

Call(t) ==
    \/ Get(t) \/ Wait(t) \/ WaitFor(t)
    \/ SetValue(t) \/ SetException(t)
    \/ AboutToDestroyPromise(t) \/ MoveAssignPromise(t)
    \/ \E c \in Continuations : Then(t, c)

Next == \E t \in Threads : Call(t) \/ Proceed(t) \/ SpuriousWakeup(t)

\* No thread has to call anything, and a sleeper need not wake up by itself.  A
\* thread that is inside a call and not asleep is scheduled.
Fairness == \A t \in Threads : WF_vars(Proceed(t))

Spec == Init /\ [][Next]_vars /\ Fairness

-----------------------------------------------------------------------------
(* Properties                                                              *)

\* The state, its wait set and the program counters stay well formed.
TypeOK ==
    /\ state \in States
    /\ value \in Nat
    /\ continuations \in Seq(Continuations)
    /\ asleep \in SUBSET Threads
    /\ held \in BOOLEAN
    /\ pc \in [Threads -> Locations]
    /\ idx \in [Threads -> Nat \ {0}]
    /\ cont \in [Threads -> Continuations]
    /\ spurious \in SUBSET Threads
    /\ sets \in Nat /\ settlements \in Nat
    /\ registered \in SUBSET Continuations
    /\ runs \in [Continuations -> Nat]

\* What makes NoContinuationLost inductive.  A thread is past the mutex only when
\* the state is settled, it iterates only while the promise is held, and the
\* promise is given up by one thread.
UnlockedOnlyWhenSettled ==
    /\ \A t \in Threads : pc[t] \in {"copy", "iterate", "inline", "clear"} => IsReady
    /\ \A t \in Threads : pc[t] = "iterate" => held
    /\ \A t, u \in Threads : pc[t] = "clear" => ~held /\ (pc[u] = "clear" => t = u)
    /\ state = "BrokenPromise" => ~held

\* The element i of the vector still has its run before it.
WillRun(i) ==
    \/ state = "Undefined"
    \/ \E t \in Threads : pc[t] = "iterate" /\ idx[t] <= i

\* A registered continuation has run, is about to, or was dropped with the promise.
Accounted(c) ==
    \/ runs[c] > 0
    \/ state = "BrokenPromise"
    \/ \E t \in Threads : pc[t] = "inline" /\ cont[t] = c
    \/ \E i \in 1..Len(continuations) : continuations[i] = c /\ WillRun(i)

\* Get, Wait and WaitFor are woken only after the state is settled, unless the
\* condition variable wakes them by itself: Wait and WaitFor then return without a
\* result, for they wait in an if and not in a loop (lines 115-134).
AwakeOnlyWhenSettled ==
    \A t \in Threads :
        pc[t] \in {"Get", "Wait", "WaitFor"} /\ t \notin asleep => IsReady \/ t \in spurious

\* What makes BrokenRunsOnlyLateContinuations inductive.  Nobody sleeps on a settled
\* state, and only an unsettled one is broken, whose vector is cleared afterwards.
NobodyLeftBehind ==
    /\ IsReady => asleep = {}
    /\ state = "Undefined" => settlements = 0
    /\ state = "BrokenPromise" =>
           settlements = 0 /\ (continuations = <<>> \/ \E t \in Threads : pc[t] = "clear")

\* The inductive invariant of Spec.
IInv ==
    /\ TypeOK
    /\ UnlockedOnlyWhenSettled
    /\ AwakeOnlyWhenSettled
    /\ NobodyLeftBehind
    /\ \A c \in registered : Accounted(c)

\* The threads that have the element i of the vector still before them.
Behind(i) == {t \in Threads : pc[t] = "iterate" /\ idx[t] <= i}

\* c waits for a thread that is about to run it inline.
Inline(c) == \E t \in Threads : pc[t] = "inline" /\ cont[t] = c

\* An element of the vector has been run once for every settlement whose loop is past
\* it.
VectorCounted ==
    \A i \in 1..Len(continuations) :
        /\ continuations[i] \in registered
        /\ ~Inline(continuations[i])
        /\ \A j \in 1..Len(continuations) : continuations[i] = continuations[j] => i = j
        /\ runs[continuations[i]] + Cardinality(Behind(i)) = settlements

InVector(c) == \E i \in 1..Len(continuations) : continuations[i] = c

\* What makes RunOncePerSettlement inductive: besides, a continuation that came too
\* late for the vector has been run once or not yet, by one thread, and one that was
\* not registered never.
Counted ==
    /\ VectorCounted
    /\ \A c \in registered : ~InVector(c) => runs[c] = IF Inline(c) THEN 0 ELSE 1
    /\ \A c \in Continuations \ registered : runs[c] = 0 /\ ~Inline(c)
    /\ \A t, u \in Threads :
           pc[t] = "inline" /\ pc[u] = "inline" /\ cont[t] = cont[u] => t = u

Quiescent == \A t \in Threads : pc[t] \notin {"iterate", "inline", "clear"}

\* A continuation is not lost between the thread that registers it and the one
\* that settles the state: once the state is settled by a value or an exception
\* and no thread is in the middle of a call, every continuation passed to Then
\* has been run (SetValue, SetException and Then: FutureState.hpp:80-148).
NoContinuationLost ==
    Quiescent /\ state \in {"Ready", "Exception"}
        => \A c \in registered : runs[c] > 0

\* While the promise lives, a continuation in the vector has been run once for
\* every settlement, one registered later exactly once.  There is more than one
\* settlement only if SetException overrides a settled state (lines 100-113).
RunOncePerSettlement ==
    Quiescent /\ held /\ IsReady
        => \A c \in registered :
               runs[c] = IF InVector(c) THEN settlements ELSE 1

\* The loops over _continuations and its clear() run without the mutex (lines
\* 94, 109, 167).  No other thread changes the vector under them, so that no
\* iterator is invalidated.
VectorStableWhileUnlocked ==
    [][\A t \in Threads : pc[t] \in {"iterate", "clear"} /\ pc'[t] = pc[t]
           => continuations' = continuations]_vars

\* Get returns a reference (line 72) that Future::Get copies after the mutex is
\* released (Future.hpp:62).  Nobody writes _value until the copy is taken.
ValueStableWhileCopied ==
    [][\A t \in Threads : pc[t] = "copy" => value' = value]_vars

\* A promise given up with its destructor and without a result leaves nobody
\* behind: its continuations are dropped and never run, whatever other threads
\* were registering (lines 156-168).
BrokenRunsOnlyLateContinuations ==
    state = "BrokenPromise" /\ Quiescent
        => /\ continuations = <<>>
           /\ settlements = 0
           /\ asleep = {}

\* A thread blocked in Get or Wait on a state that is settled returns, whichever
\* of the four ways settled it (the notify_all of lines 91, 106 and 164).
SettledWakesEveryone ==
    \A t \in Threads : (IsReady /\ pc[t] \in {"Get", "Wait"}) ~> (pc[t] = "idle")
=============================================================================
