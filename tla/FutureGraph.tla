---------------------------- MODULE FutureGraph ----------------------------
(***************************************************************************)
(* Futures derived from futures (include/azul/async/Future.hpp): Then,     *)
(* WhenAll and WhenAny over the futures of promises, and over each other.  *)
(*                                                                         *)
(* The state of one future is module FutureState; here a call into it is   *)
(* one step, and so is each continuation that is run or destroyed.  That   *)
(* may settle a derived future, whose own continuations then follow on the *)
(* same thread before the next one of the first future: the calls a thread *)
(* is in are a stack.                                                      *)
(*                                                                         *)
(* A promise is settled at most once, and no callable calls back into the  *)
(* library.                                                                *)
(***************************************************************************)
EXTENDS Naturals, Sequences

CONSTANTS
    Threads,    \* threads that hold promises and futures
    Promises,   \* promises, each with its future
    Derived,    \* futures that Then, WhenAll and WhenAny may return
    Local       \* the reference a combinator's own frame holds

Futures == Promises \union Derived

ASSUME DisjointAssumption == Promises \intersect Derived = {} /\ Local \notin Futures

VARIABLES
    state,          \* _state of every future
    continuations,  \* per future, the derived futures its continuations settle
    alive,          \* the promises that are not destroyed
    kind,           \* what a derived future is the result of
    inputs,         \* the futures it was derived from
    holders,        \* who holds the pseudo-promise of Then, the activator of WhenAll
    stack,          \* the calls each thread is in, the innermost first
    runs            \* history: how often the callable given to Then was called

vars == <<state, continuations, alive, kind, inputs, holders, stack, runs>>

FutureStates == {"Undefined", "Ready", "Exception", "BrokenPromise"}
Kinds == {"none", "Then", "WhenAll", "WhenAny"}

\* A call: a loop that runs or destroys the continuations of a future, from element
\* idx on, or a combinator that has yet to call Then on the futures in todo.
Frames == [call : {"run", "clear", "combine"}, future : Futures,
           idx : Nat \ {0}, todo : SUBSET Futures]

Frame(call, f, todo) == [call |-> call, future |-> f, idx |-> 1, todo |-> todo]

IsSettled(f) == state[f] # "Undefined"

\* Some thread is in that call for future f.
Busy(call, f) == \E t \in Threads : \E i \in 1..Len(stack[t]) :
                     stack[t][i].call = call /\ stack[t][i].future = f

\* The futures a thread may have: those of promises and those returned.
Visible == Promises \union {d \in Derived : kind[d] # "none" /\ ~Busy("combine", d)}

Init ==
    /\ state = [f \in Futures |-> "Undefined"]
    /\ continuations = [f \in Futures |-> <<>>]
    /\ alive = Promises
    /\ kind = [d \in Derived |-> "none"]
    /\ inputs = [d \in Derived |-> {}]
    /\ holders = [d \in Derived |-> {}]
    /\ stack = [t \in Threads |-> <<>>]
    /\ runs = [d \in Derived |-> 0]

Idle(t) == stack[t] = <<>>

\* The innermost call of t.
Top(t) == Head(stack[t])
In(t, call) == ~Idle(t) /\ Top(t).call = call

\* The stack of t when that call has handled one continuation, or one input.
Advanced(t) == <<[Top(t) EXCEPT !.idx = @ + 1]>> \o Tail(stack[t])
Registered(t, f) == <<[Top(t) EXCEPT !.todo = @ \ {f}]>> \o Tail(stack[t])

\* Thread t is left with the calls in rest.
Continue(t, rest) ==
    /\ stack' = [stack EXCEPT ![t] = rest]
    /\ UNCHANGED state

\* Future f gets state s, and t loops over the continuations of f before rest.
Settle(t, f, s, call, rest) ==
    /\ state' = [state EXCEPT ![f] = s]
    /\ stack' = [stack EXCEPT ![t] =
                    IF continuations[f] = <<>> THEN rest ELSE <<Frame(call, f, {})>> \o rest]

-----------------------------------------------------------------------------
(* References                                                              *)

\* Fault: it breaks a settled future as well.
BrokenAlways(f) == "BrokenPromise"

\* AboutToDestroyPromise breaks a future that is not settled.
BrokenUnlessSettled(f) == IF IsSettled(f) THEN state[f] ELSE "BrokenPromise"

\* Fault: the first reference that goes away counts as the last one.
DropAnyReference(t, d, h, rest) ==
    /\ holders' = [holders EXCEPT ![d] = {}]
    /\ \/ /\ h \notin holders[d]
          /\ Continue(t, rest)
       \/ /\ h \in holders[d] /\ kind[d] = "WhenAll"
          /\ Settle(t, d, "Ready", "run", rest)
       \/ /\ h \in holders[d] /\ kind[d] = "Then"
          /\ Settle(t, d, BrokenUnlessSettled(d), "clear", rest)

\* Reference h of d goes away.  The last one to the activator of WhenAll sets the
\* value, the last one to the pseudo-promise of Then breaks the result.
Drop(t, d, h, rest) ==
    /\ holders' = [holders EXCEPT ![d] = @ \ {h}]
    /\ \/ /\ holders[d] # {h}
          /\ Continue(t, rest)
       \/ /\ holders[d] = {h} /\ kind[d] = "WhenAll"
          /\ Settle(t, d, "Ready", "run", rest)
       \/ /\ holders[d] = {h} /\ kind[d] = "Then"
          /\ Settle(t, d, BrokenUnlessSettled(d), "clear", rest)

\* Fault: a callable that throws leaves the result as it is.
RunContinuationNoCatch(t, d, f, rest) ==
    \/ /\ kind[d] = "Then"
       /\ runs' = [runs EXCEPT ![d] = @ + 1]
       /\ Settle(t, d, "Ready", "run", rest) \/ Continue(t, rest)
       /\ UNCHANGED holders
    \/ /\ kind[d] = "WhenAny"
       /\ IF IsSettled(d) THEN Continue(t, rest) ELSE Settle(t, d, "Ready", "run", rest)
       /\ UNCHANGED <<holders, runs>>
    \/ /\ kind[d] = "WhenAll"
       /\ Drop(t, d, f, rest)
       /\ UNCHANGED runs

\* The continuation of f that belongs to d runs.
RunContinuation(t, d, f, rest) ==
    \/ /\ kind[d] = "Then"
       /\ runs' = [runs EXCEPT ![d] = @ + 1]
       /\ \E s \in {"Ready", "Exception"} : Settle(t, d, s, "run", rest)
       /\ UNCHANGED holders
    \/ /\ kind[d] = "WhenAny"
       /\ IF IsSettled(d) THEN Continue(t, rest) ELSE Settle(t, d, "Ready", "run", rest)
       /\ UNCHANGED <<holders, runs>>
    \/ /\ kind[d] = "WhenAll"
       /\ Drop(t, d, f, rest)
       /\ UNCHANGED runs

-----------------------------------------------------------------------------
(* Combinators                                                             *)

\* Then, WhenAll or WhenAny is called and creates the state of its result.
Combine(t, k, d, D) ==
    /\ Idle(t)
    /\ kind[d] = "none"
    /\ D # {} /\ D \subseteq Visible
    /\ k = "Then" => \E f \in D : D = {f}
    /\ kind' = [kind EXCEPT ![d] = k]
    /\ inputs' = [inputs EXCEPT ![d] = D]
    /\ holders' = [holders EXCEPT ![d] = IF k = "WhenAny" THEN {} ELSE {Local}]
    /\ stack' = [stack EXCEPT ![t] = <<Frame("combine", d, D)>>]
    /\ UNCHANGED <<state, continuations, alive, runs>>

\* Fault: the continuation is stored whatever the state is.
RegisterInputAlways(t, f) ==
    LET d == Top(t).future IN
    /\ In(t, "combine") /\ f \in Top(t).todo
    /\ continuations' = [continuations EXCEPT ![f] = Append(@, d)]
    /\ holders' = IF kind[d] = "WhenAny" THEN holders
                    ELSE [holders EXCEPT ![d] = @ \union {f}]
    /\ Continue(t, Registered(t, f))
    /\ UNCHANGED <<alive, kind, inputs, runs>>

\* FutureState::Then on one input: the continuation is stored, or it runs at once.
RegisterInput(t, f) ==
    LET d == Top(t).future IN
    /\ In(t, "combine") /\ f \in Top(t).todo
    /\ \/ /\ ~IsSettled(f)
          /\ continuations' = [continuations EXCEPT ![f] = Append(@, d)]
          /\ holders' = IF kind[d] = "WhenAny" THEN holders
                          ELSE [holders EXCEPT ![d] = @ \union {f}]
          /\ Continue(t, Registered(t, f))
          /\ UNCHANGED runs
       \/ /\ IsSettled(f)
          /\ RunContinuation(t, d, f, Registered(t, f))
          /\ UNCHANGED continuations
    /\ UNCHANGED <<alive, kind, inputs>>

\* The combinator returns and its own references go away.
EndCombine(t) ==
    /\ In(t, "combine") /\ Top(t).todo = {}
    /\ Drop(t, Top(t).future, Local, Tail(stack[t]))
    /\ UNCHANGED <<continuations, alive, kind, inputs, runs>>

-----------------------------------------------------------------------------
(* Promises and the loops over their continuations                         *)

Fulfil(t, p) ==
    /\ Idle(t) /\ p \in alive /\ ~IsSettled(p)
    /\ \E s \in {"Ready", "Exception"} : Settle(t, p, s, "run", <<>>)
    /\ UNCHANGED <<continuations, alive, kind, inputs, holders, runs>>

\* ~Promise, by a thread that is done with it: nobody is in a call of the promise.
DestroyPromise(t, p) ==
    /\ Idle(t) /\ p \in alive /\ ~Busy("run", p)
    /\ alive' = alive \ {p}
    /\ Settle(t, p, BrokenUnlessSettled(p), "clear", <<>>)
    /\ UNCHANGED <<continuations, kind, inputs, holders, runs>>

RunNext(t) ==
    LET f == Top(t).future
        i == Top(t).idx
    IN
    /\ In(t, "run") /\ i <= Len(continuations[f])
    /\ RunContinuation(t, continuations[f][i], f, Advanced(t))
    /\ UNCHANGED <<continuations, alive, kind, inputs>>

\* clear() destroys the continuations of a future, and what they hold.
ClearNext(t) ==
    LET f == Top(t).future
        i == Top(t).idx
    IN
    /\ In(t, "clear") /\ i <= Len(continuations[f])
    /\ Drop(t, continuations[f][i], f, Advanced(t))
    /\ UNCHANGED <<continuations, alive, kind, inputs, runs>>

EndLoop(t) ==
    LET f == Top(t).future IN
    /\ ~Idle(t) /\ Top(t).call \in {"run", "clear"} /\ Top(t).idx > Len(continuations[f])
    /\ Continue(t, Tail(stack[t]))
    /\ continuations' = IF Top(t).call = "run" THEN continuations
                          ELSE [continuations EXCEPT ![f] = <<>>]
    /\ UNCHANGED <<alive, kind, inputs, holders, runs>>

-----------------------------------------------------------------------------
Next == \E t \in Threads :
    \/ \E k \in Kinds \ {"none"}, d \in Derived, D \in SUBSET Futures : Combine(t, k, d, D)
    \/ \E f \in Futures : RegisterInput(t, f)
    \/ EndCombine(t)
    \/ \E p \in Promises : Fulfil(t, p) \/ DestroyPromise(t, p)
    \/ RunNext(t) \/ ClearNext(t) \/ EndLoop(t)

Spec == Init /\ [][Next]_vars

-----------------------------------------------------------------------------
(* Properties                                                              *)

\* The futures, their references and the stacks stay well formed.
TypeOK ==
    /\ state \in [Futures -> FutureStates]
    /\ continuations \in [Futures -> Seq(Derived)]
    /\ alive \in SUBSET Promises
    /\ kind \in [Derived -> Kinds]
    /\ inputs \in [Derived -> SUBSET Futures]
    /\ holders \in [Derived -> SUBSET (Futures \union {Local})]
    /\ stack \in [Threads -> Seq(Frames)]
    /\ runs \in [Derived -> Nat]

Quiescent == \A t \in Threads : Idle(t)

\* A derived future is not settled before its inputs are: all of them for WhenAll,
\* some for WhenAny, whatever settles while they are still being registered.
SettledAfterInputs ==
    \A d \in Derived : IsSettled(d) =>
        CASE kind[d] \in {"Then", "WhenAll"} -> \A f \in inputs[d] : IsSettled(f)
          [] kind[d] = "WhenAny" -> \E f \in inputs[d] : IsSettled(f)
          [] OTHER -> FALSE

\* No completion is lost: when no thread is in a call, every future derived from
\* settled ones is settled, however deep the chain and whichever thread got there
\* first.  WhenAny counts inputs with a value or an exception.
SettledWithInputs ==
    Quiescent => \A d \in Derived :
        /\ kind[d] \in {"Then", "WhenAll"} /\ (\A f \in inputs[d] : IsSettled(f)) => IsSettled(d)
        /\ kind[d] = "WhenAny" /\ (\E f \in inputs[d] : state[f] \in {"Ready", "Exception"})
               => IsSettled(d)

\* The callable given to Then is called once, or its result is broken because the
\* promise went before: never both and never neither.  A promise broken before
\* Then is called reaches the callable.
CallableOrBroken ==
    \A d \in Derived : kind[d] = "Then" =>
        /\ runs[d] = (IF state[d] \in {"Ready", "Exception"} THEN 1 ELSE 0)
        /\ state[d] = "BrokenPromise" => \A f \in inputs[d] : state[f] = "BrokenPromise"

\* A thread in the loop over the continuations of a future, which holds no mutex,
\* is the only one to change them (FutureState.hpp:94, 109, 167): no promise, and
\* no pseudo-promise of Then, is given up while its continuations run.
LoopsUndisturbed ==
    [][\A f \in Futures : continuations'[f] # continuations[f] =>
           \A t \in Threads : \A i \in 1..Len(stack[t]) :
               stack[t][i].call # "combine" /\ stack[t][i].future = f => stack'[t] # stack[t]]_vars

\* Claimed by the tests of operator ||, whose result is ready as soon as an
\* argument is, and by IsReady_PromiseBroken_ReturnsTrue, for which a broken future
\* is ready.  WhenAny destroys its continuations with a broken input and is never
\* told (Future.hpp:235-247).
AnyReadyWithInput ==
    Quiescent => \A d \in Derived :
        kind[d] = "WhenAny" /\ (\E f \in inputs[d] : IsSettled(f)) => IsSettled(d)
=============================================================================
