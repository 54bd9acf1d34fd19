-------------------------- MODULE FutureGraph_proofs --------------------------
(***************************************************************************)
(* For any number of threads, promises and futures derived from each other *)
(* no future that Then, WhenAll or WhenAny returns is settled before its   *)
(* inputs are (first invariant, IInv), none is forgotten once they are, a  *)
(* callable is called once or its result is broken, and nobody changes the *)
(* continuations a thread loops over (second invariant, RInv).             *)
(***************************************************************************)
EXTENDS FutureGraph, SequenceTheorems, TLAPS

USE DisjointAssumption

-----------------------------------------------------------------------------
(* Stacks                                                                  *)

\* The calls in stack s.
CallsIn(s) == {s[i] : i \in 1..Len(s)}

\* The first of the calls of a thread goes on or returns, or another one is added.
LEMMA CallsInPush ==
    ASSUME NEW s \in Seq(Frames), NEW c \in Frames
    PROVE  /\ <<c>> \o s \in Seq(Frames) /\ Len(<<c>> \o s) = Len(s) + 1
           /\ (<<c>> \o s)[1] = c
           /\ \A i \in 1..Len(s) : (<<c>> \o s)[i + 1] = s[i]
           /\ CallsIn(<<c>> \o s) = {c} \union CallsIn(s)
  <1>. DEFINE S == <<c>> \o s
  <1>1. /\ S \in Seq(Frames) /\ Len(S) = Len(s) + 1
        /\ S[1] = c
        /\ \A i \in 1..Len(s) : S[i + 1] = s[i]
    OBVIOUS
  <1>. HIDE DEF S
  <1>2. ASSUME NEW i \in 1..Len(S)
        PROVE  S[i] \in {c} \union CallsIn(s)
    <2>1. CASE i = 1
      BY <1>1, <2>1
    <2>2. CASE i # 1
      <3>1. i - 1 \in 1..Len(s) /\ S[i] = s[i - 1]
        BY <1>1, <2>2
      <3>. QED  BY <3>1 DEF CallsIn
    <2>. QED  BY <2>1, <2>2
  <1>3. ASSUME NEW i \in 1..Len(s)
        PROVE  s[i] \in CallsIn(S)
    <2>1. i + 1 \in 1..Len(S) /\ S[i + 1] = s[i]
      BY <1>1
    <2>. QED  BY <2>1 DEF CallsIn
  <1>4. c \in CallsIn(S)
    <2>1. 1 \in 1..Len(S)
      BY <1>1
    <2>. QED  BY <1>1, <2>1 DEF CallsIn
  <1>5. CallsIn(S) = {c} \union CallsIn(s)
    <2>1. CallsIn(S) \subseteq {c} \union CallsIn(s)
      BY <1>2, Zenon DEF CallsIn
    <2>2. CallsIn(s) \subseteq CallsIn(S)
      BY <1>3, Zenon DEF CallsIn
    <2>. QED  BY <1>4, <2>1, <2>2
  <1>. QED  BY <1>1, <1>5 DEF S

LEMMA CallsInTail ==
    ASSUME NEW s \in Seq(Frames), s # <<>>
    PROVE  /\ Tail(s) \in Seq(Frames) /\ Head(s) \in Frames
           /\ Len(Tail(s)) = Len(s) - 1 /\ Len(s) > 0
           /\ s[1] = Head(s)
           /\ \A i \in 1..Len(Tail(s)) : Tail(s)[i] = s[i + 1]
           /\ CallsIn(s) = {Head(s)} \union CallsIn(Tail(s))
  <1>1. /\ Tail(s) \in Seq(Frames) /\ Head(s) \in Frames
        /\ Len(Tail(s)) = Len(s) - 1 /\ Len(s) > 0
        /\ s[1] = Head(s)
        /\ \A i \in 1..Len(Tail(s)) : Tail(s)[i] = s[i + 1]
    BY HeadTailProperties
  <1>2. s = <<Head(s)>> \o Tail(s)
    BY <1>1
  <1>3. CallsIn(<<Head(s)>> \o Tail(s)) = {Head(s)} \union CallsIn(Tail(s))
    BY <1>1, CallsInPush
  <1>. QED  BY <1>1, <1>2, <1>3

LEMMA CallsInFrames ==
    ASSUME NEW s \in Seq(Frames)
    PROVE  CallsIn(s) \subseteq Frames /\ (s = <<>> => CallsIn(s) = {})
  BY DEF CallsIn

-----------------------------------------------------------------------------
(* The inductive invariant                                                 *)

\* Thread t is in a combinator for d that has yet to register on f.
Owes(t, d, f) ==
    \E c \in CallsIn(stack[t]) : c.call = "combine" /\ c.future = d /\ f \in c.todo

Combining(t, d) == \E c \in CallsIn(stack[t]) : c.call = "combine" /\ c.future = d

\* Only settled futures have their continuations run or destroyed.
LoopsSettled ==
    \A t \in Threads : \A c \in CallsIn(stack[t]) :
        c.call \in {"run", "clear"} => IsSettled(c.future)

\* A combinator is the outermost call of its thread and the only one for its result,
\* and holds a reference until it returns.  What it has yet to register on are inputs.
CombinersApart ==
    /\ \A t \in Threads : \A i \in 1..Len(stack[t]) :
        stack[t][i].call = "combine" => i = Len(stack[t])
    /\ \A t, u \in Threads : \A d \in Futures : Combining(t, d) /\ Combining(u, d) => t = u
    /\ \A t \in Threads : \A d \in Futures : Combining(t, d) =>
        /\ d \in Derived /\ kind[d] # "none"
        /\ kind[d] \in {"Then", "WhenAll"} => Local \in holders[d]
    /\ \A t \in Threads : \A d, f \in Futures : Owes(t, d, f) => f \in inputs[d]

\* The continuations of f settle what was derived from f.
ContinuationsDerived ==
    \A f \in Futures : \A i \in 1..Len(continuations[f]) :
        LET d == continuations[f][i] IN kind[d] # "none" /\ f \in inputs[d]

\* What is not derived yet is not settled; Then has one input.
KindsApart ==
    \A d \in Derived :
        /\ kind[d] = "none" => ~IsSettled(d)
        /\ kind[d] = "Then" => \E f \in Futures : inputs[d] = {f}
        /\ kind[d] = "WhenAny" => holders[d] = {}

\* An input of Then or WhenAll that is not settled holds a reference to the result, or
\* is about to get it.
InputsAccounted ==
    \A d \in Derived : kind[d] \in {"Then", "WhenAll"} =>
        \A f \in inputs[d] : IsSettled(f) \/ f \in holders[d] \/ \E t \in Threads : Owes(t, d, f)

IInv ==
    /\ TypeOK
    /\ LoopsSettled
    /\ CombinersApart
    /\ ContinuationsDerived
    /\ KindsApart
    /\ InputsAccounted
    /\ SettledAfterInputs

LEMMA InitInv == Init => IInv
  <1>. SUFFICES ASSUME Init
                PROVE  IInv
    OBVIOUS
  <1>1. \A t \in Threads : CallsIn(stack[t]) = {} /\ Len(stack[t]) = 0
    <2>1. \A t \in Threads : stack[t] = <<>> /\ Len(stack[t]) = 0
      BY DEF Init
    <2>2. \A i \in 1..0 : FALSE
      OBVIOUS
    <2>. QED  BY <2>1, <2>2, Zenon DEF CallsIn
  <1>2. TypeOK
    BY DEF Init, TypeOK, FutureStates, Kinds, Futures
  <1>3. LoopsSettled /\ CombinersApart
    <2>1. \A i \in 1..0 : FALSE
      OBVIOUS
    <2>. QED  BY <1>1, <2>1, Zenon DEF LoopsSettled, CombinersApart, Combining, Owes
  <1>4. ContinuationsDerived /\ KindsApart /\ InputsAccounted /\ SettledAfterInputs
    BY DEF Init, ContinuationsDerived, KindsApart, InputsAccounted, SettledAfterInputs, IsSettled,
           Futures
  <1>. QED  BY <1>2, <1>3, <1>4 DEF IInv

-----------------------------------------------------------------------------
(* What a step does to the stack of its thread                             *)

\* Future f is settled, and the loop over its continuations begins.
Settles(t, f, rest) ==
    \E s \in FutureStates \ {"Undefined"}, call \in {"run", "clear"} : Settle(t, f, s, call, rest)

\* Stack rest has only calls that t is in, and those of its combinators have
\* nothing less to do but for settled inputs and those in done.
Shrinks(t, rest, done) ==
    /\ rest \in Seq(Frames)
    /\ \A c \in CallsIn(rest) : \E b \in CallsIn(stack[t]) :
        b.call = c.call /\ b.future = c.future /\ (c.call = "combine" => c.todo \subseteq b.todo)
    /\ \A i \in 1..Len(rest) : rest[i].call = "combine" => i = Len(rest)
    /\ \A d \in Futures : \A f \in Futures \ done :
        Owes(t, d, f) =>
            \E c \in CallsIn(rest) : c.call = "combine" /\ c.future = d /\ f \in c.todo

LEMMA FrameType ==
    ASSUME NEW call \in {"run", "clear", "combine"}, NEW f \in Futures, NEW D \in SUBSET Futures
    PROVE  Frame(call, f, D) \in Frames
  BY DEF Frame, Frames

\* Thread t goes on with rest, and perhaps settles f.
LEMMA StackStep ==
    ASSUME IInv, NEW t \in Threads, NEW rest, NEW done, Shrinks(t, rest, done), NEW f \in Futures,
           Continue(t, rest) \/ Settles(t, f, rest)
    PROVE  /\ state' \in [Futures -> FutureStates] /\ stack' \in [Threads -> Seq(Frames)]
           /\ LoopsSettled'
           /\ \A u \in Threads : \A i \in 1..Len(stack'[u]) :
                 stack'[u][i].call = "combine" => i = Len(stack'[u])
           /\ \A u \in Threads : \A d \in Futures : Combining(u, d)' => Combining(u, d)
           /\ CallsIn(rest) = {} => \A d \in Futures : ~Combining(t, d)'
           /\ \A u \in Threads : \A d, x \in Futures :
                 /\ Owes(u, d, x) => Owes(u, d, x)' \/ (u = t /\ x \in done)
                 /\ Owes(u, d, x)' => Owes(u, d, x)
           /\ \A g \in Futures : IsSettled(g) => IsSettled(g)'
           /\ \A g \in Futures : IsSettled(g)' => IsSettled(g) \/ (g = f /\ Settles(t, f, rest))
  <1>1. /\ state' \in [Futures -> FutureStates]
        /\ \A g \in Futures : IsSettled(g) => IsSettled(g)'
        /\ \A g \in Futures : IsSettled(g)' => IsSettled(g) \/ (g = f /\ Settles(t, f, rest))
        /\ Settles(t, f, rest) => IsSettled(f)'
    <2>1. state \in [Futures -> FutureStates]
      BY DEF IInv, TypeOK
    <2>2. CASE Continue(t, rest) /\ ~Settles(t, f, rest)
      BY <2>1, <2>2 DEF Continue, IsSettled
    <2>3. CASE Settles(t, f, rest)
      <3>1. PICK s \in FutureStates \ {"Undefined"} : state' = [state EXCEPT ![f] = s]
        BY <2>3 DEF Settles, Settle
      <3>. QED  BY <2>1, <2>3, <3>1 DEF IsSettled
    <2>. QED  BY <2>2, <2>3
  <1>2. PICK call \in {"run", "clear"} :
            \/ stack' = [stack EXCEPT ![t] = rest]
            \/ Settles(t, f, rest) /\ stack' = [stack EXCEPT ![t] = <<Frame(call, f, {})>> \o rest]
    BY DEF Continue, Settles, Settle
  <1>. DEFINE new == Frame(call, f, {})
  <1>3. new \in Frames /\ new.call = call /\ new.future = f
    BY FrameType DEF Frame
  <1>4. stack \in [Threads -> Seq(Frames)] /\ rest \in Seq(Frames)
    BY DEF IInv, TypeOK, Shrinks
  <1>5. /\ stack'[t] \in Seq(Frames)
        /\ CallsIn(rest) \subseteq CallsIn(stack'[t])
        /\ \A c \in CallsIn(stack'[t]) : c \in CallsIn(rest) \/ (c = new /\ Settles(t, f, rest))
        /\ \A i \in 1..Len(stack'[t]) : stack'[t][i].call = "combine" => i = Len(stack'[t])
    <2>1. CASE stack' = [stack EXCEPT ![t] = rest]
      <3>1. stack'[t] = rest
        BY <1>4, <2>1
      <3>. QED  BY <3>1, <1>4 DEF Shrinks
    <2>2. CASE Settles(t, f, rest) /\ stack' = [stack EXCEPT ![t] = <<new>> \o rest]
      <3>. HIDE DEF new
      <3>1. stack'[t] = <<new>> \o rest
        BY <1>4, <2>2
      <3>2. /\ <<new>> \o rest \in Seq(Frames) /\ Len(<<new>> \o rest) = Len(rest) + 1
            /\ (<<new>> \o rest)[1] = new
            /\ \A i \in 1..Len(rest) : (<<new>> \o rest)[i + 1] = rest[i]
            /\ CallsIn(<<new>> \o rest) = {new} \union CallsIn(rest)
        BY <1>3, <1>4, CallsInPush
      <3>3. ASSUME NEW i \in 1..Len(stack'[t]), stack'[t][i].call = "combine"
            PROVE  i = Len(stack'[t])
        <4>1. i # 1
          BY <1>3, <3>1, <3>2, <3>3
        <4>2. i - 1 \in 1..Len(rest) /\ rest[i - 1] = stack'[t][i]
          BY <1>4, <3>1, <3>2, <4>1
        <4>3. i - 1 = Len(rest)
          BY <3>3, <4>2 DEF Shrinks
        <4>. QED  BY <1>4, <3>1, <3>2, <4>3
      <3>. QED  BY <2>2, <3>1, <3>2, <3>3
    <2>. QED  BY <1>2, <2>1, <2>2
  <1>6. \A u \in Threads : u # t => stack'[u] = stack[u]
    BY <1>2, <1>4
  <1>7. stack' \in [Threads -> Seq(Frames)]
    BY <1>2, <1>4, <1>5
  <1>. HIDE DEF new
  <1>8. ASSUME NEW u \in Threads, NEW c \in CallsIn(stack'[u]), c.call \in {"run", "clear"}
        PROVE  IsSettled(c.future)'
    <2>1. CASE c = new /\ Settles(t, f, rest)
      BY <1>1, <1>3, <2>1
    <2>2. CASE ~(c = new /\ Settles(t, f, rest))
      <3>1. PICK b \in CallsIn(stack[u]) : b.call = c.call /\ b.future = c.future
        BY <1>5, <1>6, <2>2 DEF Shrinks
      <3>2. b \in Frames
        BY <1>4, CallsInFrames
      <3>3. b.future \in Futures
        BY <3>2 DEF Frames
      <3>4. IsSettled(b.future)
        BY <1>8, <3>1 DEF IInv, LoopsSettled
      <3>. QED  BY <1>1, <3>1, <3>3, <3>4
    <2>. QED  BY <2>1, <2>2
  <1>9. LoopsSettled'
    BY <1>8 DEF LoopsSettled
  <1>10. \A u \in Threads : \A i \in 1..Len(stack'[u]) :
             stack'[u][i].call = "combine" => i = Len(stack'[u])
    BY <1>5, <1>6 DEF IInv, CombinersApart
  <1>11. ASSUME NEW u \in Threads, NEW d \in Futures, Combining(u, d)'
         PROVE  Combining(u, d)
    <2>1. PICK c \in CallsIn(stack'[u]) : c.call = "combine" /\ c.future = d
      BY <1>11 DEF Combining
    <2>2. c # new
      BY <1>3, <2>1
    <2>. QED  BY <1>5, <1>6, <2>1, <2>2 DEF Shrinks, Combining
  <1>12. ASSUME NEW u \in Threads, NEW d \in Futures, NEW x \in Futures, Owes(u, d, x),
                ~(u = t /\ x \in done)
         PROVE  Owes(u, d, x)'
    BY <1>5, <1>6, <1>12 DEF Shrinks, Owes
  <1>13. ASSUME NEW u \in Threads, NEW d \in Futures, NEW x \in Futures, Owes(u, d, x)'
         PROVE  Owes(u, d, x)
    <2>1. PICK c \in CallsIn(stack'[u]) : c.call = "combine" /\ c.future = d /\ x \in c.todo
      BY <1>13 DEF Owes
    <2>2. c # new
      BY <1>3, <2>1
    <2>. QED  BY <1>5, <1>6, <2>1, <2>2 DEF Shrinks, Owes
  <1>14. ASSUME CallsIn(rest) = {}, NEW d \in Futures
         PROVE  ~Combining(t, d)'
    BY <1>3, <1>5, <1>14 DEF Combining
  <1>. QED  BY <1>1, <1>7, <1>9, <1>10, <1>11, <1>12, <1>13, <1>14

-----------------------------------------------------------------------------
(* The steps                                                               *)

\* The inputs of d allow it to be settled.
InputsSettled(d) ==
    \/ kind[d] \in {"Then", "WhenAll"} /\ \A f \in inputs[d] : IsSettled(f)
    \/ kind[d] = "WhenAny" /\ \E f \in inputs[d] : IsSettled(f)

\* References go away only if their input is settled, or their combinator is done.
ReferencesKept(t, done) ==
    /\ holders' \in [Derived -> SUBSET (Futures \union {Local})]
    /\ \A d \in Derived :
        /\ kind[d] = "WhenAny" => holders'[d] = {}
        /\ kind[d] \in {"Then", "WhenAll"} =>
            /\ \A x \in inputs[d] : x \in holders[d] => x \in holders'[d] \/ IsSettled(x)
            /\ \A x \in done : Owes(t, d, x) => x \in holders'[d] \/ IsSettled(x)
            /\ \A u \in Threads :
                Local \in holders[d] /\ Combining(u, d)' => Local \in holders'[d]

\* Every step but the beginning of a combinator settles at most one future, after its
\* inputs if it is derived, and takes a reference only from settled inputs and from
\* combinators that are done.
LEMMA SettlingStep ==
    ASSUME IInv, NEW t \in Threads, NEW rest, NEW done, Shrinks(t, rest, done), NEW f \in Futures,
           Continue(t, rest) \/ Settles(t, f, rest),
           Settles(t, f, rest) /\ f \in Derived => InputsSettled(f),
           UNCHANGED <<kind, inputs>>,
           continuations' \in [Futures -> Seq(Derived)], ContinuationsDerived',
           alive' \in SUBSET Promises, runs' \in [Derived -> Nat],
           ReferencesKept(t, done)
    PROVE  IInv'
  <1>. USE DEF ReferencesKept
  <1>1. /\ state' \in [Futures -> FutureStates] /\ stack' \in [Threads -> Seq(Frames)]
        /\ LoopsSettled'
        /\ \A u \in Threads : \A i \in 1..Len(stack'[u]) :
              stack'[u][i].call = "combine" => i = Len(stack'[u])
        /\ \A u \in Threads : \A d \in Futures : Combining(u, d)' => Combining(u, d)
        /\ \A u \in Threads : \A d, x \in Futures :
              /\ Owes(u, d, x) => Owes(u, d, x)' \/ (u = t /\ x \in done)
              /\ Owes(u, d, x)' => Owes(u, d, x)
        /\ \A g \in Futures : IsSettled(g) => IsSettled(g)'
        /\ \A g \in Futures : IsSettled(g)' => IsSettled(g) \/ (g = f /\ Settles(t, f, rest))
    BY StackStep
  <1>2. kind' = kind /\ inputs' = inputs /\ inputs \in [Derived -> SUBSET Futures]
    BY DEF IInv, TypeOK
  <1>3. \A d \in Derived : inputs[d] \subseteq Futures /\ d \in Futures
    BY <1>2 DEF Futures
  <1>4. TypeOK'
    BY <1>1, <1>2 DEF IInv, TypeOK
  <1>5. CombinersApart'
    <2>1. \A u, v \in Threads : \A d \in Futures : Combining(u, d)' /\ Combining(v, d)' => u = v
      BY <1>1 DEF IInv, CombinersApart
    <2>2. \A u \in Threads : \A d \in Futures : Combining(u, d)' =>
              /\ d \in Derived /\ kind[d] # "none"
              /\ kind[d] \in {"Then", "WhenAll"} => Local \in holders'[d]
      BY <1>1 DEF IInv, CombinersApart
    <2>3. \A u \in Threads : \A d, x \in Futures : Owes(u, d, x)' => x \in inputs[d]
      BY <1>1 DEF IInv, CombinersApart
    <2>. QED  BY <1>1, <1>2, <2>1, <2>2, <2>3 DEF CombinersApart
  <1>6. KindsApart'
    <2>1. ASSUME NEW d \in Derived, kind[d] = "none"
          PROVE  ~IsSettled(d)'
      BY <1>1, <1>3, <2>1 DEF IInv, KindsApart, InputsSettled
    <2>. QED  BY <1>2, <2>1 DEF IInv, KindsApart
  <1>7. InputsAccounted'
    <2>1. ASSUME NEW d \in Derived, kind[d] \in {"Then", "WhenAll"}, NEW x \in inputs[d]
          PROVE  IsSettled(x)' \/ x \in holders'[d] \/ \E u \in Threads : Owes(u, d, x)'
      <3>1. d \in Futures /\ x \in Futures
        BY <1>3
      <3>2. CASE IsSettled(x) \/ x \in holders[d]
        BY <1>1, <2>1, <3>1, <3>2
      <3>3. ASSUME NEW u \in Threads, Owes(u, d, x)
            PROVE  IsSettled(x)' \/ x \in holders'[d] \/ \E v \in Threads : Owes(v, d, x)'
        BY <1>1, <2>1, <3>1, <3>3
      <3>. QED  BY <2>1, <3>2, <3>3 DEF IInv, InputsAccounted
    <2>. QED  BY <1>2, <2>1 DEF InputsAccounted
  <1>8. SettledAfterInputs'
    <2>1. ASSUME NEW d \in Derived, IsSettled(d)'
          PROVE  InputsSettled(d)
      <3>1. CASE IsSettled(d)
        BY <3>1 DEF IInv, SettledAfterInputs, InputsSettled
      <3>2. CASE ~IsSettled(d)
        BY <1>1, <1>3, <2>1, <3>2
      <3>. QED  BY <3>1, <3>2
    <2>2. ASSUME NEW d \in Derived, InputsSettled(d)
          PROVE  \/ kind[d] \in {"Then", "WhenAll"} /\ \A x \in inputs[d] : IsSettled(x)'
                 \/ kind[d] = "WhenAny" /\ \E x \in inputs[d] : IsSettled(x)'
      BY <1>1, <1>3, <2>2 DEF InputsSettled
    <2>. QED  BY <1>2, <2>1, <2>2 DEF SettledAfterInputs
  <1>. QED  BY <1>1, <1>4, <1>5, <1>6, <1>7, <1>8 DEF IInv

\* What is left of a stack.
LEMMA ShrinksNothing ==
    ASSUME IInv, NEW t \in Threads, Idle(t)
    PROVE  Shrinks(t, <<>>, {})
  <1>1. CallsIn(stack[t]) = {} /\ <<>> \in Seq(Frames)
    BY CallsInFrames DEF IInv, TypeOK, Idle
  <1>2. CallsIn(<<>>) = {}
    BY <1>1, CallsInFrames
  <1>. QED  BY <1>1, <1>2 DEF Shrinks, Owes

LEMMA ShrinksTail ==
    ASSUME IInv, NEW t \in Threads, ~Idle(t),
           Top(t).call \in {"run", "clear"} \/ Top(t).todo = {}
    PROVE  Shrinks(t, Tail(stack[t]), {})
  <1>. DEFINE rest == Tail(stack[t])
  <1>1. stack[t] \in Seq(Frames) /\ stack[t] # <<>>
    BY DEF IInv, TypeOK, Idle
  <1>2. /\ rest \in Seq(Frames) /\ Len(rest) = Len(stack[t]) - 1 /\ Len(stack[t]) > 0
        /\ \A i \in 1..Len(rest) : rest[i] = stack[t][i + 1]
        /\ CallsIn(stack[t]) = {Top(t)} \union CallsIn(rest)
    BY <1>1, CallsInTail DEF Top
  <1>. HIDE DEF rest
  <1>3. ASSUME NEW i \in 1..Len(rest), rest[i].call = "combine"
        PROVE  i = Len(rest)
    <2>1. i + 1 \in 1..Len(stack[t]) /\ stack[t][i + 1].call = "combine"
      BY <1>1, <1>2, <1>3
    <2>2. i + 1 = Len(stack[t])
      BY <2>1 DEF IInv, CombinersApart
    <2>. QED  BY <1>1, <1>2, <2>2
  <1>4. \A c \in CallsIn(rest) : \E b \in CallsIn(stack[t]) :
            b.call = c.call /\ b.future = c.future /\ (c.call = "combine" => c.todo \subseteq b.todo)
    BY <1>2
  <1>5. \A d \in Futures : \A f \in Futures \ {} :
            Owes(t, d, f) =>
                \E c \in CallsIn(rest) : c.call = "combine" /\ c.future = d /\ f \in c.todo
    BY <1>2 DEF Owes
  <1>6. Shrinks(t, rest, {})
    BY <1>2, <1>3, <1>4, <1>5 DEF Shrinks
  <1>. QED  BY <1>6 DEF rest

\* The innermost call goes on as next.
LEMMA ShrinksTop ==
    ASSUME IInv, NEW t \in Threads, ~Idle(t), NEW next \in Frames, NEW done,
           next.call = Top(t).call, next.future = Top(t).future,
           next.call = "combine" =>
               next.todo \subseteq Top(t).todo /\ Top(t).todo \ done \subseteq next.todo
    PROVE  Shrinks(t, <<next>> \o Tail(stack[t]), done)
  <1>. DEFINE tail == Tail(stack[t])
              rest == <<next>> \o tail
  <1>1. stack[t] \in Seq(Frames) /\ stack[t] # <<>>
    BY DEF IInv, TypeOK, Idle
  <1>2. /\ tail \in Seq(Frames) /\ Len(tail) = Len(stack[t]) - 1 /\ Len(stack[t]) > 0
        /\ stack[t][1] = Top(t)
        /\ \A i \in 1..Len(tail) : tail[i] = stack[t][i + 1]
        /\ CallsIn(stack[t]) = {Top(t)} \union CallsIn(tail)
    BY <1>1, CallsInTail DEF Top
  <1>. HIDE DEF tail
  <1>3. /\ rest \in Seq(Frames) /\ Len(rest) = Len(tail) + 1
        /\ rest[1] = next
        /\ \A i \in 1..Len(tail) : rest[i + 1] = tail[i]
        /\ CallsIn(rest) = {next} \union CallsIn(tail)
    BY <1>2, CallsInPush
  <1>. HIDE DEF rest
  <1>4. ASSUME NEW i \in 1..Len(rest), rest[i].call = "combine"
        PROVE  i = Len(rest)
    <2>1. i \in 1..Len(stack[t]) /\ Len(rest) = Len(stack[t])
      BY <1>1, <1>2, <1>3
    <2>2. CASE i = 1
      BY <1>2, <1>3, <1>4, <2>1, <2>2 DEF IInv, CombinersApart
    <2>3. CASE i # 1
      <3>1. i - 1 \in 1..Len(tail) /\ (i - 1) + 1 = i
        BY <1>1, <1>2, <2>1, <2>3
      <3>2. rest[i] = stack[t][i]
        BY <1>2, <1>3, <3>1
      <3>. QED  BY <1>4, <2>1, <3>2 DEF IInv, CombinersApart
    <2>. QED  BY <2>2, <2>3
  <1>5. \A c \in CallsIn(rest) : \E b \in CallsIn(stack[t]) :
            b.call = c.call /\ b.future = c.future /\ (c.call = "combine" => c.todo \subseteq b.todo)
    BY <1>2, <1>3
  <1>6. ASSUME NEW d \in Futures, NEW f \in Futures \ done, Owes(t, d, f)
        PROVE  \E c \in CallsIn(rest) : c.call = "combine" /\ c.future = d /\ f \in c.todo
    <2>1. PICK c \in CallsIn(stack[t]) : c.call = "combine" /\ c.future = d /\ f \in c.todo
      BY <1>6 DEF Owes
    <2>2. CASE c = Top(t)
      BY <1>3, <2>1, <2>2
    <2>3. CASE c \in CallsIn(tail)
      BY <1>3, <2>1, <2>3
    <2>. QED  BY <1>2, <2>1, <2>2, <2>3
  <1>7. Shrinks(t, rest, done)
    BY <1>3, <1>4, <1>5, <1>6 DEF Shrinks
  <1>. QED  BY <1>7 DEF rest, tail

LEMMA ShrinksAdvanced ==
    ASSUME IInv, NEW t \in Threads, ~Idle(t), Top(t).call \in {"run", "clear"}
    PROVE  Shrinks(t, Advanced(t), {})
  <1>. DEFINE next == [Top(t) EXCEPT !.idx = @ + 1]
  <1>1. Top(t) \in Frames
    BY CallsInTail DEF IInv, TypeOK, Idle, Top
  <1>2. /\ next \in Frames
        /\ next.call = Top(t).call /\ next.future = Top(t).future /\ next.call # "combine"
    BY <1>1 DEF Frames
  <1>. HIDE DEF next
  <1>3. Shrinks(t, <<next>> \o Tail(stack[t]), {})
    BY <1>2, ShrinksTop
  <1>. QED  BY <1>3 DEF next, Advanced

LEMMA ShrinksRegistered ==
    ASSUME IInv, NEW t \in Threads, ~Idle(t), NEW f \in Futures
    PROVE  Shrinks(t, Registered(t, f), {f})
  <1>. DEFINE next == [Top(t) EXCEPT !.todo = @ \ {f}]
  <1>1. Top(t) \in Frames
    BY CallsInTail DEF IInv, TypeOK, Idle, Top
  <1>2. /\ next \in Frames
        /\ next.call = Top(t).call /\ next.future = Top(t).future
        /\ next.todo \subseteq Top(t).todo /\ Top(t).todo \ {f} \subseteq next.todo
    BY <1>1 DEF Frames
  <1>. HIDE DEF next
  <1>3. Shrinks(t, <<next>> \o Tail(stack[t]), {f})
    BY <1>2, ShrinksTop
  <1>. QED  BY <1>3 DEF next, Registered

-----------------------------------------------------------------------------
(* References and continuations                                            *)

\* A reference to d goes away, that of a settled input or that of a combinator that has
\* registered on all of them.
LEMMA DropStep ==
    ASSUME IInv, NEW t \in Threads, NEW rest, NEW done, Shrinks(t, rest, done),
           NEW d \in Derived, kind[d] # "none", NEW h \in Futures \union {Local}, Drop(t, d, h, rest),
           \/ h \in Futures /\ IsSettled(h)
           \/ /\ h = Local
              /\ \A u \in Threads : ~Combining(u, d)'
              /\ \A u \in Threads : \A x \in Futures : ~Owes(u, d, x),
           \A x \in done : IsSettled(x),
           UNCHANGED <<kind, inputs>>,
           continuations' \in [Futures -> Seq(Derived)], ContinuationsDerived',
           alive' \in SUBSET Promises, runs' \in [Derived -> Nat]
    PROVE  IInv'
  <1>1. d \in Futures /\ Local \notin Futures
    BY DEF Futures
  <1>2. Continue(t, rest) \/ Settles(t, d, rest)
    BY DEF Drop, Settles, BrokenUnlessSettled, IInv, TypeOK, FutureStates, IsSettled, Futures
  <1>3. ASSUME Settles(t, d, rest), ~Continue(t, rest)
        PROVE  InputsSettled(d)
    <2>1. kind[d] \in {"Then", "WhenAll"} /\ holders[d] = {h}
      BY <1>3 DEF Drop
    <2>2. ASSUME NEW x \in inputs[d], ~IsSettled(x)
          PROVE  FALSE
      <3>1. x \in Futures
        BY <2>2 DEF IInv, TypeOK
      <3>2. x # h
        BY <1>1, <2>2, <3>1
      <3>3. PICK u \in Threads : Owes(u, d, x)
        BY <2>1, <2>2, <3>2 DEF IInv, InputsAccounted
      <3>4. Combining(u, d)
        BY <3>3 DEF Owes, Combining
      <3>5. Local \in holders[d]
        BY <1>1, <2>1, <3>4 DEF IInv, CombinersApart
      <3>. QED  BY <1>1, <2>1, <3>1, <3>3, <3>5
    <2>. QED  BY <2>1, <2>2 DEF InputsSettled
  <1>4. holders' = [holders EXCEPT ![d] = @ \ {h}]
    BY DEF Drop
  <1>5. holders' \in [Derived -> SUBSET (Futures \union {Local})]
    BY <1>4 DEF IInv, TypeOK
  <1>6. ASSUME NEW e \in Derived
        PROVE  /\ kind[e] = "WhenAny" => holders'[e] = {}
               /\ kind[e] \in {"Then", "WhenAll"} =>
                   /\ \A x \in inputs[e] : x \in holders[e] => x \in holders'[e] \/ IsSettled(x)
                   /\ \A x \in done : Owes(t, e, x) => x \in holders'[e] \/ IsSettled(x)
                   /\ \A u \in Threads :
                       Local \in holders[e] /\ Combining(u, e)' => Local \in holders'[e]
    <2>1. holders'[e] = IF e = d THEN holders[d] \ {h} ELSE holders[e]
      BY <1>4 DEF IInv, TypeOK
    <2>2. kind[e] = "WhenAny" => holders[e] = {}
      BY DEF IInv, KindsApart
    <2>3. inputs[e] \subseteq Futures
      BY DEF IInv, TypeOK
    <2>. QED  BY <1>1, <2>1, <2>2, <2>3
  <1>7. ReferencesKept(t, done)
    BY <1>5, <1>6 DEF ReferencesKept
  <1>8. CASE Continue(t, rest)
    <2>1. ~Settles(t, d, rest) \/ IsSettled(d)
      BY <1>1, <1>8 DEF Continue, Settles, Settle, IInv, TypeOK, IsSettled
    <2>2. Settles(t, d, rest) => InputsSettled(d)
      BY <2>1 DEF IInv, SettledAfterInputs, InputsSettled
    <2>. QED  BY <1>1, <1>7, <1>8, <2>2, SettlingStep
  <1>9. CASE Settles(t, d, rest) /\ ~Continue(t, rest)
    BY <1>1, <1>3, <1>7, <1>9, SettlingStep
  <1>. QED  BY <1>2, <1>8, <1>9

\* A continuation of f runs.
LEMMA RunContinuationStep ==
    ASSUME IInv, NEW t \in Threads, NEW rest, NEW done, Shrinks(t, rest, done),
           NEW d \in Derived, kind[d] # "none", NEW f \in Futures, f \in inputs[d], IsSettled(f),
           RunContinuation(t, d, f, rest),
           \A x \in done : IsSettled(x),
           UNCHANGED <<kind, inputs>>,
           continuations' \in [Futures -> Seq(Derived)], ContinuationsDerived',
           alive' \in SUBSET Promises
    PROVE  IInv'
  <1>1. d \in Futures
    BY DEF Futures
  <1>2. runs' \in [Derived -> Nat]
    BY DEF RunContinuation, IInv, TypeOK
  <1>3. CASE kind[d] = "WhenAll"
    BY <1>2, <1>3, DropStep DEF RunContinuation
  <1>4. CASE kind[d] # "WhenAll"
    <2>1. holders' = holders
      BY <1>4 DEF RunContinuation
    <2>2. Continue(t, rest) \/ Settles(t, d, rest)
      BY <1>4 DEF RunContinuation, Settles, FutureStates
    <2>3. InputsSettled(d)
      BY <1>4 DEF RunContinuation, IInv, KindsApart, InputsSettled
    <2>4. holders' \in [Derived -> SUBSET (Futures \union {Local})]
      BY <2>1 DEF IInv, TypeOK
    <2>5. \A e \in Derived : kind[e] = "WhenAny" => holders'[e] = {}
      BY <2>1 DEF IInv, KindsApart
    <2>6. ReferencesKept(t, done)
      BY <2>1, <2>4, <2>5 DEF ReferencesKept
    <2>. QED  BY <1>1, <1>2, <2>2, <2>3, <2>6, SettlingStep
  <1>. QED  BY <1>3, <1>4

-----------------------------------------------------------------------------
(* Combinators                                                             *)

\* A combinator begins.
LEMMA CombineStep ==
    ASSUME IInv, NEW t \in Threads, NEW k \in Kinds \ {"none"}, NEW d \in Derived,
           NEW D \in SUBSET Futures, Combine(t, k, d, D)
    PROVE  IInv'
  <1>. DEFINE new == Frame("combine", d, D)
  <1>1. /\ new \in Frames /\ new.call = "combine" /\ new.future = d /\ new.todo = D
        /\ d \in Futures
    BY FrameType DEF Frame, Futures
  <1>2. /\ kind[d] = "none" /\ stack[t] = <<>>
        /\ stack \in [Threads -> Seq(Frames)] /\ kind \in [Derived -> Kinds]
        /\ inputs \in [Derived -> SUBSET Futures]
        /\ holders \in [Derived -> SUBSET (Futures \union {Local})]
    BY DEF IInv, TypeOK, Combine, Idle
  <1>3. /\ stack' = [stack EXCEPT ![t] = <<new>>]
        /\ kind' = [kind EXCEPT ![d] = k]
        /\ inputs' = [inputs EXCEPT ![d] = D]
        /\ holders' = [holders EXCEPT ![d] = IF k = "WhenAny" THEN {} ELSE {Local}]
        /\ state' = state /\ continuations' = continuations
    BY DEF Combine
  <1>. HIDE DEF new
  <1>4. /\ CallsIn(stack'[t]) = {new} /\ stack'[t] \in Seq(Frames) /\ Len(stack'[t]) = 1
        /\ CallsIn(stack[t]) = {}
        /\ \A u \in Threads : u # t => stack'[u] = stack[u]
    <2>1. <<>> \in Seq(Frames) /\ CallsIn(<<>>) = {} /\ Len(<<>>) = 0
      <3>1. <<>> \in Seq(Frames) /\ Len(<<>>) = 0
        OBVIOUS
      <3>. QED  BY <3>1, CallsInFrames
    <2>2. /\ <<new>> \o <<>> \in Seq(Frames) /\ Len(<<new>> \o <<>>) = Len(<<>>) + 1
          /\ CallsIn(<<new>> \o <<>>) = {new} \union CallsIn(<<>>)
      BY <1>1, <2>1, CallsInPush
    <2>3. <<new>> \o <<>> = <<new>>
      BY <1>1
    <2>4. CallsIn(<<new>>) = {new} /\ <<new>> \in Seq(Frames) /\ Len(<<new>>) = 1
      BY <2>1, <2>2, <2>3
    <2>. QED  BY <1>2, <1>3, <2>1, <2>4
  <1>5. TypeOK'
    <2>1. stack' \in [Threads -> Seq(Frames)]
      BY <1>2, <1>3, <1>4
    <2>2. /\ kind' \in [Derived -> Kinds] /\ inputs' \in [Derived -> SUBSET Futures]
          /\ holders' \in [Derived -> SUBSET (Futures \union {Local})]
      BY <1>2, <1>3
    <2>. QED  BY <1>3, <2>1, <2>2 DEF IInv, TypeOK, Combine
  <1>6. \A u \in Threads : \A c \in CallsIn(stack'[u]) :
            c \in CallsIn(stack[u]) \/ (u = t /\ c = new)
    BY <1>4
  <1>7. LoopsSettled'
    BY <1>1, <1>3, <1>6 DEF IInv, LoopsSettled, IsSettled
  <1>8. \A u \in Threads : ~Combining(u, d)
    BY <1>1, <1>2 DEF IInv, CombinersApart
  <1>9. \A u \in Threads : \A e \in Futures :
            Combining(u, e)' => Combining(u, e) \/ (u = t /\ e = d)
    BY <1>1, <1>6 DEF Combining
  <1>10. CombinersApart'
    <2>1. ASSUME NEW u \in Threads, NEW i \in 1..Len(stack'[u]), stack'[u][i].call = "combine"
          PROVE  i = Len(stack'[u])
      <3>1. CASE u = t
        <4>1. Len(stack'[u]) = 1
          BY <1>4, <3>1
        <4>. QED  BY <4>1
      <3>2. CASE u # t
        <4>1. stack'[u] = stack[u]
          BY <1>4, <3>2
        <4>. QED  BY <2>1, <4>1 DEF IInv, CombinersApart
      <3>. QED  BY <3>1, <3>2
    <2>2. \A u, v \in Threads : \A e \in Futures : Combining(u, e)' /\ Combining(v, e)' => u = v
      BY <1>8, <1>9 DEF IInv, CombinersApart
    <2>3. ASSUME NEW u \in Threads, NEW e \in Futures, Combining(u, e)'
          PROVE  /\ e \in Derived /\ kind'[e] # "none"
                 /\ kind'[e] \in {"Then", "WhenAll"} => Local \in holders'[e]
      <3>1. CASE e = d
        BY <1>2, <1>3, <3>1
      <3>2. CASE e # d
        <4>1. Combining(u, e)
          BY <1>9, <2>3, <3>2
        <4>2. /\ e \in Derived /\ kind[e] # "none"
              /\ kind[e] \in {"Then", "WhenAll"} => Local \in holders[e]
          BY <4>1 DEF IInv, CombinersApart
        <4>. QED  BY <1>2, <1>3, <3>2, <4>2
      <3>. QED  BY <3>1, <3>2
    <2>4. ASSUME NEW u \in Threads, NEW e \in Futures, NEW f \in Futures, Owes(u, e, f)'
          PROVE  f \in inputs'[e]
      <3>1. PICK c \in CallsIn(stack'[u]) : c.call = "combine" /\ c.future = e /\ f \in c.todo
        BY <2>4 DEF Owes
      <3>2. CASE c = new
        BY <1>1, <1>2, <1>3, <3>1, <3>2
      <3>3. CASE c \in CallsIn(stack[u])
        <4>1. Combining(u, e) /\ Owes(u, e, f)
          BY <3>1, <3>3 DEF Combining, Owes
        <4>2. e \in Derived /\ e # d /\ f \in inputs[e]
          BY <1>8, <4>1 DEF IInv, CombinersApart
        <4>. QED  BY <1>2, <1>3, <4>2
      <3>. QED  BY <1>6, <3>1, <3>2, <3>3
    <2>. QED  BY <2>1, <2>2, <2>3, <2>4 DEF CombinersApart
  <1>11. \A e \in Derived : e # d =>
             kind'[e] = kind[e] /\ inputs'[e] = inputs[e] /\ holders'[e] = holders[e]
    BY <1>2, <1>3
  <1>12. ContinuationsDerived'
    <2>1. ASSUME NEW f \in Futures, NEW i \in 1..Len(continuations[f])
          PROVE  kind'[continuations[f][i]] # "none" /\ f \in inputs'[continuations[f][i]]
      <3>1. continuations[f][i] \in Derived
        BY DEF IInv, TypeOK
      <3>2. kind[continuations[f][i]] # "none" /\ f \in inputs[continuations[f][i]]
        BY DEF IInv, ContinuationsDerived
      <3>. QED  BY <1>2, <1>11, <3>1, <3>2
    <2>. QED  BY <1>3, <2>1 DEF ContinuationsDerived
  <1>13. KindsApart'
    <2>1. /\ kind'[d] = k /\ inputs'[d] = D
          /\ k = "WhenAny" => holders'[d] = {}
      BY <1>2, <1>3
    <2>2. k = "Then" => \E f \in Futures : D = {f}
      BY DEF Combine
    <2>3. state' = state
      BY <1>3
    <2>. QED  BY <1>11, <2>1, <2>2, <2>3 DEF IInv, KindsApart, IsSettled
  <1>14. InputsAccounted'
    <2>1. ASSUME NEW e \in Derived, e # d, kind[e] \in {"Then", "WhenAll"}, NEW f \in inputs[e]
          PROVE  IsSettled(f)' \/ f \in holders'[e] \/ \E u \in Threads : Owes(u, e, f)'
      <3>1. \A u \in Threads : Owes(u, e, f) => Owes(u, e, f)'
        BY <1>4 DEF Owes
      <3>. QED  BY <1>3, <1>11, <2>1, <3>1 DEF IInv, InputsAccounted, IsSettled
    <2>2. \A f \in D : Owes(t, d, f)'
      BY <1>1, <1>4 DEF Owes
    <2>3. inputs'[d] = D
      BY <1>2, <1>3
    <2>. QED  BY <1>11, <2>1, <2>2, <2>3 DEF InputsAccounted
  <1>15. SettledAfterInputs'
    <2>1. ~IsSettled(d)
      BY <1>2 DEF IInv, KindsApart
    <2>. QED  BY <1>3, <1>11, <2>1 DEF IInv, SettledAfterInputs, IsSettled
  <1>. QED  BY <1>5, <1>7, <1>10, <1>12, <1>13, <1>14, <1>15 DEF IInv

\* A combinator registers on one of its inputs.
LEMMA RegisterInputStep ==
    ASSUME IInv, NEW t \in Threads, NEW f \in Futures, RegisterInput(t, f)
    PROVE  IInv'
  <1>1. /\ ~Idle(t) /\ Top(t).call = "combine" /\ f \in Top(t).todo
        /\ UNCHANGED <<alive, kind, inputs>>
    BY DEF RegisterInput, In
  <1>2. /\ stack[t] \in Seq(Frames) /\ stack[t] # <<>>
        /\ Top(t) \in CallsIn(stack[t])
    <2>1. stack[t] \in Seq(Frames) /\ stack[t] # <<>>
      BY <1>1 DEF IInv, TypeOK, Idle
    <2>. QED  BY <2>1, CallsInTail DEF Top
  <1>. PICK d \in Futures : d = Top(t).future
    BY <1>2, CallsInFrames DEF Frames
  <1>3. Combining(t, d) /\ Owes(t, d, f)
    BY <1>1, <1>2 DEF Combining, Owes
  <1>4. d \in Derived /\ kind[d] # "none" /\ (kind[d] \in {"Then", "WhenAll"} => Local \in holders[d])
    BY <1>3 DEF IInv, CombinersApart
  <1>5. \A x \in Futures : Owes(t, x, f) => x = d
    <2>1. ASSUME NEW c \in CallsIn(stack[t]), c.call = "combine"
          PROVE  c = stack[t][Len(stack[t])]
      <3>1. PICK i \in 1..Len(stack[t]) : c = stack[t][i]
        BY DEF CallsIn
      <3>. QED  BY <2>1, <3>1 DEF IInv, CombinersApart
    <2>2. Top(t) = stack[t][Len(stack[t])]
      BY <1>1, <1>2, <2>1
    <2>. QED  BY <2>1, <2>2 DEF Owes
  <1>6. f \in inputs[d]
    BY <1>3 DEF IInv, CombinersApart
  <1>7. Shrinks(t, Registered(t, f), {f})
    BY <1>1, ShrinksRegistered
  <1>8. CASE IsSettled(f) /\ RunContinuation(t, d, f, Registered(t, f)) /\ UNCHANGED continuations
    <2>1. continuations' \in [Futures -> Seq(Derived)] /\ ContinuationsDerived'
      BY <1>1, <1>8 DEF IInv, TypeOK, ContinuationsDerived
    <2>2. alive' \in SUBSET Promises /\ UNCHANGED <<kind, inputs>>
      BY <1>1 DEF IInv, TypeOK
    <2>3. \A x \in {f} : IsSettled(x)
      BY <1>8
    <2>. QED  BY <1>4, <1>6, <1>7, <1>8, <2>1, <2>2, <2>3, RunContinuationStep
  <1>9. CASE /\ ~IsSettled(f) /\ Continue(t, Registered(t, f)) /\ UNCHANGED runs
             /\ continuations' = [continuations EXCEPT ![f] = Append(@, d)]
             /\ holders' = IF kind[d] = "WhenAny" THEN holders
                             ELSE [holders EXCEPT ![d] = @ \union {f}]
    <2>1. continuations' \in [Futures -> Seq(Derived)] /\ ContinuationsDerived'
      <3>1. continuations \in [Futures -> Seq(Derived)]
        BY DEF IInv, TypeOK
      <3>2. \A g \in Futures : continuations'[g] =
                IF g = f THEN Append(continuations[f], d) ELSE continuations[g]
        BY <1>9, <3>1
      <3>3. /\ continuations'[f] \in Seq(Derived)
            /\ \A i \in 1..Len(continuations'[f]) :
                  \/ continuations'[f][i] = d
                  \/ i \in 1..Len(continuations[f]) /\ continuations'[f][i] = continuations[f][i]
        <4>. DEFINE old == continuations[f]
        <4>1. old \in Seq(Derived) /\ continuations'[f] = Append(old, d)
          BY <3>1, <3>2
        <4>. HIDE DEF old
        <4>2. /\ Append(old, d) \in Seq(Derived) /\ Len(Append(old, d)) = Len(old) + 1
              /\ \A i \in 1..Len(old) : Append(old, d)[i] = old[i]
              /\ Append(old, d)[Len(old) + 1] = d
          BY <1>4, <4>1, AppendProperties
        <4>3. ASSUME NEW i \in 1..Len(Append(old, d))
              PROVE  i \in 1..Len(old) \/ i = Len(old) + 1
          BY <4>1, <4>2
        <4>4. \A i \in 1..Len(Append(old, d)) :
                  \/ Append(old, d)[i] = d
                  \/ i \in 1..Len(old) /\ Append(old, d)[i] = old[i]
          BY <4>2, <4>3
        <4>. QED  BY <4>1, <4>2, <4>4 DEF old
      <3>4. continuations' \in [Futures -> Seq(Derived)]
        BY <1>4, <1>9, <3>1
      <3>5. ASSUME NEW g \in Futures, NEW i \in 1..Len(continuations'[g])
            PROVE  kind[continuations'[g][i]] # "none" /\ g \in inputs[continuations'[g][i]]
        BY <1>4, <1>6, <3>2, <3>3 DEF IInv, ContinuationsDerived
      <3>. QED  BY <1>1, <3>4, <3>5 DEF ContinuationsDerived
    <2>2. \A e \in Derived : holders'[e] =
              IF e = d /\ kind[d] # "WhenAny" THEN holders[d] \union {f} ELSE holders[e]
      BY <1>4, <1>9 DEF IInv, TypeOK
    <2>3. holders' \in [Derived -> SUBSET (Futures \union {Local})]
      BY <1>9 DEF IInv, TypeOK
    <2>4. /\ \A e \in Derived : kind[e] = "WhenAny" => holders'[e] = {}
          /\ \A e \in Derived : \A x \in holders[e] : x \in holders'[e]
          /\ kind[d] \in {"Then", "WhenAll"} => f \in holders'[d]
      BY <1>4, <2>2 DEF IInv, KindsApart
    <2>5. \A e \in Derived : e \in Futures
      BY DEF Futures
    <2>6. ~IsSettled(d) \/ InputsSettled(d)
      BY <1>4 DEF IInv, SettledAfterInputs, InputsSettled
    <2>7. Settles(t, d, Registered(t, f)) => IsSettled(d)
      BY <1>3, <1>9 DEF Continue, Settles, Settle, IInv, TypeOK, IsSettled
    <2>8. alive' \in SUBSET Promises /\ runs' \in [Derived -> Nat]
      BY <1>1, <1>9 DEF IInv, TypeOK
    <2>9. ReferencesKept(t, {f})
      <3>1. ASSUME NEW e \in Derived
            PROVE  /\ \A x \in inputs[e] : x \in holders[e] => x \in holders'[e]
                   /\ kind[e] \in {"Then", "WhenAll"} /\ Owes(t, e, f) => f \in holders'[e]
                   /\ Local \in holders[e] => Local \in holders'[e]
        BY <1>5, <2>4, <2>5
      <3>. QED  BY <2>3, <2>4, <3>1 DEF ReferencesKept
    <2>10. Settles(t, d, Registered(t, f)) /\ d \in Derived => InputsSettled(d)
      BY <2>6, <2>7
    <2>11. Continue(t, Registered(t, f)) \/ Settles(t, d, Registered(t, f))
      BY <1>9
    <2>12. UNCHANGED <<kind, inputs>>
      BY <1>1
    <2>. QED  BY <1>3, <1>7, <2>1, <2>8, <2>9, <2>10, <2>11, <2>12, SettlingStep
  <1>. QED  BY <1>8, <1>9 DEF RegisterInput

\* A combinator returns.
LEMMA EndCombineStep ==
    ASSUME IInv, NEW t \in Threads, EndCombine(t)
    PROVE  IInv'
  <1>1. /\ ~Idle(t) /\ Top(t).call = "combine" /\ Top(t).todo = {}
        /\ UNCHANGED <<continuations, alive, kind, inputs, runs>>
        /\ Drop(t, Top(t).future, Local, Tail(stack[t]))
    BY DEF EndCombine, In
  <1>2. /\ stack[t] \in Seq(Frames) /\ stack[t] # <<>>
        /\ Top(t) = stack[t][1] /\ Len(stack[t]) > 0 /\ Top(t) \in Frames
        /\ Tail(stack[t]) \in Seq(Frames) /\ Len(Tail(stack[t])) = Len(stack[t]) - 1
        /\ CallsIn(stack[t]) = {Top(t)} \union CallsIn(Tail(stack[t]))
    <2>1. stack[t] \in Seq(Frames) /\ stack[t] # <<>>
      BY <1>1 DEF IInv, TypeOK, Idle
    <2>. QED  BY <2>1, CallsInTail DEF Top
  <1>3. 1 = Len(stack[t])
    <2>1. 1 \in 1..Len(stack[t]) /\ stack[t][1].call = "combine"
      BY <1>1, <1>2
    <2>. QED  BY <2>1 DEF IInv, CombinersApart
  <1>4. CallsIn(Tail(stack[t])) = {} /\ CallsIn(stack[t]) = {Top(t)}
    <2>1. Len(Tail(stack[t])) = 0
      BY <1>2, <1>3
    <2>2. \A i \in 1..0 : FALSE
      OBVIOUS
    <2>3. CallsIn(Tail(stack[t])) = {}
      BY <2>1, <2>2, Zenon DEF CallsIn
    <2>. QED  BY <1>2, <2>3
  <1>. PICK d \in Futures : d = Top(t).future
    BY <1>2 DEF Frames
  <1>5. Combining(t, d)
    BY <1>1, <1>4 DEF Combining
  <1>6. d \in Derived /\ kind[d] # "none"
    BY <1>5 DEF IInv, CombinersApart
  <1>7. Shrinks(t, Tail(stack[t]), {})
    BY <1>1, ShrinksTail
  <1>8. \A u \in Threads : Combining(u, d) => u = t
    BY <1>5 DEF IInv, CombinersApart
  <1>9. \A u \in Threads : ~Combining(u, d)'
    <2>1. Continue(t, Tail(stack[t])) \/ Settles(t, d, Tail(stack[t]))
      BY <1>1, <1>5, <1>6 DEF Drop, Settles, BrokenUnlessSettled, IInv, TypeOK, FutureStates, IsSettled
    <2>. QED  BY <1>4, <1>5, <1>7, <1>8, <2>1, StackStep
  <1>10. \A u \in Threads : \A x \in Futures : ~Owes(u, d, x)
    <2>1. \A u \in Threads : \A x \in Futures : Owes(u, d, x) => u = t
      BY <1>8 DEF Owes, Combining
    <2>2. \A x \in Futures : ~Owes(t, d, x)
      BY <1>1, <1>4 DEF Owes
    <2>. QED  BY <2>1, <2>2
  <1>11. /\ continuations' \in [Futures -> Seq(Derived)] /\ ContinuationsDerived'
         /\ alive' \in SUBSET Promises /\ runs' \in [Derived -> Nat]
         /\ UNCHANGED <<kind, inputs>>
    BY <1>1 DEF IInv, TypeOK, ContinuationsDerived
  <1>. QED  BY <1>1, <1>6, <1>7, <1>9, <1>10, <1>11, DropStep

-----------------------------------------------------------------------------
(* Promises and loops                                                      *)

LEMMA PromiseStep ==
    ASSUME IInv, NEW t \in Threads, NEW p \in Promises, Fulfil(t, p) \/ DestroyPromise(t, p)
    PROVE  IInv'
  <1>1. Settles(t, p, <<>>) /\ Idle(t)
    BY DEF Fulfil, DestroyPromise, Settles, BrokenUnlessSettled, IInv, TypeOK, IsSettled,
           FutureStates, Futures
  <1>2. p \in Futures /\ p \notin Derived
    BY DEF Futures
  <1>3. Shrinks(t, <<>>, {})
    BY <1>1, ShrinksNothing
  <1>4. /\ continuations' \in [Futures -> Seq(Derived)] /\ ContinuationsDerived'
        /\ alive' \in SUBSET Promises /\ runs' \in [Derived -> Nat]
        /\ holders' \in [Derived -> SUBSET (Futures \union {Local})]
        /\ UNCHANGED <<kind, inputs, holders>>
    BY DEF Fulfil, DestroyPromise, IInv, TypeOK, ContinuationsDerived
  <1>5. \A d \in Derived : kind[d] = "WhenAny" => holders'[d] = {}
    BY <1>4 DEF IInv, KindsApart
  <1>6. ReferencesKept(t, {})
    BY <1>4, <1>5 DEF ReferencesKept
  <1>. QED  BY <1>1, <1>2, <1>3, <1>4, <1>6, SettlingStep

LEMMA LoopStep ==
    ASSUME IInv, NEW t \in Threads, RunNext(t) \/ ClearNext(t) \/ EndLoop(t)
    PROVE  IInv'
  <1>1. /\ ~Idle(t) /\ Top(t).call \in {"run", "clear"}
        /\ UNCHANGED <<alive, kind, inputs>>
    BY DEF RunNext, ClearNext, EndLoop, In
  <1>2. Top(t) \in CallsIn(stack[t]) /\ Top(t) \in Frames
    <2>1. stack[t] \in Seq(Frames) /\ stack[t] # <<>>
      BY <1>1 DEF IInv, TypeOK, Idle
    <2>. QED  BY <2>1, CallsInTail DEF Top
  <1>. PICK f \in Futures, i \in Nat \ {0} : f = Top(t).future /\ i = Top(t).idx
    BY <1>2 DEF Frames
  <1>3. IsSettled(f)
    BY <1>1, <1>2 DEF IInv, LoopsSettled
  <1>4. alive' \in SUBSET Promises
    BY <1>1 DEF IInv, TypeOK
  <1>5. CASE RunNext(t) \/ ClearNext(t)
    <2>1. i \in 1..Len(continuations[f])
      BY <1>3, <1>5 DEF RunNext, ClearNext, IInv, TypeOK
    <2>. PICK d \in Derived : d = continuations[f][i]
      BY <2>1 DEF IInv, TypeOK
    <2>2. kind[d] # "none" /\ f \in inputs[d]
      BY <2>1 DEF IInv, ContinuationsDerived
    <2>3. Shrinks(t, Advanced(t), {})
      BY <1>1, ShrinksAdvanced
    <2>4. continuations' \in [Futures -> Seq(Derived)] /\ ContinuationsDerived'
      BY <1>1, <1>5 DEF RunNext, ClearNext, IInv, TypeOK, ContinuationsDerived
    <2>5. CASE RunNext(t)
      <3>1. RunContinuation(t, d, f, Advanced(t))
        BY <2>5 DEF RunNext
      <3>. QED  BY <1>1, <1>3, <1>4, <2>2, <2>3, <2>4, <3>1, RunContinuationStep
    <2>6. CASE ClearNext(t)
      <3>1. Drop(t, d, f, Advanced(t)) /\ runs' \in [Derived -> Nat]
        BY <2>6 DEF ClearNext, IInv, TypeOK
      <3>. QED  BY <1>1, <1>3, <1>4, <2>2, <2>3, <2>4, <3>1, DropStep
    <2>. QED  BY <1>5, <2>5, <2>6
  <1>6. CASE EndLoop(t)
    <2>1. Shrinks(t, Tail(stack[t]), {}) /\ Continue(t, Tail(stack[t]))
      BY <1>1, <1>6, ShrinksTail DEF EndLoop
    <2>2. continuations' \in [Futures -> Seq(Derived)] /\ ContinuationsDerived'
      <3>1. continuations \in [Futures -> Seq(Derived)]
        BY DEF IInv, TypeOK
      <3>2. continuations' = continuations \/ continuations' = [continuations EXCEPT ![f] = <<>>]
        BY <1>6 DEF EndLoop
      <3>3. \A g \in Futures : continuations'[g] = continuations[g] \/ continuations'[g] = <<>>
        BY <1>3, <3>1, <3>2
      <3>4. continuations' \in [Futures -> Seq(Derived)]
        <4>1. <<>> \in Seq(Derived)
          OBVIOUS
        <4>. QED  BY <1>3, <3>1, <3>2, <4>1
      <3>5. ASSUME NEW g \in Futures, NEW j \in 1..Len(continuations'[g])
            PROVE  kind[continuations'[g][j]] # "none" /\ g \in inputs[continuations'[g][j]]
        <4>1. continuations'[g] = continuations[g]
          BY <3>3, <3>5
        <4>. QED  BY <3>5, <4>1 DEF IInv, ContinuationsDerived
      <3>. QED  BY <1>1, <3>4, <3>5 DEF ContinuationsDerived
    <2>3. /\ holders' = holders /\ runs' \in [Derived -> Nat]
          /\ holders' \in [Derived -> SUBSET (Futures \union {Local})]
      BY <1>6 DEF EndLoop, IInv, TypeOK
    <2>4. \A e \in Derived : kind[e] = "WhenAny" => holders'[e] = {}
      BY <2>3 DEF IInv, KindsApart
    <2>5. Settles(t, f, Tail(stack[t])) /\ f \in Derived => InputsSettled(f)
      BY <1>3 DEF IInv, SettledAfterInputs, InputsSettled
    <2>6. ReferencesKept(t, {})
      BY <2>3, <2>4 DEF ReferencesKept
    <2>. QED  BY <1>1, <1>4, <2>1, <2>2, <2>3, <2>5, <2>6, SettlingStep
  <1>. QED  BY <1>5, <1>6

-----------------------------------------------------------------------------
LEMMA Invariance == Spec => []IInv
  <1>1. IInv /\ [Next]_vars => IInv'
    <2>. SUFFICES ASSUME IInv, [Next]_vars
                  PROVE  IInv'
      OBVIOUS
    <2>1. CASE Next
      BY <2>1, CombineStep, RegisterInputStep, EndCombineStep, PromiseStep, LoopStep DEF Next
    <2>2. CASE UNCHANGED vars
      BY <2>2 DEF vars, IInv, TypeOK, LoopsSettled, CombinersApart, ContinuationsDerived,
                  KindsApart, InputsAccounted, SettledAfterInputs, Combining, Owes, IsSettled
    <2>. QED  BY <2>1, <2>2
  <1>. QED  BY InitInv, <1>1, PTL DEF Spec

\* The futures, their references and the stacks of the threads stay well formed
\* (Future.hpp:45-247).
THEOREM TypeCorrect == Spec => []TypeOK
  <1>1. IInv => TypeOK
    BY DEF IInv
  <1>. QED  BY Invariance, <1>1, PTL

\* WhenAll and Then settle their results after all their inputs, WhenAny after one of
\* its own, whatever settles while the combinator is still registering on them.
THEOREM ResultsAfterInputs == Spec => []SettledAfterInputs
  <1>1. IInv => SettledAfterInputs
    BY DEF IInv
  <1>. QED  BY Invariance, <1>1, PTL

-----------------------------------------------------------------------------
(* The loops over continuations                                            *)

Loops == {"run", "clear"}

\* The call at depth k of stack s, counted from the outermost one: it stays where it is
\* while other calls come and go above it.
At(s, k) == s[Len(s) + 1 - k]

\* At depth k of s is a call c for f; it is a loop that has come to index i.
CallIn(s, k, c, f) == k \in 1..Len(s) /\ At(s, k).call = c /\ At(s, k).future = f

LoopIn(s, k, c, f, i) == CallIn(s, k, c, f) /\ At(s, k).idx = i

\* The continuation of f at index i belongs to d.
Stored(f, i, d) == i \in 1..Len(continuations[f]) /\ continuations[f][i] = d

Waiting(f, d) == \E i \in Nat : Stored(f, i, d)

\* A loop c in s over the continuations of f has yet to come to that of d.
AwaitIn(s, c, f, d) ==
    \E k, i, j \in Nat : LoopIn(s, k, c, f, i) /\ Stored(f, j, d) /\ i <= j

\* A loop in s has destroyed the continuation of d, and perhaps not yet those after it.
DestroyedIn(s, f, d) ==
    \E k, i, j \in Nat : LoopIn(s, k, "clear", f, i) /\ Stored(f, j, d) /\ j < i

Awaits(c, f, d) == \E t \in Threads : AwaitIn(stack[t], c, f, d)

Destroyed(f, d) == \E t \in Threads : DestroyedIn(stack[t], f, d)

Owed(f, d) == \E t \in Threads : Owes(t, d, f)

-----------------------------------------------------------------------------
(* The second inductive invariant                                          *)

\* At most one thread is in a loop over the continuations of a future, once.
OneLoop ==
    \A t, u \in Threads : \A k, l \in Nat : \A b, c \in Loops : \A f \in Futures :
        CallIn(stack[t], k, b, f) /\ CallIn(stack[u], l, c, f) => t = u /\ k = l

\* A result has at most one continuation in each input, none before its combinator
\* registers there, and is no input of itself.
StoredOnce ==
    \A d \in Derived :
        /\ d \notin inputs[d]
        /\ \A f \in Futures :
            /\ \A i, j \in Nat : Stored(f, i, d) /\ Stored(f, j, d) => i = j
            /\ Owed(f, d) => ~Waiting(f, d)

\* The continuations of a result of Then run inside the combinator, or inside the loop
\* over those of its input.
ThenRunsInside ==
    \A t \in Threads : \A k \in Nat : \A d \in Derived :
        kind[d] = "Then" /\ CallIn(stack[t], k, "run", d) =>
            \/ CallIn(stack[t], k - 1, "combine", d)
            \/ \E f \in inputs[d] : CallIn(stack[t], k - 1, "run", f) /\ Waiting(f, d)

\* Continuations are destroyed when their promise is, or all references are gone.
ClearedLast ==
    \A t \in Threads : \A k \in Nat : \A f \in Futures :
        CallIn(stack[t], k, "clear", f) =>
            \/ f \in Promises \ alive
            \/ f \in Derived /\ kind[f] = "Then" /\ holders[f] = {}

\* References to d are held by its combinator and by continuations of its inputs.
HoldersWaiting ==
    \A d \in Derived :
        /\ Local \in holders[d] => \E t \in Threads : Combining(t, d)
        /\ \A f \in Futures : f \in holders[d] => Waiting(f, d) /\ ~Destroyed(f, d)
        /\ kind[d] = "Then" =>
            \A f \in Futures : Waiting(f, d) => f \in holders[d] \/ Destroyed(f, d)

\* The last reference settles the result, that to WhenAll and nothing else.
LastHolderSettles ==
    \A d \in Derived : kind[d] \in {"Then", "WhenAll"} =>
        /\ ~IsSettled(d) => holders[d] # {}
        /\ kind[d] = "WhenAll" /\ IsSettled(d) => holders[d] = {}

\* The callable of Then is still to be called only while the result is not settled.
CallableOnce ==
    \A d \in Derived : kind[d] = "Then" =>
        \A f \in Futures : Awaits("run", f, d) \/ Owed(f, d) => ~IsSettled(d)

\* An input that could settle d is registered on, or is about to be; and once it is
\* settled, a loop is on its way to the continuation of d.
InputsAwaited ==
    \A d \in Derived :
        /\ \A f \in inputs[d] : ~IsSettled(f) => Waiting(f, d) \/ Owed(f, d)
        /\ kind[d] \in {"Then", "WhenAll"} /\ ~IsSettled(d) =>
            \A f \in Futures : f \in holders[d] /\ IsSettled(f) =>
                Awaits("run", f, d) \/ Awaits("clear", f, d)
        /\ kind[d] \in {"Then", "WhenAny"} /\ ~IsSettled(d) =>
            \A f \in inputs[d] : state[f] \in {"Ready", "Exception"} =>
                Awaits("run", f, d) \/ Owed(f, d)

\* Besides, what is not derived yet has no references and was never called.
RInv ==
    /\ OneLoop
    /\ StoredOnce
    /\ ThenRunsInside
    /\ ClearedLast
    /\ HoldersWaiting
    /\ LastHolderSettles
    /\ CallableOnce
    /\ InputsAwaited
    /\ CallableOrBroken
    /\ \A d \in Derived : kind[d] = "none" => runs[d] = 0 /\ holders[d] = {}

-----------------------------------------------------------------------------
(* Calls by their depth                                                    *)

\* A call is added to stack s.
LEMMA CallInPush ==
    ASSUME NEW s \in Seq(Frames), NEW a \in Frames, NEW k, NEW c, NEW f
    PROVE  /\ CallIn(<<a>> \o s, k, c, f) <=>
                  CallIn(s, k, c, f) \/ (k = Len(s) + 1 /\ a.call = c /\ a.future = f)
           /\ \A i : LoopIn(<<a>> \o s, k, c, f, i) <=>
                  \/ LoopIn(s, k, c, f, i)
                  \/ k = Len(s) + 1 /\ a.call = c /\ a.future = f /\ a.idx = i
           /\ CallIn(s, k, c, f) => k # Len(s) + 1
  <1>. DEFINE S == <<a>> \o s
  <1>1. /\ S \in Seq(Frames) /\ Len(S) = Len(s) + 1 /\ Len(s) \in Nat
        /\ S[1] = a
        /\ \A i \in 1..Len(s) : S[i + 1] = s[i]
    BY CallsInPush
  <1>. HIDE DEF S
  <1>2. CASE k \in 1..Len(s)
    <2>1. /\ k \in 1..Len(S) /\ k # Len(s) + 1
          /\ Len(s) + 1 - k \in 1..Len(s) /\ Len(S) + 1 - k = (Len(s) + 1 - k) + 1
      BY <1>1, <1>2
    <2>2. At(S, k) = At(s, k)
      BY <1>1, <2>1 DEF At
    <2>. QED  BY <1>2, <2>1, <2>2 DEF CallIn, LoopIn, S
  <1>3. CASE k = Len(s) + 1
    <2>1. k \in 1..Len(S) /\ k \notin 1..Len(s) /\ Len(S) + 1 - k = 1
      BY <1>1, <1>3
    <2>2. At(S, k) = a
      BY <1>1, <2>1 DEF At
    <2>. QED  BY <1>3, <2>1, <2>2 DEF CallIn, LoopIn, S
  <1>4. CASE k \notin 1..Len(s) /\ k # Len(s) + 1
    <2>1. k \notin 1..Len(S)
      BY <1>1, <1>4
    <2>. QED  BY <1>4, <2>1 DEF CallIn, LoopIn, S
  <1>. QED  BY <1>2, <1>3, <1>4

\* A call that is in s by its depth is one of its calls.
LEMMA CallInCalls ==
    ASSUME NEW s \in Seq(Frames), NEW c, NEW f
    PROVE  /\ \A k : CallIn(s, k, c, f) => \E a \in CallsIn(s) : a.call = c /\ a.future = f
           /\ \A a \in CallsIn(s) : a.call = c /\ a.future = f =>
                  \E k \in 1..Len(s) : CallIn(s, k, c, f)
  <1>1. ASSUME NEW k, CallIn(s, k, c, f)
        PROVE  \E a \in CallsIn(s) : a.call = c /\ a.future = f
    <2>1. Len(s) + 1 - k \in 1..Len(s)
      BY <1>1 DEF CallIn
    <2>. QED  BY <1>1, <2>1 DEF CallIn, At, CallsIn
  <1>2. ASSUME NEW a \in CallsIn(s), a.call = c, a.future = f
        PROVE  \E k \in 1..Len(s) : CallIn(s, k, c, f)
    <2>1. PICK i \in 1..Len(s) : a = s[i]
      BY DEF CallsIn
    <2>2. Len(s) + 1 - i \in 1..Len(s) /\ Len(s) + 1 - (Len(s) + 1 - i) = i
      OBVIOUS
    <2>. QED  BY <1>2, <2>1, <2>2 DEF CallIn, At
  <1>. QED  BY <1>1, <1>2

-----------------------------------------------------------------------------
(* What a step does to the loops of its thread                             *)

\* Thread t goes on with rest: its calls stay where they are but for the innermost one.
Keeps(t, rest) ==
    /\ rest \in Seq(Frames) /\ Len(rest) <= Len(stack[t])
    /\ \A k \in Nat : \A c, f :
        /\ CallIn(rest, k, c, f) => CallIn(stack[t], k, c, f)
        /\ CallIn(stack[t], k, c, f) /\ k <= Len(rest) => CallIn(rest, k, c, f)

\* Its loops come past the continuations in H, given as <<loop, future, result>>.
Proceeds(t, rest, H) ==
    /\ Keeps(t, rest)
    /\ \A c \in Loops : \A f \in Futures : \A d \in Derived :
        /\ AwaitIn(stack[t], c, f, d) => AwaitIn(rest, c, f, d) \/ <<c, f, d>> \in H
        /\ AwaitIn(rest, c, f, d) => AwaitIn(stack[t], c, f, d) /\ <<c, f, d>> \notin H
    /\ \A f \in Futures : \A d \in Derived :
        DestroyedIn(rest, f, d) <=> DestroyedIn(stack[t], f, d) \/ <<"clear", f, d>> \in H
    /\ \A h \in H : \E k \in Nat : CallIn(stack[t], k, h[1], h[2])

LEMMA CallInNothing ==
    ASSUME NEW k, NEW c, NEW f
    PROVE  ~CallIn(<<>>, k, c, f)
  BY DEF CallIn

\* The stack of a thread in a call.
LEMMA StackOf ==
    ASSUME IInv, NEW t \in Threads, ~Idle(t)
    PROVE  /\ stack[t] \in Seq(Frames) /\ Tail(stack[t]) \in Seq(Frames) /\ Top(t) \in Frames
           /\ Len(stack[t]) \in Nat /\ Len(Tail(stack[t])) \in Nat
           /\ Len(stack[t]) = Len(Tail(stack[t])) + 1
           /\ stack[t] = <<Top(t)>> \o Tail(stack[t])
           /\ Top(t) \in CallsIn(stack[t])
           /\ CallIn(stack[t], Len(stack[t]), Top(t).call, Top(t).future)
           /\ LoopIn(stack[t], Len(stack[t]), Top(t).call, Top(t).future, Top(t).idx)
  <1>1. stack[t] \in Seq(Frames) /\ stack[t] # <<>>
    BY DEF IInv, TypeOK, Idle
  <1>2. /\ Tail(stack[t]) \in Seq(Frames) /\ Top(t) \in Frames
        /\ Len(Tail(stack[t])) = Len(stack[t]) - 1 /\ Len(stack[t]) > 0
        /\ stack[t] = <<Top(t)>> \o Tail(stack[t])
        /\ Top(t) \in CallsIn(stack[t])
    BY <1>1, CallsInTail DEF Top
  <1>3. Len(stack[t]) \in Nat /\ Len(stack[t]) = Len(Tail(stack[t])) + 1
        /\ Len(Tail(stack[t])) \in Nat
    BY <1>1, <1>2
  <1>4. /\ CallIn(stack[t], Len(stack[t]), Top(t).call, Top(t).future)
        /\ LoopIn(stack[t], Len(stack[t]), Top(t).call, Top(t).future, Top(t).idx)
    <2>. DEFINE tail == Tail(stack[t])
    <2>1. tail \in Seq(Frames) /\ stack[t] = <<Top(t)>> \o tail /\ Len(stack[t]) = Len(tail) + 1
      BY <1>2, <1>3
    <2>. HIDE DEF tail
    <2>2. \A k, c, f, i :
              /\ k = Len(tail) + 1 /\ Top(t).call = c /\ Top(t).future = f =>
                     CallIn(stack[t], k, c, f)
              /\ k = Len(tail) + 1 /\ Top(t).call = c /\ Top(t).future = f /\ Top(t).idx = i =>
                     LoopIn(stack[t], k, c, f, i)
      BY <1>2, <2>1, CallInPush
    <2>. QED  BY <2>1, <2>2
  <1>. QED  BY <1>1, <1>2, <1>3, <1>4

LEMMA ProceedsNothing ==
    ASSUME IInv, NEW t \in Threads, Idle(t)
    PROVE  Proceeds(t, <<>>, {})
  BY DEF Idle, Proceeds, Keeps

\* The innermost call of t returns: a combinator, or a loop at its end.
LEMMA ProceedsTail ==
    ASSUME IInv, NEW t \in Threads, ~Idle(t),
           \/ Top(t).call = "combine"
           \/ Top(t).call = "run" /\ Top(t).idx > Len(continuations[Top(t).future])
    PROVE  Proceeds(t, Tail(stack[t]), {})
  <1>. DEFINE tail == Tail(stack[t])
  <1>1. /\ stack[t] \in Seq(Frames) /\ tail \in Seq(Frames) /\ Top(t) \in Frames
        /\ Len(stack[t]) \in Nat /\ Len(tail) \in Nat /\ Len(stack[t]) = Len(tail) + 1
        /\ stack[t] = <<Top(t)>> \o tail
    BY StackOf
  <1>. HIDE DEF tail
  <1>2. \A k, c, f :
            /\ CallIn(stack[t], k, c, f) <=>
                  CallIn(tail, k, c, f) \/ (k = Len(stack[t]) /\ Top(t).call = c /\ Top(t).future = f)
            /\ \A i : LoopIn(stack[t], k, c, f, i) <=>
                  \/ LoopIn(tail, k, c, f, i)
                  \/ /\ k = Len(stack[t]) /\ Top(t).call = c /\ Top(t).future = f
                     /\ Top(t).idx = i
    BY <1>1, CallInPush
  <1>3. \A c \in Loops : \A f \in Futures : \A d \in Derived :
            AwaitIn(stack[t], c, f, d) <=> AwaitIn(tail, c, f, d)
    <2>1. ASSUME NEW c \in Loops, NEW f \in Futures, NEW d \in Derived, NEW j \in Nat, Stored(f, j, d),
                 Top(t).call = c, Top(t).future = f, NEW i \in Nat, Top(t).idx = i, i <= j
          PROVE  FALSE
      BY <2>1 DEF Loops, Stored, IInv, TypeOK
    <2>. QED  BY <1>2, <2>1, ZenonT(60) DEF AwaitIn
  <1>4. \A f \in Futures : \A d \in Derived :
            DestroyedIn(stack[t], f, d) <=> DestroyedIn(tail, f, d)
    <2>1. \A k, f, i : LoopIn(stack[t], k, "clear", f, i) <=> LoopIn(tail, k, "clear", f, i)
      BY <1>2
    <2>. QED  BY <2>1 DEF DestroyedIn
  <1>5. \A k \in Nat : \A c, f :
            /\ CallIn(tail, k, c, f) => CallIn(stack[t], k, c, f)
            /\ CallIn(stack[t], k, c, f) /\ k <= Len(tail) => CallIn(tail, k, c, f)
    BY <1>1, <1>2
  <1>6. Proceeds(t, tail, {})
    BY <1>1, <1>3, <1>4, <1>5 DEF Proceeds, Keeps
  <1>. QED  BY <1>6 DEF tail

\* A combinator has registered on one more input.
LEMMA ProceedsRegistered ==
    ASSUME IInv, NEW t \in Threads, ~Idle(t), Top(t).call = "combine", NEW x \in Futures
    PROVE  Proceeds(t, Registered(t, x), {})
  <1>. DEFINE tail == Tail(stack[t])
              next == [Top(t) EXCEPT !.todo = @ \ {x}]
              rest == <<next>> \o tail
  <1>1. /\ stack[t] \in Seq(Frames) /\ tail \in Seq(Frames) /\ Top(t) \in Frames
        /\ Len(stack[t]) \in Nat /\ Len(tail) \in Nat /\ Len(stack[t]) = Len(tail) + 1
        /\ stack[t] = <<Top(t)>> \o tail
    BY StackOf
  <1>2. next \in Frames /\ next.call = "combine" /\ next.future = Top(t).future
    BY <1>1 DEF Frames
  <1>. HIDE DEF tail, next
  <1>3. rest \in Seq(Frames) /\ Len(rest) = Len(stack[t])
    BY <1>1, <1>2, CallsInPush
  <1>4. \A k, c, f :
            /\ CallIn(stack[t], k, c, f) <=>
                  CallIn(tail, k, c, f) \/ (k = Len(tail) + 1 /\ "combine" = c /\ next.future = f)
            /\ c # "combine" => \A i : LoopIn(stack[t], k, c, f, i) <=> LoopIn(tail, k, c, f, i)
    BY <1>1, <1>2, CallInPush
  <1>5. \A k, c, f :
            /\ CallIn(rest, k, c, f) <=>
                  CallIn(tail, k, c, f) \/ (k = Len(tail) + 1 /\ "combine" = c /\ next.future = f)
            /\ c # "combine" => \A i : LoopIn(rest, k, c, f, i) <=> LoopIn(tail, k, c, f, i)
    BY <1>1, <1>2, CallInPush
  <1>. HIDE DEF rest
  <1>6. \A c \in Loops : \A f \in Futures : \A d \in Derived :
            AwaitIn(stack[t], c, f, d) <=> AwaitIn(rest, c, f, d)
    BY <1>4, <1>5 DEF AwaitIn, Loops
  <1>7. \A f \in Futures : \A d \in Derived :
            DestroyedIn(stack[t], f, d) <=> DestroyedIn(rest, f, d)
    <2>1. \A k, f, i : LoopIn(stack[t], k, "clear", f, i) <=> LoopIn(rest, k, "clear", f, i)
      BY <1>4, <1>5
    <2>. QED  BY <2>1 DEF DestroyedIn
  <1>8. \A k \in Nat : \A c, f : CallIn(rest, k, c, f) <=> CallIn(stack[t], k, c, f)
    BY <1>4, <1>5
  <1>9. Proceeds(t, rest, {})
    BY <1>1, <1>3, <1>6, <1>7, <1>8 DEF Proceeds, Keeps
  <1>. QED  BY <1>9 DEF rest, next, tail, Registered

\* A loop has come past the continuation of e.
LEMMA ProceedsAdvanced ==
    ASSUME IInv, OneLoop, StoredOnce, NEW t \in Threads, ~Idle(t), Top(t).call \in Loops,
           NEW e \in Derived, Stored(Top(t).future, Top(t).idx, e)
    PROVE  Proceeds(t, Advanced(t), {<<Top(t).call, Top(t).future, e>>})
  <1>. DEFINE tail == Tail(stack[t])
              next == [Top(t) EXCEPT !.idx = @ + 1]
              rest == <<next>> \o tail
              K == Len(stack[t])
              c0 == Top(t).call
              f0 == Top(t).future
              i0 == Top(t).idx
              H == {<<c0, f0, e>>}
  <1>1. /\ stack[t] \in Seq(Frames) /\ tail \in Seq(Frames) /\ Top(t) \in Frames
        /\ K \in Nat /\ Len(tail) \in Nat /\ K = Len(tail) + 1
        /\ stack[t] = <<Top(t)>> \o tail
    BY StackOf
  <1>2. /\ next \in Frames /\ next.call = c0 /\ next.future = f0 /\ next.idx = i0 + 1
        /\ i0 \in Nat /\ f0 \in Futures /\ c0 \in Loops /\ Stored(f0, i0, e)
    BY <1>1 DEF Frames
  <1>. HIDE DEF tail, next
  <1>3. rest \in Seq(Frames) /\ Len(rest) = K
    BY <1>1, <1>2, CallsInPush
  <1>4. \A k, c, f :
            /\ CallIn(stack[t], k, c, f) <=>
                  CallIn(tail, k, c, f) \/ (k = K /\ c0 = c /\ f0 = f)
            /\ \A i : LoopIn(stack[t], k, c, f, i) <=>
                  LoopIn(tail, k, c, f, i) \/ (k = K /\ c0 = c /\ f0 = f /\ i0 = i)
            /\ CallIn(tail, k, c, f) => k # K
    BY <1>1, <1>2, CallInPush
  <1>. HIDE DEF K, c0, f0, i0
  <1>5. \A k, c, f :
            /\ CallIn(rest, k, c, f) <=>
                  CallIn(tail, k, c, f) \/ (k = K /\ c0 = c /\ f0 = f)
            /\ \A i : LoopIn(rest, k, c, f, i) <=>
                  LoopIn(tail, k, c, f, i) \/ (k = K /\ c0 = c /\ f0 = f /\ i0 + 1 = i)
    <2>1. \A k, c, f :
              /\ CallIn(rest, k, c, f) <=>
                    \/ CallIn(tail, k, c, f)
                    \/ k = Len(tail) + 1 /\ next.call = c /\ next.future = f
              /\ \A i : LoopIn(rest, k, c, f, i) <=>
                    \/ LoopIn(tail, k, c, f, i)
                    \/ k = Len(tail) + 1 /\ next.call = c /\ next.future = f /\ next.idx = i
      BY <1>1, <1>2, CallInPush
    <2>. QED  BY <1>1, <1>2, <2>1
  <1>6. ASSUME NEW k \in Nat, NEW c \in Loops, CallIn(tail, k, c, f0)
        PROVE  FALSE
    <2>1. CallIn(stack[t], k, c, f0) /\ CallIn(stack[t], K, c0, f0) /\ k # K
      BY <1>4, <1>6
    <2>. QED  BY <1>1, <1>2, <2>1 DEF OneLoop
  <1>7. \A j \in Nat : \A d \in Derived : Stored(f0, j, d) => (j = i0 <=> d = e)
    <2>1. \A d \in Derived : Stored(f0, i0, d) => d = e
      BY <1>2 DEF Stored
    <2>. QED  BY <1>2, <2>1 DEF StoredOnce
  <1>. HIDE DEF rest
  <1>8. ASSUME NEW c \in Loops, NEW f \in Futures, NEW d \in Derived, AwaitIn(stack[t], c, f, d)
        PROVE  AwaitIn(rest, c, f, d) \/ <<c, f, d>> \in H
    <2>1. PICK k, i, j \in Nat : LoopIn(stack[t], k, c, f, i) /\ Stored(f, j, d) /\ i <= j
      BY <1>8 DEF AwaitIn
    <2>2. CASE LoopIn(tail, k, c, f, i)
      BY <1>5, <2>1, <2>2 DEF AwaitIn
    <2>3. CASE k = K /\ c0 = c /\ f0 = f /\ i0 = i
      <3>1. CASE j = i0
        BY <1>7, <2>1, <2>3, <3>1
      <3>2. CASE j # i0
        <4>1. LoopIn(rest, k, c, f, i0 + 1) /\ i0 + 1 \in Nat /\ i0 + 1 <= j
          BY <1>2, <1>5, <2>1, <2>3, <3>2
        <4>. QED  BY <2>1, <4>1 DEF AwaitIn
      <3>. QED  BY <3>1, <3>2
    <2>. QED  BY <1>4, <2>1, <2>2, <2>3
  <1>9. ASSUME NEW c \in Loops, NEW f \in Futures, NEW d \in Derived, AwaitIn(rest, c, f, d)
        PROVE  AwaitIn(stack[t], c, f, d) /\ <<c, f, d>> \notin H
    <2>1. PICK k, i, j \in Nat : LoopIn(rest, k, c, f, i) /\ Stored(f, j, d) /\ i <= j
      BY <1>9 DEF AwaitIn
    <2>2. CASE LoopIn(tail, k, c, f, i)
      <3>1. CallIn(tail, k, c, f)
        BY <2>2 DEF LoopIn
      <3>2. f # f0
        BY <1>6, <3>1
      <3>. QED  BY <1>4, <2>1, <2>2, <3>2 DEF AwaitIn
    <2>3. CASE k = K /\ c0 = c /\ f0 = f /\ i0 + 1 = i
      <3>1. LoopIn(stack[t], k, c, f, i0) /\ i0 <= j /\ j # i0
        BY <1>2, <1>4, <2>1, <2>3
      <3>2. d # e
        BY <1>7, <2>1, <2>3, <3>1
      <3>. QED  BY <1>2, <2>1, <3>1, <3>2 DEF AwaitIn
    <2>. QED  BY <1>5, <2>1, <2>2, <2>3
  <1>10. ASSUME NEW f \in Futures, NEW d \in Derived, DestroyedIn(rest, f, d)
         PROVE  DestroyedIn(stack[t], f, d) \/ <<"clear", f, d>> \in H
    <2>1. PICK k, i, j \in Nat : LoopIn(rest, k, "clear", f, i) /\ Stored(f, j, d) /\ j < i
      BY <1>10 DEF DestroyedIn
    <2>2. CASE LoopIn(tail, k, "clear", f, i)
      BY <1>4, <2>1, <2>2 DEF DestroyedIn
    <2>3. CASE k = K /\ c0 = "clear" /\ f0 = f /\ i0 + 1 = i
      <3>1. CASE j = i0
        BY <1>7, <2>1, <2>3, <3>1
      <3>2. CASE j # i0
        <4>1. LoopIn(stack[t], k, "clear", f, i0) /\ j < i0
          BY <1>2, <1>4, <2>1, <2>3, <3>2
        <4>. QED  BY <1>2, <2>1, <4>1 DEF DestroyedIn
      <3>. QED  BY <3>1, <3>2
    <2>. QED  BY <1>5, <2>1, <2>2, <2>3
  <1>11. ASSUME NEW f \in Futures, NEW d \in Derived,
                DestroyedIn(stack[t], f, d) \/ <<"clear", f, d>> \in H
         PROVE  DestroyedIn(rest, f, d)
    <2>1. CASE <<"clear", f, d>> \in H
      <3>1. c0 = "clear" /\ f0 = f /\ d = e
        BY <2>1
      <3>2. LoopIn(rest, K, "clear", f, i0 + 1) /\ i0 + 1 \in Nat /\ i0 < i0 + 1
        BY <1>2, <1>5, <3>1
      <3>3. K \in Nat /\ Stored(f, i0, d)
        BY <1>1, <1>2, <3>1
      <3>. QED  BY <1>2, <3>2, <3>3 DEF DestroyedIn
    <2>2. CASE DestroyedIn(stack[t], f, d)
      <3>1. PICK k, i, j \in Nat : LoopIn(stack[t], k, "clear", f, i) /\ Stored(f, j, d) /\ j < i
        BY <2>2 DEF DestroyedIn
      <3>2. CASE LoopIn(tail, k, "clear", f, i)
        BY <1>5, <3>1, <3>2 DEF DestroyedIn
      <3>3. CASE k = K /\ c0 = "clear" /\ f0 = f /\ i0 = i
        <4>1. LoopIn(rest, k, "clear", f, i0 + 1) /\ i0 + 1 \in Nat /\ j < i0 + 1
          BY <1>2, <1>5, <3>1, <3>3
        <4>. QED  BY <3>1, <4>1 DEF DestroyedIn
      <3>. QED  BY <1>4, <3>1, <3>2, <3>3
    <2>. QED  BY <1>11, <2>1, <2>2
  <1>12. \A k \in Nat : \A c, f : CallIn(rest, k, c, f) <=> CallIn(stack[t], k, c, f)
    BY <1>4, <1>5
  <1>13. \A h \in H : \E k \in Nat : CallIn(stack[t], k, h[1], h[2])
    BY <1>1, <1>4
  <1>14. Len(rest) <= Len(stack[t])
    BY <1>1, <1>3 DEF K
  <1>15. Proceeds(t, rest, H)
    BY <1>3, <1>8, <1>9, <1>10, <1>11, <1>12, <1>13, <1>14 DEF Proceeds, Keeps
  <1>. QED  BY <1>15 DEF rest, next, tail, Advanced, c0, f0

\* No thread is in a loop over the continuations of g.
NoLoop(g) == \A u \in Threads : \A k \in Nat : \A c \in Loops : ~CallIn(stack[u], k, c, g)

\* Thread t goes on with rest, perhaps below the loops in N, given as <<loop, future>>.
Pushes(t, rest, N) ==
    \/ N = {} /\ stack' = [stack EXCEPT ![t] = rest]
    \/ \E c \in Loops, g \in Futures :
        /\ N = {<<c, g>>} /\ NoLoop(g)
        /\ stack' = [stack EXCEPT ![t] = <<Frame(c, g, {})>> \o rest]

\* A call for d at the top of rest is the place for the loop over the continuations of d,
\* the result of Then.
InsideFor(rest, d) ==
    \/ CallIn(rest, Len(rest), "combine", d)
    \/ \E f \in inputs[d] : CallIn(rest, Len(rest), "run", f) /\ Waiting(f, d)

LEMMA CallsAfter ==
    ASSUME IInv, NEW t \in Threads, NEW rest \in Seq(Frames), NEW N, Pushes(t, rest, N)
    PROVE  /\ \A u \in Threads : u # t => stack'[u] = stack[u]
           /\ \A k, c, f : CallIn(stack'[t], k, c, f) <=>
                  CallIn(rest, k, c, f) \/ (k = Len(rest) + 1 /\ <<c, f>> \in N)
           /\ \A k, c, f, i : LoopIn(stack'[t], k, c, f, i) <=>
                  LoopIn(rest, k, c, f, i) \/ (k = Len(rest) + 1 /\ <<c, f>> \in N /\ i = 1)
           /\ \A h \in N : h[1] \in Loops /\ h[2] \in Futures /\ h = <<h[1], h[2]>> /\ NoLoop(h[2])
  <1>1. stack \in [Threads -> Seq(Frames)]
    BY DEF IInv, TypeOK
  <1>2. CASE N = {} /\ stack' = [stack EXCEPT ![t] = rest]
    <2>1. stack'[t] = rest /\ \A u \in Threads : u # t => stack'[u] = stack[u]
      BY <1>1, <1>2
    <2>. QED  BY <1>2, <2>1
  <1>3. ASSUME NEW c0 \in Loops, NEW g \in Futures, N = {<<c0, g>>}, NoLoop(g),
               stack' = [stack EXCEPT ![t] = <<Frame(c0, g, {})>> \o rest]
        PROVE  /\ \A u \in Threads : u # t => stack'[u] = stack[u]
               /\ \A k, c, f : CallIn(stack'[t], k, c, f) <=>
                      CallIn(rest, k, c, f) \/ (k = Len(rest) + 1 /\ <<c, f>> \in N)
               /\ \A k, c, f, i : LoopIn(stack'[t], k, c, f, i) <=>
                      LoopIn(rest, k, c, f, i) \/ (k = Len(rest) + 1 /\ <<c, f>> \in N /\ i = 1)
               /\ \A h \in N :
                      h[1] \in Loops /\ h[2] \in Futures /\ h = <<h[1], h[2]>> /\ NoLoop(h[2])
    <2>. DEFINE new == Frame(c0, g, {})
    <2>1. new \in Frames /\ new.call = c0 /\ new.future = g /\ new.idx = 1
      BY FrameType DEF Frame, Loops
    <2>. HIDE DEF new
    <2>2. stack'[t] = <<new>> \o rest /\ \A u \in Threads : u # t => stack'[u] = stack[u]
      BY <1>1, <1>3 DEF new
    <2>3. \A k, c, f :
              /\ CallIn(<<new>> \o rest, k, c, f) <=>
                    CallIn(rest, k, c, f) \/ (k = Len(rest) + 1 /\ c0 = c /\ g = f)
              /\ \A i : LoopIn(<<new>> \o rest, k, c, f, i) <=>
                    LoopIn(rest, k, c, f, i) \/ (k = Len(rest) + 1 /\ c0 = c /\ g = f /\ i = 1)
      BY <2>1, CallInPush
    <2>4. \A c, f : <<c, f>> \in N <=> c0 = c /\ g = f
      BY <1>3
    <2>5. \A h \in N : h[1] \in Loops /\ h[2] \in Futures /\ h = <<h[1], h[2]>> /\ NoLoop(h[2])
      BY <1>3
    <2>6. \A k, c, f : CallIn(stack'[t], k, c, f) <=>
              CallIn(rest, k, c, f) \/ (k = Len(rest) + 1 /\ <<c, f>> \in N)
      <3>1. \A k, c, f : CallIn(<<new>> \o rest, k, c, f) <=>
                CallIn(rest, k, c, f) \/ (k = Len(rest) + 1 /\ c0 = c /\ g = f)
        BY <2>3
      <3>2. stack'[t] = <<new>> \o rest
        BY <2>2
      <3>3. ASSUME NEW k, NEW c, NEW f
            PROVE  CallIn(stack'[t], k, c, f) <=>
                      CallIn(rest, k, c, f) \/ (k = Len(rest) + 1 /\ <<c, f>> \in N)
        <4>1. <<c, f>> \in N <=> c0 = c /\ g = f
          BY <2>4, Zenon
        <4>2. CallIn(<<new>> \o rest, k, c, f) <=>
                  CallIn(rest, k, c, f) \/ (k = Len(rest) + 1 /\ c0 = c /\ g = f)
          BY <3>1, Zenon
        <4>. QED  BY <3>2, <4>1, <4>2, Zenon
      <3>. QED  BY <3>3, Zenon
    <2>7. \A k, c, f, i : LoopIn(stack'[t], k, c, f, i) <=>
              LoopIn(rest, k, c, f, i) \/ (k = Len(rest) + 1 /\ <<c, f>> \in N /\ i = 1)
      <3>1. \A k, c, f, i : LoopIn(<<new>> \o rest, k, c, f, i) <=>
                LoopIn(rest, k, c, f, i) \/ (k = Len(rest) + 1 /\ c0 = c /\ g = f /\ i = 1)
        BY <2>3
      <3>. QED  BY <2>2, <2>4, <3>1, Zenon
    <2>. QED  BY <2>2, <2>5, <2>6, <2>7
  <1>. QED  BY <1>2, <1>3 DEF Pushes

LEMMA LoopsStep ==
    ASSUME IInv, OneLoop, NEW t \in Threads, NEW rest, NEW H, Proceeds(t, rest, H),
           NEW N, Pushes(t, rest, N), UNCHANGED continuations
    PROVE  /\ \A f, d : Waiting(f, d)' <=> Waiting(f, d)
           /\ \A c \in Loops : \A f \in Futures : \A d \in Derived :
                 /\ Awaits(c, f, d)' => Awaits(c, f, d) \/ (<<c, f>> \in N /\ Waiting(f, d))
                 /\ Awaits(c, f, d) => Awaits(c, f, d)' \/ <<c, f, d>> \in H
                 /\ <<c, f, d>> \in H => ~Awaits(c, f, d)'
                 /\ <<c, f>> \in N /\ Waiting(f, d) => Awaits(c, f, d)'
           /\ \A f \in Futures : \A d \in Derived :
                 Destroyed(f, d)' <=> Destroyed(f, d) \/ <<"clear", f, d>> \in H
  <1>1. rest \in Seq(Frames)
    BY DEF Proceeds, Keeps
  <1>2. /\ \A u \in Threads : u # t => stack'[u] = stack[u]
        /\ \A k, c, f, i : LoopIn(stack'[t], k, c, f, i) <=>
              LoopIn(rest, k, c, f, i) \/ (k = Len(rest) + 1 /\ <<c, f>> \in N /\ i = 1)
        /\ \A h \in N : h[1] \in Loops /\ h[2] \in Futures /\ h = <<h[1], h[2]>> /\ NoLoop(h[2])
    BY <1>1, CallsAfter
  <1>3. \A f, d, i : Stored(f, i, d) => i \in Nat /\ 1 <= i
    BY DEF Stored, IInv, TypeOK
  <1>4. \A f, d, i : Stored(f, i, d)' <=> Stored(f, i, d)
    BY DEF Stored
  <1>5. \A c, f, d :
            AwaitIn(stack'[t], c, f, d) <=> AwaitIn(rest, c, f, d) \/ (<<c, f>> \in N /\ Waiting(f, d))
    <2>1. Len(rest) + 1 \in Nat
      BY <1>1
    <2>. QED  BY <1>2, <1>3, <2>1 DEF AwaitIn, Waiting
  <1>6. \A f, d : DestroyedIn(stack'[t], f, d) <=> DestroyedIn(rest, f, d)
    <2>1. ASSUME NEW j \in Nat, 1 <= j, j < 1
          PROVE  FALSE
      BY <2>1
    <2>. QED  BY <1>2, <1>3, <2>1 DEF DestroyedIn
  <1>7. \A u \in Threads : \A c, f, d :
            /\ AwaitIn(stack[u], c, f, d)' <=> AwaitIn(stack'[u], c, f, d)
            /\ DestroyedIn(stack[u], f, d)' <=> DestroyedIn(stack'[u], f, d)
    BY <1>4 DEF AwaitIn, DestroyedIn
  <1>8. ASSUME NEW c \in Loops, NEW f \in Futures, NEW d \in Derived, <<c, f, d>> \in H
        PROVE  ~Awaits(c, f, d)'
    <2>1. PICK k \in Nat : CallIn(stack[t], k, c, f)
      BY <1>8 DEF Proceeds, Keeps
    <2>2. \A u \in Threads : u # t => ~AwaitIn(stack'[u], c, f, d)
      BY <1>2, <2>1 DEF OneLoop, AwaitIn, LoopIn
    <2>3. <<c, f>> \notin N
      BY <1>2, <2>1 DEF NoLoop
    <2>4. ~AwaitIn(stack'[t], c, f, d)
      BY <1>5, <1>8, <2>3 DEF Proceeds, Keeps
    <2>. QED  BY <1>7, <2>2, <2>4 DEF Awaits
  <1>9. ASSUME NEW c \in Loops, NEW f \in Futures, NEW d \in Derived
        PROVE  /\ Awaits(c, f, d)' => Awaits(c, f, d) \/ (<<c, f>> \in N /\ Waiting(f, d))
               /\ Awaits(c, f, d) => Awaits(c, f, d)' \/ <<c, f, d>> \in H
               /\ <<c, f>> \in N /\ Waiting(f, d) => Awaits(c, f, d)'
    <2>1. /\ AwaitIn(stack[t], c, f, d) => AwaitIn(rest, c, f, d) \/ <<c, f, d>> \in H
          /\ AwaitIn(rest, c, f, d) => AwaitIn(stack[t], c, f, d)
      BY DEF Proceeds, Keeps
    <2>. QED  BY <1>2, <1>5, <1>7, <2>1 DEF Awaits
  <1>10. ASSUME NEW f \in Futures, NEW d \in Derived
         PROVE  Destroyed(f, d)' <=> Destroyed(f, d) \/ <<"clear", f, d>> \in H
    <2>1. DestroyedIn(rest, f, d) <=> DestroyedIn(stack[t], f, d) \/ <<"clear", f, d>> \in H
      BY DEF Proceeds, Keeps
    <2>. QED  BY <1>2, <1>6, <1>7, <2>1 DEF Destroyed
  <1>11. \A f, d : Waiting(f, d)' <=> Waiting(f, d)
    BY <1>4 DEF Waiting
  <1>. QED  BY <1>8, <1>9, <1>10, <1>11

\* There is still one loop for a future, and those of Then stay where they belong.
LEMMA LoopsApart ==
    ASSUME IInv, OneLoop, ThenRunsInside, NEW t \in Threads, NEW rest, Keeps(t, rest),
           NEW N, Pushes(t, rest, N), UNCHANGED <<kind, inputs>>,
           \A u \in Threads : \A k : \A f \in Futures : \A d :
               CallIn(stack'[u], k, "run", f) /\ Waiting(f, d) => Waiting(f, d)',
           \A d \in Derived : kind[d] = "Then" /\ <<"run", d>> \in N => InsideFor(rest, d)
    PROVE  /\ OneLoop' /\ ThenRunsInside'
           /\ \A u \in Threads : \A k \in Nat : \A c \in Loops : \A f \in Futures :
                 CallIn(stack'[u], k, c, f) => CallIn(stack[u], k, c, f) \/ <<c, f>> \in N
  <1>1. rest \in Seq(Frames)
    BY DEF Keeps
  <1>2. /\ \A u \in Threads : u # t => stack'[u] = stack[u]
        /\ \A k, c, f : CallIn(stack'[t], k, c, f) <=>
              CallIn(rest, k, c, f) \/ (k = Len(rest) + 1 /\ <<c, f>> \in N)
        /\ \A h \in N : h[1] \in Loops /\ h[2] \in Futures /\ h = <<h[1], h[2]>> /\ NoLoop(h[2])
    BY <1>1, CallsAfter
  <1>3. \A k \in Nat : \A c, f :
            /\ CallIn(rest, k, c, f) => CallIn(stack[t], k, c, f)
            /\ CallIn(stack[t], k, c, f) /\ k <= Len(rest) => CallIn(rest, k, c, f)
    BY DEF Keeps
  <1>4. Len(rest) \in Nat /\ \A k, c, f : CallIn(rest, k, c, f) => k \in Nat /\ 1 <= k /\ k <= Len(rest)
    BY <1>1 DEF CallIn
  <1>5. ASSUME NEW u \in Threads, NEW k \in Nat, NEW c \in Loops, NEW f \in Futures,
               CallIn(stack'[u], k, c, f)
        PROVE  \/ CallIn(stack[u], k, c, f) /\ (u = t => CallIn(rest, k, c, f)) /\ <<c, f>> \notin N
               \/ u = t /\ k = Len(rest) + 1 /\ <<c, f>> \in N /\ NoLoop(f)
    BY <1>2, <1>3, <1>5 DEF NoLoop
  <1>6. OneLoop'
    <2>1. ASSUME NEW u \in Threads, NEW v \in Threads, NEW k \in Nat, NEW l \in Nat, NEW b \in Loops,
                 NEW c \in Loops, NEW f \in Futures,
                 CallIn(stack'[u], k, b, f), CallIn(stack'[v], l, c, f)
          PROVE  u = v /\ k = l
      <3>1. CASE CallIn(stack[u], k, b, f) /\ CallIn(stack[v], l, c, f)
        BY <3>1 DEF OneLoop
      <3>. QED  BY <1>5, <2>1, <3>1 DEF NoLoop
    <2>. QED  BY <2>1 DEF OneLoop
  <1>7. ThenRunsInside'
    <2>1. ASSUME NEW u \in Threads, NEW k \in Nat, NEW d \in Derived, kind[d] = "Then",
                 CallIn(stack'[u], k, "run", d)
          PROVE  \/ CallIn(stack'[u], k - 1, "combine", d)
                 \/ \E f \in inputs[d] : CallIn(stack'[u], k - 1, "run", f) /\ Waiting(f, d)
      <3>1. d \in Futures /\ "run" \in Loops
        BY DEF Futures, Loops
      <3>2. CASE CallIn(stack[u], k, "run", d) /\ (u = t => CallIn(rest, k, "run", d))
        <4>1. \/ CallIn(stack[u], k - 1, "combine", d)
              \/ \E f \in inputs[d] : CallIn(stack[u], k - 1, "run", f) /\ Waiting(f, d)
          BY <2>1, <3>2 DEF ThenRunsInside
        <4>2. CASE u # t
          BY <1>2, <4>1, <4>2
        <4>3. CASE u = t
          <5>1. \A c, f : CallIn(stack[t], k - 1, c, f) => CallIn(rest, k - 1, c, f)
            <6>1. k - 1 \in Nat /\ k - 1 <= Len(rest)
              BY <1>4, <3>2, <4>3
            <6>. QED  BY <1>3, <6>1
          <5>. QED  BY <1>2, <4>1, <4>3, <5>1
        <4>. QED  BY <4>2, <4>3
      <3>3. CASE u = t /\ k = Len(rest) + 1 /\ <<"run", d>> \in N
        <4>1. InsideFor(rest, d) /\ k - 1 = Len(rest)
          BY <1>4, <2>1, <3>3
        <4>2. \A c, f : CallIn(rest, Len(rest), c, f) => CallIn(stack'[u], k - 1, c, f)
          <5>1. \A c, f : CallIn(rest, Len(rest), c, f) => CallIn(stack'[t], Len(rest), c, f)
            BY <1>2, Zenon
          <5>. QED  BY <3>3, <4>1, <5>1, Zenon
        <4>. QED  BY <4>1, <4>2, Zenon DEF InsideFor
      <3>. QED  BY <1>5, <2>1, <3>1, <3>2, <3>3
    <2>2. \A d \in Derived : inputs[d] \subseteq Futures
      BY DEF IInv, TypeOK
    <2>. QED  BY <2>1, <2>2 DEF ThenRunsInside
  <1>8. \A u \in Threads : \A k \in Nat : \A c \in Loops : \A f \in Futures :
            CallIn(stack'[u], k, c, f) => CallIn(stack[u], k, c, f) \/ <<c, f>> \in N
    BY <1>5
  <1>. QED  BY <1>6, <1>7, <1>8

-----------------------------------------------------------------------------
(* A step that settles at most one future                                  *)

\* Future g is the only one that may be settled, and only if it was not, and the loops in
\* N are over its continuations: they run for a value or an exception, and are destroyed
\* when nobody is left to run them.
SettlesFirst(g, N) ==
    /\ \/ state' = state
       \/ \E s \in FutureStates \ {"Undefined"}, c \in Loops :
            /\ ~IsSettled(g) /\ state' = [state EXCEPT ![g] = s]
            /\ \A d \in Derived : Waiting(g, d) => <<c, g>> \in N
            /\ s \in {"Ready", "Exception"} => c = "run"
    /\ \A h \in N : h[2] = g
    /\ <<"run", g>> \in N => ~IsSettled(g)
    /\ <<"clear", g>> \in N =>
            \/ g \in Promises \ alive'
            \/ g \in Derived /\ kind[g] = "Then" /\ holders'[g] = {}

\* A combinator registers on an input that is settled at once, and settles its result.
OwedFollow ==
    \A f \in Futures : \A d \in Derived :
        /\ Owed(f, d)' => Owed(f, d)
        /\ Owed(f, d) => \/ Owed(f, d)'
                         \/ IsSettled(f) /\ (kind[d] \in {"Then", "WhenAny"} => IsSettled(d)')

\* References go away with their continuation, those to a result of Then not before.
ReferencesFollow(H) ==
    \A d \in Derived :
        /\ holders'[d] \subseteq holders[d]
        /\ Local \in holders'[d] => \E t \in Threads : Combining(t, d)'
        /\ \A f \in Futures :
            /\ kind[d] = "Then" /\ f \in holders[d] => f \in holders'[d] \/ <<"clear", f, d>> \in H
            /\ <<"clear", f, d>> \in H => f \notin holders'[d]
            /\ <<"run", f, d>> \in H =>
                  /\ f \notin holders'[d] \/ IsSettled(d)'
                  /\ kind[d] \in {"Then", "WhenAny"} => IsSettled(d)'

\* No callable is left to be called once g is settled.
CallableGone(g, H) ==
    g \in Derived /\ kind[g] = "Then" /\ ~IsSettled(g) /\ IsSettled(g)' =>
        \A f \in Futures : (Awaits("run", f, g) => <<"run", f, g>> \in H) /\ ~Owed(f, g)'

LEMMA GraphStep ==
    ASSUME IInv, IInv', RInv, NEW t \in Threads, NEW rest, NEW H, Proceeds(t, rest, H),
           NEW N, Pushes(t, rest, N), NEW g \in Futures,
           UNCHANGED <<continuations, kind, inputs>>, alive' \subseteq alive,
           \A d \in Derived : kind[d] = "Then" /\ <<"run", d>> \in N => InsideFor(rest, d),
           SettlesFirst(g, N), OwedFollow, ReferencesFollow(H), CallableGone(g, H),
           LastHolderSettles', CallableOrBroken',
           \A d \in Derived : kind[d] = "none" => runs'[d] = 0
    PROVE  RInv'
  <1>1. /\ OneLoop' /\ ThenRunsInside'
        /\ \A u \in Threads : \A k \in Nat : \A c \in Loops : \A f \in Futures :
              CallIn(stack'[u], k, c, f) => CallIn(stack[u], k, c, f) \/ <<c, f>> \in N
    <2>1. \A f, d : Waiting(f, d)' <=> Waiting(f, d)
      BY DEF Waiting, Stored
    <2>. QED  BY <2>1, LoopsApart DEF RInv, Proceeds
  <1>2. /\ \A f, d : Waiting(f, d)' <=> Waiting(f, d)
        /\ \A c \in Loops : \A f \in Futures : \A d \in Derived :
              /\ Awaits(c, f, d)' => Awaits(c, f, d) \/ (<<c, f>> \in N /\ Waiting(f, d))
              /\ Awaits(c, f, d) => Awaits(c, f, d)' \/ <<c, f, d>> \in H
              /\ <<c, f, d>> \in H => ~Awaits(c, f, d)'
              /\ <<c, f>> \in N /\ Waiting(f, d) => Awaits(c, f, d)'
        /\ \A f \in Futures : \A d \in Derived :
              Destroyed(f, d)' <=> Destroyed(f, d) \/ <<"clear", f, d>> \in H
    BY LoopsStep DEF RInv
  <1>3. "run" \in Loops /\ "clear" \in Loops /\ \A c \in Loops : c = "run" \/ c = "clear"
    BY DEF Loops
  <1>4. /\ \A d \in Derived : d \in Futures /\ inputs[d] \subseteq Futures
        /\ kind' = kind /\ inputs' = inputs /\ continuations' = continuations
    BY DEF IInv, TypeOK, Futures
  <1>5. /\ \A f \in Futures : IsSettled(f) => IsSettled(f)' /\ state'[f] = state[f]
        /\ \A f \in Futures : f # g => (IsSettled(f)' <=> IsSettled(f))
        /\ \A f \in Futures : state'[f] # state[f] =>
              /\ f = g /\ ~IsSettled(g)
              /\ \A d \in Derived : Waiting(g, d) => <<"run", g>> \in N \/ <<"clear", g>> \in N
              /\ state'[g] \in {"Ready", "Exception"} =>
                    \A d \in Derived : Waiting(g, d) => <<"run", g>> \in N
    BY <1>3 DEF SettlesFirst, IInv, TypeOK, IsSettled
  <1>6. StoredOnce'
    <2>1. \A f, d, i : Stored(f, i, d)' <=> Stored(f, i, d)
      BY <1>4 DEF Stored
    <2>. QED  BY <1>2, <1>4, <2>1 DEF RInv, StoredOnce, OwedFollow
  <1>7. ClearedLast'
    <2>1. ASSUME NEW u \in Threads, NEW k \in Nat, NEW f \in Futures, CallIn(stack'[u], k, "clear", f)
          PROVE  \/ f \in Promises \ alive'
                 \/ f \in Derived /\ kind[f] = "Then" /\ holders'[f] = {}
      <3>1. CASE CallIn(stack[u], k, "clear", f)
        BY <3>1 DEF RInv, ClearedLast, ReferencesFollow
      <3>2. CASE <<"clear", f>> \in N
        <4>1. f = g
          BY <3>2 DEF SettlesFirst
        <4>. QED  BY <3>2, <4>1 DEF SettlesFirst
      <3>. QED  BY <1>1, <1>3, <2>1, <3>1, <3>2
    <2>. QED  BY <1>4, <2>1 DEF ClearedLast
  <1>8. HoldersWaiting'
    BY <1>2, <1>4 DEF RInv, HoldersWaiting, ReferencesFollow
  <1>9. CallableOnce'
    <2>1. ASSUME NEW d \in Derived, kind[d] = "Then", NEW f \in Futures,
                 Awaits("run", f, d)' \/ Owed(f, d)', IsSettled(d)'
          PROVE  FALSE
      <3>1. CASE Owed(f, d)'
        <4>1. Owed(f, d) /\ ~IsSettled(d)
          BY <2>1, <3>1 DEF OwedFollow, RInv, CallableOnce
        <4>2. d = g
          BY <1>4, <1>5, <2>1, <4>1
        <4>. QED  BY <2>1, <3>1, <4>1, <4>2 DEF CallableGone
      <3>2. CASE Awaits("run", f, d)' /\ Awaits("run", f, d)
        <4>1. ~IsSettled(d)
          BY <2>1, <3>2 DEF RInv, CallableOnce
        <4>2. d = g
          BY <1>4, <1>5, <2>1, <4>1
        <4>. QED  BY <1>2, <1>3, <2>1, <3>2, <4>1, <4>2 DEF CallableGone
      <3>3. CASE <<"run", f>> \in N /\ Waiting(f, d)
        <4>1. f = g /\ ~IsSettled(f)
          BY <3>3 DEF SettlesFirst
        <4>2. f \in inputs[d]
          BY <3>3 DEF Waiting, Stored, IInv, ContinuationsDerived
        <4>3. ~IsSettled(d) /\ d # g
          BY <2>1, <4>1, <4>2 DEF IInv, SettledAfterInputs, RInv, StoredOnce
        <4>. QED  BY <1>4, <1>5, <2>1, <4>3
      <3>. QED  BY <1>2, <1>3, <2>1, <3>1, <3>2, <3>3
    <2>. QED  BY <1>4, <2>1 DEF CallableOnce
  <1>10. InputsAwaited'
    <2>1. ASSUME NEW d \in Derived, NEW f \in inputs[d], ~IsSettled(f)'
          PROVE  Waiting(f, d)' \/ Owed(f, d)'
      <3>1. f \in Futures /\ ~IsSettled(f)
        BY <1>4, <1>5, <2>1
      <3>. QED  BY <1>2, <3>1 DEF RInv, InputsAwaited, OwedFollow
    <2>2. ASSUME NEW d \in Derived, kind[d] \in {"Then", "WhenAll"}, ~IsSettled(d)',
                 NEW f \in Futures, f \in holders'[d], IsSettled(f)'
          PROVE  Awaits("run", f, d)' \/ Awaits("clear", f, d)'
      <3>1. f \in holders[d] /\ Waiting(f, d) /\ ~IsSettled(d)
        BY <1>4, <1>5, <2>2 DEF ReferencesFollow, RInv, HoldersWaiting
      <3>2. CASE IsSettled(f)
        <4>1. Awaits("run", f, d) \/ Awaits("clear", f, d)
          BY <2>2, <3>1, <3>2 DEF RInv, InputsAwaited
        <4>2. <<"run", f, d>> \notin H /\ <<"clear", f, d>> \notin H
          BY <2>2 DEF ReferencesFollow
        <4>. QED  BY <1>2, <1>3, <4>1, <4>2
      <3>3. CASE ~IsSettled(f)
        <4>1. state'[f] # state[f]
          BY <2>2, <3>3 DEF IsSettled
        <4>2. f = g /\ (<<"run", g>> \in N \/ <<"clear", g>> \in N)
          BY <1>5, <3>1, <4>1
        <4>. QED  BY <1>2, <1>3, <3>1, <4>2
      <3>. QED  BY <3>2, <3>3
    <2>3. ASSUME NEW d \in Derived, kind[d] \in {"Then", "WhenAny"}, ~IsSettled(d)',
                 NEW f \in inputs[d], state'[f] \in {"Ready", "Exception"}
          PROVE  Awaits("run", f, d)' \/ Owed(f, d)'
      <3>1. f \in Futures /\ ~IsSettled(d)
        BY <1>4, <1>5, <2>3
      <3>2. Owed(f, d) => Owed(f, d)'
        BY <2>3, <3>1 DEF OwedFollow
      <3>3. CASE state[f] = state'[f]
        <4>1. Awaits("run", f, d) \/ Owed(f, d)
          BY <2>3, <3>1, <3>3 DEF RInv, InputsAwaited
        <4>2. <<"run", f, d>> \notin H
          BY <2>3, <3>1 DEF ReferencesFollow
        <4>. QED  BY <1>2, <1>3, <3>1, <3>2, <4>1, <4>2
      <3>4. CASE state[f] # state'[f]
        <4>1. f = g /\ ~IsSettled(f) /\ (Waiting(g, d) => <<"run", g>> \in N)
          BY <1>5, <2>3, <3>1, <3>4
        <4>2. Waiting(f, d) \/ Owed(f, d)
          BY <4>1 DEF RInv, InputsAwaited
        <4>. QED  BY <1>2, <1>3, <3>1, <3>2, <4>1, <4>2
      <3>. QED  BY <3>3, <3>4
    <2>. QED  BY <1>4, <2>1, <2>2, <2>3 DEF InputsAwaited
  <1>11. \A d \in Derived : kind'[d] = "none" => runs'[d] = 0 /\ holders'[d] = {}
    BY <1>4 DEF RInv, ReferencesFollow
  <1>. QED  BY <1>1, <1>6, <1>7, <1>8, <1>9, <1>10, <1>11 DEF RInv

-----------------------------------------------------------------------------
(* Who may be in a loop                                                    *)

LEMMA CombiningByDepth ==
    ASSUME IInv, NEW t \in Threads, NEW d \in Futures
    PROVE  Combining(t, d) <=> CallIn(stack[t], 1, "combine", d)
  <1>1. stack[t] \in Seq(Frames) /\ Len(stack[t]) \in Nat
    BY DEF IInv, TypeOK
  <1>2. ASSUME NEW k, CallIn(stack[t], k, "combine", d)
        PROVE  k = 1
    <2>1. Len(stack[t]) + 1 - k \in 1..Len(stack[t]) /\ k \in Nat
      BY <1>1, <1>2 DEF CallIn
    <2>2. Len(stack[t]) + 1 - k = Len(stack[t])
      BY <1>2, <2>1 DEF CallIn, At, IInv, CombinersApart
    <2>. QED  BY <1>1, <2>1, <2>2
  <1>3. Combining(t, d) => \E k \in 1..Len(stack[t]) : CallIn(stack[t], k, "combine", d)
    BY <1>1, CallInCalls DEF Combining
  <1>4. CallIn(stack[t], 1, "combine", d) => Combining(t, d)
    BY <1>1, CallInCalls DEF Combining
  <1>. QED  BY <1>2, <1>3, <1>4

LEMMA UnsettledNoLoop ==
    ASSUME IInv, NEW f \in Futures, ~IsSettled(f)
    PROVE  NoLoop(f)
  <1>. SUFFICES ASSUME NEW u \in Threads, NEW k \in Nat, NEW c \in Loops, CallIn(stack[u], k, c, f)
                PROVE  FALSE
    BY DEF NoLoop
  <1>1. \E a \in CallsIn(stack[u]) : a.call = c /\ a.future = f
    BY CallInCalls DEF IInv, TypeOK
  <1>. QED  BY <1>1 DEF IInv, LoopsSettled, Loops

\* The reference of a continuation of Then is there while the continuations run.
LEMMA RunHolds ==
    ASSUME RInv, NEW t \in Threads, NEW k \in Nat, NEW f \in Futures, NEW d \in Derived,
           kind[d] = "Then", CallIn(stack[t], k, "run", f), Waiting(f, d)
    PROVE  f \in holders[d]
  <1>1. ASSUME Destroyed(f, d)
        PROVE  FALSE
    <2>1. PICK u \in Threads, l \in Nat : CallIn(stack[u], l, "clear", f)
      BY <1>1 DEF Destroyed, DestroyedIn, LoopIn
    <2>2. t = u /\ k = l
      BY <2>1 DEF RInv, OneLoop, Loops
    <2>. QED  BY <2>1, <2>2 DEF CallIn
  <1>. QED  BY <1>1 DEF RInv, HoldersWaiting

\* Whoever gives up the last reference to a result of Then finds no loop over its
\* continuations, and none that could call its callable.
LEMMA LastReference ==
    ASSUME IInv, RInv, NEW d \in Derived, kind[d] = "Then", NEW t \in Threads, NEW h, holders[d] = {h},
           \/ h \in Futures /\ \E k \in Nat : CallIn(stack[t], k, "clear", h)
           \/ h = Local /\ Len(stack[t]) = 1 /\ Combining(t, d)
    PROVE  NoLoop(d) /\ \A f \in Futures : ~Awaits("run", f, d)
  <1>1. d \in Futures /\ "run" \in Loops /\ "clear" \in Loops /\ Local \notin Futures
    BY DEF Futures, Loops
  <1>2. ASSUME NEW u \in Threads, NEW k \in Nat, NEW f \in Futures, CallIn(stack[u], k, "run", f),
               Waiting(f, d)
        PROVE  FALSE
    <2>1. f = h
      BY <1>2, RunHolds
    <2>2. PICK l \in Nat : CallIn(stack[t], l, "clear", f)
      BY <1>1, <2>1
    <2>3. u = t /\ k = l
      BY <1>1, <1>2, <2>2 DEF RInv, OneLoop
    <2>. QED  BY <1>2, <2>2, <2>3 DEF CallIn
  <1>3. ASSUME NEW u \in Threads, NEW k \in Nat, CallIn(stack[u], k, "run", d)
        PROVE  FALSE
    <2>1. stack[u] \in Seq(Frames)
      BY DEF IInv, TypeOK
    <2>2. \A c, f : CallIn(stack[u], k - 1, c, f) => k - 1 \in Nat
      BY <2>1 DEF CallIn
    <2>3. CASE CallIn(stack[u], k - 1, "combine", d)
      <3>1. Combining(u, d)
        BY <2>1, <2>3, CallInCalls DEF Combining
      <3>2. Local \in holders[d]
        BY <1>1, <3>1 DEF IInv, CombinersApart
      <3>3. h = Local /\ u = t /\ Len(stack[u]) = 1
        BY <1>1, <3>1, <3>2 DEF IInv, CombinersApart
      <3>4. k - 1 \in 1..1 /\ k \in 1..1
        BY <1>3, <2>3, <3>3 DEF CallIn
      <3>. QED  BY <3>4
    <2>4. ASSUME NEW f \in inputs[d], CallIn(stack[u], k - 1, "run", f), Waiting(f, d)
          PROVE  FALSE
      <3>1. f \in Futures /\ k - 1 \in Nat
        BY <2>2, <2>4 DEF IInv, TypeOK
      <3>. QED  BY <1>2, <2>4, <3>1
    <2>. QED  BY <1>3, <2>3, <2>4 DEF RInv, ThenRunsInside
  <1>4. ASSUME NEW u \in Threads, NEW k \in Nat, CallIn(stack[u], k, "clear", d)
        PROVE  FALSE
    BY <1>1, <1>4 DEF RInv, ClearedLast
  <1>5. NoLoop(d)
    BY <1>3, <1>4 DEF NoLoop, Loops
  <1>6. \A f \in Futures : ~Awaits("run", f, d)
    BY <1>2 DEF Awaits, AwaitIn, LoopIn, Waiting
  <1>. QED  BY <1>5, <1>6

\* The loop that begins when future g is settled.
Begun(c, g) == IF continuations[g] = <<>> THEN {} ELSE {<<c, g>>}

LEMMA SettlePushes ==
    ASSUME IInv, NEW t \in Threads, NEW rest, NEW g \in Futures, NEW s \in FutureStates,
           NEW c \in Loops, Settle(t, g, s, c, rest), NoLoop(g)
    PROVE  /\ Pushes(t, rest, Begun(c, g))
           /\ \A d \in Derived : Waiting(g, d) => <<c, g>> \in Begun(c, g)
  <1>1. CASE continuations[g] = <<>>
    <2>1. \A d : ~Waiting(g, d)
      BY <1>1 DEF Waiting, Stored
    <2>. QED  BY <1>1, <2>1 DEF Settle, Pushes, Begun
  <1>2. CASE continuations[g] # <<>>
    BY <1>2 DEF Settle, Pushes, Begun
  <1>. QED  BY <1>1, <1>2

\* Combinators stay on the stack while it goes on above them.
LEMMA CombinersKept ==
    ASSUME IInv, IInv', NEW t \in Threads, NEW rest, Keeps(t, rest),
           NEW N, Pushes(t, rest, N)
    PROVE  \A u \in Threads : \A d \in Futures :
               Combining(u, d) /\ (u = t => 1 <= Len(rest)) => Combining(u, d)'
  <1>. SUFFICES ASSUME NEW u \in Threads, NEW d \in Futures, Combining(u, d), u = t => 1 <= Len(rest)
                PROVE  Combining(u, d)'
    OBVIOUS
  <1>1. CallIn(stack[u], 1, "combine", d)
    BY CombiningByDepth
  <1>2. rest \in Seq(Frames)
    BY DEF Keeps
  <1>3. CallIn(stack'[u], 1, "combine", d)
    <2>1. CASE u # t
      BY <1>1, <1>2, <2>1, CallsAfter
    <2>2. CASE u = t
      <3>1. CallIn(rest, 1, "combine", d)
        BY <1>1, <2>2 DEF Keeps
      <3>. QED  BY <1>2, <2>2, <3>1, CallsAfter
    <2>. QED  BY <2>1, <2>2
  <1>4. stack'[u] \in Seq(Frames)
    BY DEF IInv, TypeOK
  <1>. QED  BY <1>3, <1>4, CallInCalls DEF Combining

-----------------------------------------------------------------------------
(* The steps keep the second invariant                                     *)

LEMMA PromiseGraphStep ==
    ASSUME IInv, IInv', RInv, NEW t \in Threads, NEW p \in Promises,
           Fulfil(t, p) \/ DestroyPromise(t, p)
    PROVE  RInv'
  <1>1. p \in Futures /\ p \notin Derived
    BY DEF Futures
  <1>2. /\ Idle(t) /\ p \in alive
        /\ UNCHANGED <<continuations, kind, inputs, holders, runs>>
        /\ alive' \subseteq alive
    BY DEF Fulfil, DestroyPromise
  <1>3. PICK s \in FutureStates \ {"Undefined"}, c \in Loops :
            /\ Settle(t, p, s, c, <<>>)
            /\ \/ ~IsSettled(p) /\ (s \in {"Ready", "Exception"} => c = "run")
               \/ IsSettled(p) /\ s = state[p] /\ c = "clear"
            /\ c = "run" => ~IsSettled(p)
            /\ c = "clear" => p \notin alive' /\ ~Busy("run", p)
    <2>1. state[p] \in FutureStates
      BY <1>1 DEF IInv, TypeOK
    <2>2. CASE Fulfil(t, p)
      BY <2>2 DEF Fulfil, Loops, FutureStates
    <2>3. CASE DestroyPromise(t, p)
      <3>1. BrokenUnlessSettled(p) \in FutureStates \ {"Undefined"}
        BY <2>1 DEF BrokenUnlessSettled, IsSettled, FutureStates
      <3>2. /\ Settle(t, p, BrokenUnlessSettled(p), "clear", <<>>)
            /\ p \notin alive' /\ ~Busy("run", p)
        BY <2>3 DEF DestroyPromise
      <3>3. /\ IsSettled(p) => BrokenUnlessSettled(p) = state[p]
            /\ ~IsSettled(p) => BrokenUnlessSettled(p) = "BrokenPromise"
        BY DEF BrokenUnlessSettled
      <3>4. "clear" \in Loops /\ "BrokenPromise" \notin {"Ready", "Exception"}
        BY DEF Loops
      <3>. QED  BY <3>1, <3>2, <3>3, <3>4
    <2>. QED  BY <2>2, <2>3
  <1>4. NoLoop(p)
    <2>1. CASE ~IsSettled(p)
      BY <1>1, <2>1, UnsettledNoLoop
    <2>2. CASE c = "clear"
      <3>1. ASSUME NEW u \in Threads, NEW k \in Nat, CallIn(stack[u], k, "run", p)
            PROVE  FALSE
        <4>1. PICK a \in CallsIn(stack[u]) : a.call = "run" /\ a.future = p
          BY <3>1, CallInCalls DEF IInv, TypeOK
        <4>. QED  BY <1>3, <2>2, <4>1 DEF Busy, CallsIn
      <3>2. ASSUME NEW u \in Threads, NEW k \in Nat, CallIn(stack[u], k, "clear", p)
            PROVE  FALSE
        BY <1>1, <1>2, <3>2 DEF RInv, ClearedLast
      <3>. QED  BY <3>1, <3>2 DEF NoLoop, Loops
    <2>. QED  BY <1>3, <2>1, <2>2 DEF Loops
  <1>5. Proceeds(t, <<>>, {}) /\ Shrinks(t, <<>>, {})
    BY <1>2, ProceedsNothing, ShrinksNothing
  <1>. DEFINE N == Begun(c, p)
  <1>6. Pushes(t, <<>>, N) /\ \A d \in Derived : Waiting(p, d) => <<c, p>> \in N
    BY <1>1, <1>3, <1>4, SettlePushes
  <1>7. \A b, f : <<b, f>> \in N => b = c /\ f = p
    BY DEF Begun
  <1>8. \A h \in N : h[2] = p
    BY DEF Begun
  <1>. HIDE DEF N
  <1>9. SettlesFirst(p, N)
    <2>1. state' = [state EXCEPT ![p] = s]
      BY <1>3 DEF Settle
    <2>2. IsSettled(p) => state' = state
      BY <1>1, <1>3, <2>1 DEF IInv, TypeOK
    <2>. QED  BY <1>2, <1>3, <1>6, <1>7, <1>8, <2>1, <2>2 DEF SettlesFirst
  <1>10. Settles(t, p, <<>>)
    BY <1>3 DEF Settles, Loops
  <1>11. \A u \in Threads : \A d, x \in Futures : Owes(u, d, x) <=> Owes(u, d, x)'
    BY <1>1, <1>5, <1>10, StackStep
  <1>12. \A d \in Derived : d \in Futures /\ d # p
    BY <1>1 DEF Futures
  <1>13. OwedFollow
    BY <1>11, <1>12 DEF OwedFollow, Owed
  <1>14. \A u \in Threads : \A d \in Futures : Combining(u, d) => Combining(u, d)' 
    <2>1. \A d \in Futures : ~Combining(t, d)
      BY <1>2, CombiningByDepth DEF Idle, CallIn
    <2>. QED  BY <1>5, <1>6, <2>1, CombinersKept DEF Proceeds
  <1>15. ReferencesFollow({})
    BY <1>2, <1>12, <1>14 DEF ReferencesFollow, RInv, HoldersWaiting
  <1>16. /\ \A f \in Futures : f # p => state'[f] = state[f]
         /\ \A f \in Futures : IsSettled(f) => state'[f] = state[f]
    BY <1>1, <1>9 DEF SettlesFirst, IInv, TypeOK
  <1>17. LastHolderSettles'
    BY <1>2, <1>12, <1>16 DEF RInv, LastHolderSettles, IsSettled
  <1>18. CallableOrBroken'
    <2>1. \A d \in Derived : \A f \in inputs[d] : state[f] = "BrokenPromise" => state'[f] = state[f]
      BY <1>16 DEF IsSettled, IInv, TypeOK
    <2>. QED  BY <1>2, <1>12, <1>16, <2>1 DEF RInv, CallableOrBroken
  <1>19. CallableGone(p, {})
    BY <1>1 DEF CallableGone
  <1>20. \A d \in Derived : kind[d] = "Then" /\ <<"run", d>> \in N => InsideFor(<<>>, d)
    BY <1>7, <1>12
  <1>21. \A d \in Derived : kind[d] = "none" => runs'[d] = 0
    BY <1>2 DEF RInv
  <1>. QED  BY <1>1, <1>2, <1>5, <1>6, <1>9, <1>13, <1>15, <1>17, <1>18, <1>19, <1>20, <1>21, GraphStep

\* The reference h to d goes away: that of the continuation at the innermost loop of t, that
\* of a combinator that calls WhenAll with a settled input, or that of one that returns.
DropsReference(t, rest, H, done, d, h) ==
    \/ /\ h \in Futures /\ done = {} /\ 1 <= Len(rest)
       /\ \/ H = {<<"clear", h, d>>}
          \/ H = {<<"run", h, d>>} /\ kind[d] = "WhenAll"
    \/ /\ h \in Futures /\ done = {h} /\ 1 <= Len(rest)
       /\ H = {} /\ kind[d] = "WhenAll" /\ IsSettled(h)
       /\ \A e \in Derived : Owes(t, e, h) => e = d
    \/ /\ h = Local /\ done = {} /\ H = {}
       /\ Len(stack[t]) = 1 /\ Combining(t, d)
       /\ \A f \in Futures : ~Owed(f, d)

LEMMA DropGraphStep ==
    ASSUME IInv, IInv', RInv, NEW t \in Threads, NEW rest, NEW H, Proceeds(t, rest, H),
           NEW done, Shrinks(t, rest, done), NEW d \in Derived, kind[d] # "none", NEW h,
           DropsReference(t, rest, H, done, d, h), Drop(t, d, h, rest),
           UNCHANGED <<continuations, alive, kind, inputs, runs>>
    PROVE  RInv'
  <1>1. d \in Futures /\ Local \notin Futures /\ \A e \in Derived : e \in Futures
    BY DEF Futures
  <1>2. /\ holders' = [holders EXCEPT ![d] = @ \ {h}]
        /\ \A e \in Derived : holders'[e] = IF e = d THEN holders[d] \ {h} ELSE holders[e]
    BY DEF Drop, IInv, TypeOK
  <1>3. \A c \in {"run", "clear"} : \A f, e : <<c, f, e>> \in H =>
            /\ f = h /\ e = d /\ h \in Futures /\ done = {} /\ 1 <= Len(rest)
            /\ c = "run" => kind[d] = "WhenAll"
            /\ c = "clear" => \E k \in Nat : CallIn(stack[t], k, "clear", h)
    <2>1. \A x \in H : \E k \in Nat : CallIn(stack[t], k, x[1], x[2])
      BY DEF Proceeds, Keeps
    <2>. QED  BY <1>1, <2>1 DEF DropsReference
  <1>4. ASSUME holders[d] = {h}, kind[d] \in {"Then", "WhenAll"}
        PROVE  /\ NoLoop(d) /\ \A f \in Futures : kind[d] = "Then" => ~Awaits("run", f, d)
               /\ \A f \in Futures : ~Owed(f, d) \/ kind[d] = "WhenAll"
    <2>1. CASE kind[d] = "WhenAll"
      <3>1. ~IsSettled(d)
        BY <1>4, <2>1 DEF RInv, LastHolderSettles
      <3>. QED  BY <1>1, <2>1, <3>1, UnsettledNoLoop
    <2>2. CASE kind[d] = "Then"
      <3>1. \/ h \in Futures /\ \E k \in Nat : CallIn(stack[t], k, "clear", h)
            \/ /\ h = Local /\ Len(stack[t]) = 1 /\ Combining(t, d)
               /\ \A f \in Futures : ~Owed(f, d)
        <4>1. <<"clear", h, d>> \in H \/ h = Local
          BY <2>2 DEF DropsReference
        <4>. QED  BY <1>1, <1>3, <2>2, <4>1 DEF DropsReference
      <3>2. NoLoop(d) /\ \A f \in Futures : ~Awaits("run", f, d)
        BY <1>4, <2>2, <3>1, LastReference
      <3>3. ASSUME NEW f \in Futures, Owed(f, d)
            PROVE  FALSE
        <4>1. PICK u \in Threads : Combining(u, d)
          BY <3>3 DEF Owed, Owes, Combining
        <4>2. h = Local
          BY <1>1, <1>4, <2>2, <4>1 DEF IInv, CombinersApart
        <4>. QED  BY <1>1, <3>1, <3>3, <4>2
      <3>. QED  BY <3>2, <3>3
    <2>. QED  BY <1>4, <2>1, <2>2
  <1>5. PICK N :
            /\ Pushes(t, rest, N) /\ SettlesFirst(d, N)
            /\ state' # state => holders[d] = {h} /\ kind[d] \in {"Then", "WhenAll"}
            /\ holders[d] = {h} /\ kind[d] \in {"Then", "WhenAll"} => IsSettled(d)'
            /\ <<"run", d>> \in N => kind[d] = "WhenAll"
            /\ state'[d] # state[d] =>
                  state'[d] = (IF kind[d] = "Then" THEN "BrokenPromise" ELSE "Ready")
    <2>1. CASE Continue(t, rest) /\ holders[d] # {h}
      <3>1. Pushes(t, rest, {}) /\ SettlesFirst(d, {})
        BY <2>1 DEF Continue, Pushes, SettlesFirst
      <3>. QED  BY <2>1, <3>1 DEF Continue
    <2>2. CASE holders[d] = {h} /\ kind[d] = "WhenAll" /\ Settle(t, d, "Ready", "run", rest)
      <3>. DEFINE N == Begun("run", d)
      <3>1. "run" \in Loops /\ "Ready" \in FutureStates
        BY DEF Loops, FutureStates
      <3>2. Pushes(t, rest, N) /\ \A e \in Derived : Waiting(d, e) => <<"run", d>> \in N
        BY <1>1, <1>4, <2>2, <3>1, SettlePushes
      <3>3. \A b, f : <<b, f>> \in N => b = "run" /\ f = d
        BY DEF Begun
      <3>4. \A x \in N : x[2] = d
        BY DEF Begun
      <3>. HIDE DEF N
      <3>5. ~IsSettled(d)
        BY <2>2 DEF RInv, LastHolderSettles
      <3>6. state' = [state EXCEPT ![d] = "Ready"] /\ IsSettled(d)'
        BY <1>1, <2>2 DEF Settle, IInv, TypeOK, IsSettled
      <3>7. SettlesFirst(d, N)
        <4>1. <<"clear", d>> \notin N
          BY <3>3
        <4>2. \E s \in FutureStates \ {"Undefined"}, c \in Loops :
                  /\ ~IsSettled(d) /\ state' = [state EXCEPT ![d] = s]
                  /\ \A e \in Derived : Waiting(d, e) => <<c, d>> \in N
                  /\ s \in {"Ready", "Exception"} => c = "run"
          <5>1. "Ready" \in FutureStates \ {"Undefined"}
            BY <3>1
          <5>. QED  BY <3>1, <3>2, <3>5, <3>6, <5>1
        <4>. QED  BY <3>4, <3>5, <4>1, <4>2 DEF SettlesFirst
      <3>8. state'[d] = "Ready"
        BY <1>1, <3>6 DEF IInv, TypeOK
      <3>. QED  BY <2>2, <3>2, <3>6, <3>7, <3>8
    <2>3. CASE /\ holders[d] = {h} /\ kind[d] = "Then"
               /\ Settle(t, d, BrokenUnlessSettled(d), "clear", rest)
      <3>. DEFINE N == Begun("clear", d)
      <3>1. "clear" \in Loops /\ BrokenUnlessSettled(d) \in FutureStates \ {"Undefined"}
        BY <1>1 DEF Loops, FutureStates, BrokenUnlessSettled, IInv, TypeOK, IsSettled
      <3>2. Pushes(t, rest, N) /\ \A e \in Derived : Waiting(d, e) => <<"clear", d>> \in N
        BY <1>1, <1>4, <2>3, <3>1, SettlePushes
      <3>3. \A b, f : <<b, f>> \in N => b = "clear" /\ f = d
        BY DEF Begun
      <3>4. \A x \in N : x[2] = d
        BY DEF Begun
      <3>. HIDE DEF N
      <3>5. holders'[d] = {}
        BY <1>2, <2>3
      <3>6. state' = [state EXCEPT ![d] = BrokenUnlessSettled(d)] /\ IsSettled(d)'
        BY <1>1, <2>3, <3>1 DEF Settle, IInv, TypeOK, IsSettled
      <3>7. /\ IsSettled(d) => state' = state
            /\ ~IsSettled(d) => BrokenUnlessSettled(d) = "BrokenPromise"
        BY <1>1, <3>6 DEF BrokenUnlessSettled, IInv, TypeOK
      <3>8. SettlesFirst(d, N)
        <4>1. <<"run", d>> \notin N
          BY <3>3
        <4>2. ~IsSettled(d) => \E s \in FutureStates \ {"Undefined"}, c \in Loops :
                  /\ ~IsSettled(d) /\ state' = [state EXCEPT ![d] = s]
                  /\ \A e \in Derived : Waiting(d, e) => <<c, d>> \in N
                  /\ s \in {"Ready", "Exception"} => c = "run"
          <5>1. "BrokenPromise" \notin {"Ready", "Exception"}
            OBVIOUS
          <5>. QED  BY <3>1, <3>2, <3>6, <3>7, <5>1
        <4>. QED  BY <2>3, <3>4, <3>5, <3>7, <4>1, <4>2 DEF SettlesFirst
      <3>9. state'[d] # state[d] => state'[d] = "BrokenPromise"
        BY <1>1, <3>6, <3>7 DEF IInv, TypeOK
      <3>. QED  BY <2>3, <3>2, <3>3, <3>6, <3>8, <3>9
    <2>. QED  BY <2>1, <2>2, <2>3 DEF Drop
  <1>6. /\ \A f \in Futures : f # d => state'[f] = state[f]
        /\ \A f \in Futures : IsSettled(f) => state'[f] = state[f]
        /\ state'[d] # state[d] => state' # state
    BY <1>1, <1>5 DEF SettlesFirst, IInv, TypeOK
  <1>7. OwedFollow
    <2>1. Continue(t, rest) \/ Settles(t, d, rest)
      BY <1>1 DEF Drop, Settles, BrokenUnlessSettled, IInv, TypeOK, FutureStates, IsSettled
    <2>2. \A u \in Threads : \A e, x \in Futures :
              /\ Owes(u, e, x) => Owes(u, e, x)' \/ (u = t /\ x \in done)
              /\ Owes(u, e, x)' => Owes(u, e, x)
      BY <1>1, <2>1, StackStep
    <2>3. ASSUME NEW f \in Futures, NEW e \in Derived, Owes(t, e, f), f \in done
          PROVE  IsSettled(f) /\ kind[e] = "WhenAll"
      BY <2>3 DEF DropsReference
    <2>4. ASSUME NEW f \in Futures, NEW e \in Derived, Owed(f, e), ~Owed(f, e)'
          PROVE  IsSettled(f) /\ kind[e] = "WhenAll"
      BY <1>1, <2>2, <2>3, <2>4 DEF Owed
    <2>5. \A f \in Futures : \A e \in Derived : Owed(f, e)' => Owed(f, e)
      BY <1>1, <2>2 DEF Owed
    <2>. QED  BY <2>4, <2>5 DEF OwedFollow
  <1>8. ASSUME NEW e \in Derived, Local \in holders'[e]
        PROVE  \E u \in Threads : Combining(u, e)'
    <2>1. Local \in holders[e] /\ (h = Local => e # d)
      BY <1>2, <1>8
    <2>2. PICK u \in Threads : Combining(u, e)
      BY <2>1 DEF RInv, HoldersWaiting
    <2>3. u = t => 1 <= Len(rest)
      <3>1. CASE h = Local /\ u = t
        <4>1. CallIn(stack[t], 1, "combine", d) /\ CallIn(stack[t], 1, "combine", e)
          BY <1>1, <2>2, <3>1, CombiningByDepth DEF DropsReference
        <4>. QED  BY <2>1, <3>1, <4>1 DEF CallIn
      <3>. QED  BY <1>1, <3>1 DEF DropsReference
    <2>. QED  BY <1>1, <1>5, <2>2, <2>3, CombinersKept DEF Proceeds
  <1>9. ReferencesFollow(H)
    <2>1. ASSUME NEW e \in Derived, NEW f \in Futures
          PROVE  /\ kind[e] = "Then" /\ f \in holders[e] =>
                        f \in holders'[e] \/ <<"clear", f, e>> \in H
                 /\ <<"clear", f, e>> \in H => f \notin holders'[e]
                 /\ <<"run", f, e>> \in H =>
                        /\ f \notin holders'[e] \/ IsSettled(e)'
                        /\ kind[e] \in {"Then", "WhenAny"} => IsSettled(e)'
      <3>1. e = d /\ f = h /\ kind[d] = "Then" => <<"clear", f, e>> \in H
        BY <1>1 DEF DropsReference
      <3>. QED  BY <1>2, <1>3, <3>1
    <2>. QED  BY <1>2, <1>8, <2>1 DEF ReferencesFollow
  <1>10. LastHolderSettles'
    <2>1. ASSUME NEW e \in Derived, kind[e] \in {"Then", "WhenAll"}
          PROVE  /\ ~IsSettled(e)' => holders'[e] # {}
                 /\ kind[e] = "WhenAll" /\ IsSettled(e)' => holders'[e] = {}
      <3>1. /\ ~IsSettled(e) => holders[e] # {}
            /\ kind[e] = "WhenAll" /\ IsSettled(e) => holders[e] = {}
        BY <2>1 DEF RInv, LastHolderSettles
      <3>2. IsSettled(e) => IsSettled(e)'
        BY <1>1, <1>6 DEF IsSettled
      <3>3. CASE e # d
        BY <1>1, <1>2, <1>6, <3>1, <3>3 DEF IsSettled
      <3>4. CASE e = d
        <4>1. IsSettled(d)' => IsSettled(d) \/ holders[d] = {h}
          BY <1>5 DEF IsSettled
        <4>2. holders'[d] = holders[d] \ {h}
          BY <1>2
        <4>3. holders[d] = {h} => IsSettled(d)'
          BY <1>5, <2>1, <3>4
        <4>. QED  BY <3>1, <3>2, <3>4, <4>1, <4>2, <4>3
      <3>. QED  BY <3>3, <3>4
    <2>. QED  BY <2>1 DEF LastHolderSettles
  <1>11. CallableOrBroken'
    <2>1. ASSUME NEW e \in Derived, kind[e] = "Then"
          PROVE  /\ runs[e] = (IF state'[e] \in {"Ready", "Exception"} THEN 1 ELSE 0)
                 /\ state'[e] = "BrokenPromise" => \A f \in inputs[e] : state'[f] = "BrokenPromise"
      <3>1. /\ runs[e] = (IF state[e] \in {"Ready", "Exception"} THEN 1 ELSE 0)
            /\ state[e] = "BrokenPromise" => \A f \in inputs[e] : state[f] = "BrokenPromise"
            /\ inputs[e] \subseteq Futures
        BY <2>1 DEF RInv, CallableOrBroken, IInv, TypeOK
      <3>2. \A f \in inputs[e] : state[f] = "BrokenPromise" => state'[f] = "BrokenPromise"
        BY <1>6, <3>1 DEF IsSettled
      <3>3. CASE state'[e] = state[e]
        BY <3>1, <3>2, <3>3
      <3>4. CASE state'[e] # state[e]
        <4>1. e = d /\ ~IsSettled(d) /\ state'[d] = "BrokenPromise" /\ holders[d] = {h}
          BY <1>1, <1>5, <1>6, <2>1, <3>4
        <4>2. ASSUME NEW f \in inputs[d]
              PROVE  state'[f] = "BrokenPromise"
          <5>1. f \in Futures /\ f # d
            BY DEF IInv, TypeOK, RInv, StoredOnce
          <5>2. IsSettled(d)'
            BY <4>1 DEF IsSettled
          <5>3. IsSettled(f)'
            BY <2>1, <4>1, <5>2 DEF IInv, SettledAfterInputs
          <5>4. state'[f] = state[f] /\ state'[f] \in FutureStates /\ state[f] # "Undefined"
            BY <1>6, <5>1, <5>3 DEF IsSettled, IInv, TypeOK
          <5>5. ~Awaits("run", f, d) /\ ~Owed(f, d)
            BY <1>4, <2>1, <4>1, <5>1
          <5>6. state[f] \notin {"Ready", "Exception"}
            BY <2>1, <4>1, <5>5 DEF RInv, InputsAwaited
          <5>. QED  BY <5>4, <5>6 DEF FutureStates
        <4>3. state[d] = "Undefined"
          BY <4>1 DEF IsSettled
        <4>. QED  BY <3>1, <4>1, <4>2, <4>3
      <3>. QED  BY <3>3, <3>4
    <2>. QED  BY <2>1 DEF CallableOrBroken
  <1>12. CallableGone(d, H)
    <2>1. ASSUME kind[d] = "Then", ~IsSettled(d), IsSettled(d)', NEW f \in Futures
          PROVE  ~Awaits("run", f, d) /\ ~Owed(f, d)
      BY <1>4, <1>5, <2>1 DEF IsSettled
    <2>2. \A f \in Futures : Owed(f, d)' => Owed(f, d)
      BY <1>7 DEF OwedFollow
    <2>. QED  BY <2>1, <2>2 DEF CallableGone
  <1>13. \A e \in Derived : kind[e] = "Then" /\ <<"run", e>> \in N => InsideFor(rest, e)
    <2>1. \A e : <<"run", e>> \in N => e = d
      BY <1>5 DEF SettlesFirst
    <2>. QED  BY <1>5, <2>1
  <1>14. /\ \A e \in Derived : kind[e] = "none" => runs'[e] = 0
         /\ alive' \subseteq alive
    BY DEF RInv
  <1>. QED  BY <1>1, <1>5, <1>7, <1>9, <1>10, <1>11, <1>12, <1>13, <1>14, GraphStep

\* The continuation of d, the result of Then or WhenAny, runs because a loop over those of f
\* has come to it, or because a combinator has found that f is settled.
RunsFor(t, rest, H, done, d, f) ==
    \/ /\ H = {<<"run", f, d>>} /\ done = {}
       /\ CallIn(rest, Len(rest), "run", f) /\ Awaits("run", f, d)
    \/ /\ H = {} /\ done = {f}
       /\ CallIn(rest, Len(rest), "combine", d) /\ Owes(t, d, f)
       /\ \A e \in Derived : Owes(t, e, f) => e = d
       /\ ~Owes(t, d, f)'

LEMMA RunGraphStep ==
    ASSUME IInv, IInv', RInv, NEW t \in Threads, NEW rest, NEW H, Proceeds(t, rest, H),
           NEW done, Shrinks(t, rest, done), NEW d \in Derived, kind[d] \in {"Then", "WhenAny"},
           NEW f \in Futures, f \in inputs[d], IsSettled(f),
           RunsFor(t, rest, H, done, d, f), RunContinuation(t, d, f, rest),
           UNCHANGED <<continuations, alive, kind, inputs>>
    PROVE  RInv'
  <1>1. d \in Futures /\ \A e \in Derived : e \in Futures
    BY DEF Futures
  <1>2. holders' = holders /\ 1 <= Len(rest)
    <2>1. rest \in Seq(Frames)
      BY DEF Proceeds, Keeps
    <2>2. \A c, x : CallIn(rest, Len(rest), c, x) => 1 <= Len(rest)
      BY <2>1 DEF CallIn
    <2>. QED  BY <2>2 DEF RunContinuation, RunsFor
  <1>3. \A x \in Futures : Awaits("run", x, d) => Waiting(x, d) /\ x \in inputs[d]
    BY DEF Awaits, AwaitIn, Waiting, Stored, IInv, ContinuationsDerived
  <1>4. kind[d] = "Then" => ~IsSettled(d) /\ \A x \in inputs[d] : x = f
    <2>1. kind[d] = "Then" => \A x \in inputs[d] : x = f
      BY DEF IInv, KindsApart
    <2>2. Awaits("run", f, d) \/ Owed(f, d)
      BY DEF RunsFor, Owed
    <2>. QED  BY <2>1, <2>2 DEF RInv, CallableOnce
  <1>5. PICK N :
            /\ Pushes(t, rest, N) /\ SettlesFirst(d, N) /\ IsSettled(d)'
            /\ kind[d] = "Then" =>
                   runs' = [runs EXCEPT ![d] = @ + 1] /\ state'[d] \in {"Ready", "Exception"}
            /\ kind[d] = "WhenAny" => runs' = runs
    <2>1. CASE kind[d] = "WhenAny" /\ IsSettled(d)
      <3>1. Continue(t, rest) /\ runs' = runs
        BY <2>1 DEF RunContinuation
      <3>2. Pushes(t, rest, {}) /\ SettlesFirst(d, {}) /\ IsSettled(d)'
        BY <2>1, <3>1 DEF Continue, Pushes, SettlesFirst, IsSettled
      <3>. QED  BY <2>1, <3>1, <3>2
    <2>2. CASE ~IsSettled(d)
      <3>1. PICK s \in {"Ready", "Exception"} :
                /\ Settle(t, d, s, "run", rest)
                /\ kind[d] = "Then" => runs' = [runs EXCEPT ![d] = @ + 1]
                /\ kind[d] = "WhenAny" => runs' = runs
        BY <2>2 DEF RunContinuation
      <3>. DEFINE N == Begun("run", d)
      <3>2. "run" \in Loops /\ s \in FutureStates \ {"Undefined"}
        BY DEF Loops, FutureStates
      <3>3. Pushes(t, rest, N) /\ \A e \in Derived : Waiting(d, e) => <<"run", d>> \in N
        BY <1>1, <2>2, <3>1, <3>2, SettlePushes, UnsettledNoLoop
      <3>4. <<"clear", d>> \notin N /\ \A x \in N : x[2] = d
        BY DEF Begun
      <3>. HIDE DEF N
      <3>5. state' = [state EXCEPT ![d] = s] /\ IsSettled(d)' /\ state'[d] = s
        BY <1>1, <3>1, <3>2 DEF Settle, IInv, TypeOK, IsSettled
      <3>6. SettlesFirst(d, N)
        BY <2>2, <3>2, <3>3, <3>4, <3>5 DEF SettlesFirst
      <3>. QED  BY <3>1, <3>3, <3>5, <3>6
    <2>. QED  BY <1>4, <2>1, <2>2
  <1>6. /\ \A x \in Futures : x # d => state'[x] = state[x]
        /\ \A x \in Futures : IsSettled(x) => state'[x] = state[x]
    BY <1>1, <1>5 DEF SettlesFirst, IInv, TypeOK
  <1>7. /\ \A x \in Futures : \A e \in Derived : Owed(x, e)' => Owed(x, e)
        /\ \A x \in Futures : \A e \in Derived : Owed(x, e) /\ ~Owed(x, e)' => x = f /\ e = d
    <2>1. Continue(t, rest) \/ Settles(t, d, rest)
      BY DEF RunContinuation, Settles, FutureStates
    <2>2. \A u \in Threads : \A e, x \in Futures :
              /\ Owes(u, e, x) => Owes(u, e, x)' \/ (u = t /\ x \in done)
              /\ Owes(u, e, x)' => Owes(u, e, x)
      BY <1>1, <2>1, StackStep
    <2>3. ASSUME NEW x \in Futures, NEW e \in Derived, Owes(t, e, x), x \in done
          PROVE  x = f /\ e = d
      BY <2>3 DEF RunsFor
    <2>4. ASSUME NEW x \in Futures, NEW e \in Derived, Owed(x, e), ~Owed(x, e)'
          PROVE  x = f /\ e = d
      BY <1>1, <2>2, <2>3, <2>4 DEF Owed
    <2>. QED  BY <1>1, <2>2, <2>4 DEF Owed
  <1>8. OwedFollow
    BY <1>5, <1>7 DEF OwedFollow
  <1>9. \A u \in Threads : \A e \in Futures : Combining(u, e) => Combining(u, e)'
    BY <1>2, <1>5, CombinersKept DEF Proceeds
  <1>10. ReferencesFollow(H)
    <2>1. \A c, x, e : <<c, x, e>> \in H => c = "run" /\ e = d
      BY DEF RunsFor
    <2>2. \A e \in Derived : Local \in holders[e] => \E u \in Threads : Combining(u, e)'
      BY <1>1, <1>9 DEF RInv, HoldersWaiting
    <2>3. \A x, e : <<"clear", x, e>> \notin H
      BY <2>1
    <2>4. \A x, e : <<"run", x, e>> \in H => e = d
      BY <2>1
    <2>. QED  BY <1>2, <1>5, <2>2, <2>3, <2>4 DEF ReferencesFollow
  <1>11. LastHolderSettles'
    <2>1. \A e \in Derived : e # d => (IsSettled(e)' <=> IsSettled(e))
      BY <1>1, <1>6 DEF IsSettled
    <2>. QED  BY <1>2, <1>5, <2>1 DEF RInv, LastHolderSettles
  <1>12. CallableOrBroken'
    <2>1. ASSUME NEW e \in Derived, kind[e] = "Then"
          PROVE  /\ runs'[e] = (IF state'[e] \in {"Ready", "Exception"} THEN 1 ELSE 0)
                 /\ state'[e] = "BrokenPromise" => \A x \in inputs[e] : state'[x] = "BrokenPromise"
      <3>1. /\ runs[e] = (IF state[e] \in {"Ready", "Exception"} THEN 1 ELSE 0)
            /\ state[e] = "BrokenPromise" => \A x \in inputs[e] : state[x] = "BrokenPromise"
            /\ inputs[e] \subseteq Futures
        BY <2>1 DEF RInv, CallableOrBroken, IInv, TypeOK
      <3>2. CASE e # d
        <4>1. runs'[e] = runs[e] /\ state'[e] = state[e]
          BY <1>1, <1>5, <1>6, <3>2 DEF IInv, TypeOK
        <4>2. \A x \in inputs[e] : state[x] = "BrokenPromise" => state'[x] = "BrokenPromise"
          BY <1>6, <3>1 DEF IsSettled
        <4>. QED  BY <3>1, <4>1, <4>2
      <3>3. CASE e = d
        <4>1. runs[d] = 0
          BY <1>4, <2>1, <3>1, <3>3 DEF IsSettled
        <4>2. runs'[d] = 1 /\ state'[d] \in {"Ready", "Exception"}
          BY <1>5, <2>1, <3>3, <4>1 DEF IInv, TypeOK
        <4>. QED  BY <3>3, <4>2
      <3>. QED  BY <3>2, <3>3
    <2>. QED  BY <2>1 DEF CallableOrBroken
  <1>13. CallableGone(d, H)
    <2>1. ASSUME kind[d] = "Then", NEW x \in Futures
          PROVE  /\ Awaits("run", x, d) => <<"run", x, d>> \in H
                 /\ ~Owed(x, d)'
      <3>1. CASE H = {<<"run", f, d>>} /\ Awaits("run", f, d)
        <4>1. ~Owed(f, d)
          BY <1>3, <3>1 DEF RInv, StoredOnce
        <4>2. Owed(x, d) => x \in inputs[d]
          BY <1>1 DEF Owed, IInv, CombinersApart
        <4>. QED  BY <1>3, <1>4, <1>7, <2>1, <3>1, <4>1, <4>2
      <3>2. CASE Owes(t, d, f) /\ ~Owes(t, d, f)'
        <4>1. Owed(f, d)
          BY <3>2 DEF Owed
        <4>2. ~Awaits("run", f, d)
          BY <1>3, <4>1 DEF RInv, StoredOnce
        <4>3. Owed(x, d) => x \in inputs[d]
          BY <1>1 DEF Owed, IInv, CombinersApart
        <4>4. ~Owed(f, d)'
          <5>1. Continue(t, rest) \/ Settles(t, d, rest)
            BY DEF RunContinuation, Settles, FutureStates
          <5>2. \A u \in Threads : Owes(u, d, f)' => Owes(u, d, f)
            BY <1>1, <5>1, StackStep
          <5>3. \A u \in Threads : Owes(u, d, f) => u = t
            BY <1>1, <3>2 DEF Owes, Combining, IInv, CombinersApart
          <5>. QED  BY <3>2, <5>2, <5>3 DEF Owed
        <4>. QED  BY <1>3, <1>4, <1>7, <2>1, <4>2, <4>3, <4>4
      <3>. QED  BY <3>1, <3>2 DEF RunsFor
    <2>. QED  BY <2>1 DEF CallableGone
  <1>14. \A e \in Derived : kind[e] = "Then" /\ <<"run", e>> \in N => InsideFor(rest, e)
    <2>1. \A e : <<"run", e>> \in N => e = d
      BY <1>5 DEF SettlesFirst
    <2>2. InsideFor(rest, d)
      BY <1>3 DEF RunsFor, InsideFor
    <2>. QED  BY <2>1, <2>2
  <1>15. \A e \in Derived : kind[e] = "none" => runs'[e] = 0
    <2>1. \A e \in Derived : e # d => runs'[e] = runs[e]
      BY <1>5 DEF IInv, TypeOK
    <2>. QED  BY <2>1 DEF RInv
  <1>. QED  BY <1>1, <1>5, <1>8, <1>10, <1>11, <1>12, <1>13, <1>14, <1>15, GraphStep

\* The innermost call goes on at the same depth.
LEMMA TopKept ==
    ASSUME IInv, NEW t \in Threads, ~Idle(t), NEW f \in Futures
    PROVE  /\ CallIn(Advanced(t), Len(Advanced(t)), Top(t).call, Top(t).future)
           /\ CallIn(Registered(t, f), Len(Registered(t, f)), Top(t).call, Top(t).future)
           /\ 1 <= Len(Advanced(t)) /\ 1 <= Len(Registered(t, f))
  <1>. DEFINE tail == Tail(stack[t])
              next == [Top(t) EXCEPT !.idx = @ + 1]
              done == [Top(t) EXCEPT !.todo = @ \ {f}]
  <1>1. tail \in Seq(Frames) /\ Len(tail) \in Nat /\ Top(t) \in Frames
    BY StackOf
  <1>2. /\ next \in Frames /\ next.call = Top(t).call /\ next.future = Top(t).future
        /\ done \in Frames /\ done.call = Top(t).call /\ done.future = Top(t).future
    BY <1>1 DEF Frames
  <1>3. Advanced(t) = <<next>> \o tail /\ Registered(t, f) = <<done>> \o tail
    BY DEF Advanced, Registered
  <1>. HIDE DEF tail, next, done
  <1>4. /\ Len(<<next>> \o tail) = Len(tail) + 1 /\ Len(<<done>> \o tail) = Len(tail) + 1
    BY <1>1, <1>2, CallsInPush
  <1>5. \A k, c, x :
            /\ k = Len(tail) + 1 /\ next.call = c /\ next.future = x => CallIn(<<next>> \o tail, k, c, x)
            /\ k = Len(tail) + 1 /\ done.call = c /\ done.future = x => CallIn(<<done>> \o tail, k, c, x)
    BY <1>1, <1>2, CallInPush
  <1>6. /\ CallIn(<<next>> \o tail, Len(<<next>> \o tail), Top(t).call, Top(t).future)
        /\ CallIn(<<done>> \o tail, Len(<<done>> \o tail), Top(t).call, Top(t).future)
    BY <1>2, <1>4, <1>5, Zenon
  <1>7. 1 <= Len(<<next>> \o tail) /\ 1 <= Len(<<done>> \o tail)
    BY <1>1, <1>4
  <1>. QED  BY <1>3, <1>6, <1>7, Zenon

LEMMA HandleGraphStep ==
    ASSUME IInv, IInv', RInv, NEW t \in Threads, RunNext(t) \/ ClearNext(t)
    PROVE  RInv'
  <1>. PICK f, i, c, rest :
           f = Top(t).future /\ i = Top(t).idx /\ c = Top(t).call /\ rest = Advanced(t)
    OBVIOUS
  <1>1. /\ ~Idle(t) /\ c \in Loops /\ i <= Len(continuations[f])
        /\ RunNext(t) => c = "run"
        /\ ClearNext(t) => c = "clear"
    BY DEF RunNext, ClearNext, In, Loops
  <1>2. /\ Top(t) \in Frames /\ Top(t) \in CallsIn(stack[t])
        /\ LoopIn(stack[t], Len(stack[t]), c, f, i) /\ Len(stack[t]) \in Nat
    BY <1>1, StackOf
  <1>3. f \in Futures /\ i \in Nat \ {0}
    BY <1>2 DEF Frames
  <1>4. continuations[f] \in Seq(Derived)
    BY <1>3 DEF IInv, TypeOK
  <1>5. i \in 1..Len(continuations[f])
    BY <1>1, <1>3, <1>4
  <1>. PICK d \in Derived : d = continuations[f][i]
    BY <1>4, <1>5
  <1>6. kind[d] # "none" /\ f \in inputs[d] /\ kind[d] \in Kinds
    BY <1>3, <1>5 DEF IInv, ContinuationsDerived, TypeOK
  <1>7. Stored(f, i, d) /\ IsSettled(f)
    BY <1>1, <1>2, <1>5 DEF Stored, IInv, LoopsSettled, Loops
  <1>8. /\ Proceeds(t, rest, {<<c, f, d>>}) /\ Shrinks(t, rest, {})
        /\ CallIn(rest, Len(rest), c, f) /\ 1 <= Len(rest)
    BY <1>1, <1>3, <1>7, ProceedsAdvanced, ShrinksAdvanced, TopKept DEF RInv, Loops
  <1>9. Awaits(c, f, d)
    BY <1>2, <1>3, <1>7 DEF Awaits, AwaitIn
  <1>10. CASE RunNext(t) /\ kind[d] # "WhenAll"
    <2>1. RunContinuation(t, d, f, rest) /\ UNCHANGED <<continuations, alive, kind, inputs>>
      BY <1>10 DEF RunNext
    <2>2. c = "run" /\ RunsFor(t, rest, {<<"run", f, d>>}, {}, d, f)
      BY <1>1, <1>8, <1>9, <1>10 DEF RunsFor
    <2>. QED  BY <1>3, <1>6, <1>7, <1>8, <1>10, <2>1, <2>2, RunGraphStep DEF Kinds
  <1>11. CASE RunNext(t) /\ kind[d] = "WhenAll"
    <2>1. /\ Drop(t, d, f, rest)
          /\ UNCHANGED <<continuations, alive, kind, inputs, runs>>
      BY <1>11 DEF RunNext, RunContinuation
    <2>2. c = "run" /\ DropsReference(t, rest, {<<"run", f, d>>}, {}, d, f)
      BY <1>1, <1>3, <1>8, <1>11 DEF DropsReference
    <2>. QED  BY <1>6, <1>8, <2>1, <2>2, DropGraphStep
  <1>12. CASE ClearNext(t)
    <2>1. /\ Drop(t, d, f, rest)
          /\ UNCHANGED <<continuations, alive, kind, inputs, runs>>
      BY <1>12 DEF ClearNext
    <2>2. c = "clear" /\ DropsReference(t, rest, {<<"clear", f, d>>}, {}, d, f)
      BY <1>1, <1>3, <1>8, <1>12 DEF DropsReference
    <2>. QED  BY <1>6, <1>8, <2>1, <2>2, DropGraphStep
  <1>. QED  BY <1>10, <1>11, <1>12

\* What a thread in a combinator is doing.
LEMMA CombinerOf ==
    ASSUME IInv, NEW t \in Threads, In(t, "combine")
    PROVE  LET d == Top(t).future IN
           /\ ~Idle(t) /\ d \in Derived /\ kind[d] # "none" /\ kind[d] \in Kinds
           /\ Combining(t, d) /\ Len(stack[t]) = 1 /\ CallsIn(stack[t]) = {Top(t)}
           /\ kind[d] \in {"Then", "WhenAll"} => Local \in holders[d]
           /\ \A e \in Derived : e # d => ~Combining(t, e)
           /\ \A f \in Futures : Owes(t, d, f) <=> f \in Top(t).todo
           /\ \A f \in Futures : Owed(f, d) => Owes(t, d, f) /\ f \in inputs[d]
           /\ Top(t).todo \subseteq Futures
  <1>. DEFINE d == Top(t).future
  <1>1. ~Idle(t) /\ Top(t).call = "combine"
    BY DEF In
  <1>2. /\ stack[t] \in Seq(Frames) /\ Top(t) \in CallsIn(stack[t]) /\ Top(t) \in Frames
        /\ CallIn(stack[t], Len(stack[t]), "combine", d)
        /\ Len(stack[t]) \in Nat
    BY <1>1, StackOf
  <1>3. d \in Futures /\ Top(t).todo \subseteq Futures
    BY <1>2 DEF Frames
  <1>4. Combining(t, d)
    BY <1>1, <1>2 DEF Combining
  <1>5. Len(stack[t]) = 1
    <2>1. stack[t][1] = Top(t) /\ 1 \in 1..Len(stack[t])
      BY <1>2, CallsInTail, <1>1 DEF Top, Idle
    <2>. QED  BY <1>1, <2>1 DEF IInv, CombinersApart
  <1>6. CallsIn(stack[t]) = {Top(t)}
    <2>1. stack[t][1] = Top(t) /\ stack[t] # <<>>
      BY <1>2, CallsInTail, <1>1 DEF Top, Idle
    <2>2. \A i \in 1..Len(stack[t]) : i = 1
      BY <1>5
    <2>. QED  BY <1>2, <2>1, <2>2 DEF CallsIn
  <1>7. d \in Derived /\ kind[d] # "none" /\ (kind[d] \in {"Then", "WhenAll"} => Local \in holders[d])
    BY <1>3, <1>4 DEF IInv, CombinersApart
  <1>8. kind[d] \in Kinds
    BY <1>7 DEF IInv, TypeOK
  <1>9. \A e \in Derived : e # d => ~Combining(t, e)
    BY <1>6 DEF Combining
  <1>10. \A f \in Futures : Owes(t, d, f) <=> f \in Top(t).todo
    BY <1>1, <1>6 DEF Owes
  <1>11. ASSUME NEW f \in Futures, Owed(f, d)
         PROVE  Owes(t, d, f) /\ f \in inputs[d]
    <2>1. PICK u \in Threads : Owes(u, d, f)
      BY <1>11 DEF Owed
    <2>2. Combining(u, d)
      BY <2>1 DEF Owes, Combining
    <2>3. u = t
      BY <1>3, <1>4, <2>2 DEF IInv, CombinersApart
    <2>. QED  BY <1>3, <2>1, <2>3 DEF IInv, CombinersApart
  <1>. QED  BY <1>1, <1>3, <1>4, <1>5, <1>6, <1>7, <1>8, <1>9, <1>10, <1>11

LEMMA EndCombineGraphStep ==
    ASSUME IInv, IInv', RInv, NEW t \in Threads, EndCombine(t)
    PROVE  RInv'
  <1>1. /\ In(t, "combine") /\ Top(t).todo = {}
        /\ UNCHANGED <<continuations, alive, kind, inputs, runs>>
        /\ Drop(t, Top(t).future, Local, Tail(stack[t]))
    BY DEF EndCombine
  <1>. PICK d : d = Top(t).future
    OBVIOUS
  <1>. PICK rest : rest = Tail(stack[t])
    OBVIOUS
  <1>2. /\ ~Idle(t) /\ d \in Derived /\ kind[d] # "none"
        /\ Combining(t, d) /\ Len(stack[t]) = 1
        /\ \A f \in Futures : ~Owed(f, d)
    BY <1>1, CombinerOf
  <1>3. Proceeds(t, rest, {}) /\ Shrinks(t, rest, {})
    BY <1>1, <1>2, ProceedsTail, ShrinksTail DEF In
  <1>4. DropsReference(t, rest, {}, {}, d, Local)
    BY <1>2 DEF DropsReference
  <1>5. Drop(t, d, Local, rest)
    BY <1>1
  <1>. QED  BY <1>1, <1>2, <1>3, <1>4, <1>5, DropGraphStep

LEMMA RegisteredOwes ==
    ASSUME IInv, NEW t \in Threads, In(t, "combine"), NEW f \in Futures, NEW g \in Futures,
           Continue(t, Registered(t, f)) \/ Settles(t, g, Registered(t, f))
    PROVE  \A d : ~Owes(t, d, f)'
  <1>. DEFINE tail == Tail(stack[t])
              next == [Top(t) EXCEPT !.todo = @ \ {f}]
              rest == <<next>> \o tail
  <1>1. /\ tail \in Seq(Frames) /\ Len(tail) \in Nat /\ Top(t) \in Frames
        /\ Len(stack[t]) = Len(tail) + 1 /\ Len(stack[t]) = 1
    BY StackOf, CombinerOf
  <1>2. next \in Frames /\ f \notin next.todo
    BY <1>1 DEF Frames
  <1>3. CallsIn(tail) = {}
    <2>1. Len(tail) = 0
      BY <1>1
    <2>2. \A i \in 1..0 : FALSE
      OBVIOUS
    <2>. QED  BY <2>1, <2>2, Zenon DEF CallsIn
  <1>. HIDE DEF tail, next
  <1>4. rest \in Seq(Frames) /\ CallsIn(rest) = {next}
    BY <1>1, <1>2, <1>3, CallsInPush
  <1>5. Registered(t, f) = rest
    BY DEF Registered, next, tail
  <1>. HIDE DEF rest
  <1>6. stack \in [Threads -> Seq(Frames)]
    BY DEF IInv, TypeOK
  <1>7. \A c \in CallsIn(stack'[t]) : c = next \/ c.call \in {"run", "clear"}
    <2>1. CASE stack' = [stack EXCEPT ![t] = rest]
      BY <1>4, <1>6, <2>1
    <2>2. ASSUME NEW call \in {"run", "clear"},
                 stack' = [stack EXCEPT ![t] = <<Frame(call, g, {})>> \o rest]
          PROVE  \A c \in CallsIn(stack'[t]) : c = next \/ c.call \in {"run", "clear"}
      <3>1. Frame(call, g, {}) \in Frames /\ Frame(call, g, {}).call = call
        BY FrameType DEF Frame
      <3>2. CallsIn(<<Frame(call, g, {})>> \o rest) = {Frame(call, g, {})} \union CallsIn(rest)
        BY <1>4, <3>1, CallsInPush
      <3>3. stack'[t] = <<Frame(call, g, {})>> \o rest
        BY <1>6, <2>2
      <3>. QED  BY <1>4, <3>1, <3>2, <3>3
    <2>. QED  BY <1>5, <2>1, <2>2 DEF Continue, Settles, Settle
  <1>. QED  BY <1>2, <1>7 DEF Owes

\* A combinator finds an input that is settled.
LEMMA RegisterSettledGraphStep ==
    ASSUME IInv, IInv', RInv, NEW t \in Threads, NEW f \in Futures, RegisterInput(t, f), IsSettled(f)
    PROVE  RInv'
  <1>. PICK d : d = Top(t).future
    OBVIOUS
  <1>. PICK rest : rest = Registered(t, f)
    OBVIOUS
  <1>1. /\ In(t, "combine") /\ f \in Top(t).todo
        /\ RunContinuation(t, d, f, rest)
        /\ UNCHANGED <<continuations, alive, kind, inputs>>
    BY DEF RegisterInput
  <1>2. /\ ~Idle(t) /\ d \in Derived /\ kind[d] # "none" /\ kind[d] \in Kinds
        /\ \A e \in Derived : e # d => ~Combining(t, e)
        /\ Owes(t, d, f) /\ f \in inputs[d]
    <2>1. Owes(t, d, f) => Owed(f, d)
      BY DEF Owed
    <2>. QED  BY <1>1, <2>1, CombinerOf
  <1>3. \A e \in Derived : Owes(t, e, f) => e = d
    BY <1>2 DEF Owes, Combining
  <1>4. /\ Proceeds(t, rest, {}) /\ Shrinks(t, rest, {f})
        /\ CallIn(rest, Len(rest), "combine", d) /\ 1 <= Len(rest)
    BY <1>1, <1>2, ProceedsRegistered, ShrinksRegistered, TopKept DEF In
  <1>5. ~Owes(t, d, f)'
    <2>1. d \in Futures
      BY <1>2 DEF Futures
    <2>2. Continue(t, rest) \/ Settles(t, d, rest)
      BY <1>1, <1>2, <2>1 DEF RunContinuation, Drop, Settles, BrokenUnlessSettled, IInv, TypeOK,
                              FutureStates, IsSettled
    <2>. QED  BY <1>1, <2>1, <2>2, RegisteredOwes
  <1>6. CASE kind[d] = "WhenAll"
    <2>1. Drop(t, d, f, rest) /\ UNCHANGED runs
      BY <1>1, <1>6 DEF RunContinuation
    <2>2. DropsReference(t, rest, {}, {f}, d, f)
      BY <1>3, <1>4, <1>6 DEF DropsReference
    <2>. QED  BY <1>1, <1>2, <1>4, <2>1, <2>2, DropGraphStep
  <1>7. CASE kind[d] # "WhenAll"
    <2>1. kind[d] \in {"Then", "WhenAny"}
      BY <1>2, <1>7 DEF Kinds
    <2>2. RunsFor(t, rest, {}, {f}, d, f)
      BY <1>2, <1>3, <1>4, <1>5 DEF RunsFor
    <2>. QED  BY <1>1, <1>2, <1>4, <2>1, <2>2, RunGraphStep
  <1>. QED  BY <1>6, <1>7

\* The continuations of f change while no loop, or no loop any more, is over them.
LEMMA ContinuationsEdited ==
    ASSUME IInv, NEW t \in Threads, NEW rest, stack' = [stack EXCEPT ![t] = rest],
           NEW f \in Futures,
           \A u \in Threads : \A k \in Nat : \A c \in Loops : ~CallIn(stack'[u], k, c, f),
           \A x \in Futures \ {f} : \A i, e : Stored(x, i, e)' <=> Stored(x, i, e),
           \A c \in Loops : \A x \in Futures \ {f} : \A e \in Derived :
               AwaitIn(rest, c, x, e) <=> AwaitIn(stack[t], c, x, e),
           \A x \in Futures \ {f} : \A e \in Derived :
               DestroyedIn(rest, x, e) <=> DestroyedIn(stack[t], x, e)
    PROVE  \A x \in Futures : \A e \in Derived :
               /\ \A c \in Loops : Awaits(c, x, e)' <=> x # f /\ Awaits(c, x, e)
               /\ Destroyed(x, e)' <=> x # f /\ Destroyed(x, e)
  <1>1. stack'[t] = rest /\ \A u \in Threads : u # t => stack'[u] = stack[u]
    BY DEF IInv, TypeOK
  <1>2. ASSUME NEW e \in Derived
        PROVE  (\A c \in Loops : ~Awaits(c, f, e)') /\ ~Destroyed(f, e)'
    BY DEF Awaits, AwaitIn, Destroyed, DestroyedIn, LoopIn, Loops
  <1>3. \A u \in Threads : \A x \in Futures \ {f} : \A c, e :
            /\ AwaitIn(stack[u], c, x, e)' <=> AwaitIn(stack'[u], c, x, e)
            /\ DestroyedIn(stack[u], x, e)' <=> DestroyedIn(stack'[u], x, e)
    BY DEF AwaitIn, DestroyedIn
  <1>4. ASSUME NEW x \in Futures \ {f}, NEW e \in Derived
        PROVE  /\ \A c \in Loops : Awaits(c, x, e)' <=> Awaits(c, x, e)
               /\ Destroyed(x, e)' <=> Destroyed(x, e)
    BY <1>1, <1>3, ZenonT(60) DEF Awaits, Destroyed
  <1>. QED  BY <1>2, <1>4

\* A combinator stores its continuation in an input that is not settled.
LEMMA RegisterUnsettledGraphStep ==
    ASSUME IInv, IInv', RInv, NEW t \in Threads, NEW f \in Futures, RegisterInput(t, f), ~IsSettled(f)
    PROVE  RInv'
  <1>. PICK d : d = Top(t).future
    OBVIOUS
  <1>. PICK rest : rest = Registered(t, f)
    OBVIOUS
  <1>1. /\ In(t, "combine") /\ f \in Top(t).todo
        /\ continuations' = [continuations EXCEPT ![f] = Append(@, d)]
        /\ holders' = IF kind[d] = "WhenAny" THEN holders ELSE [holders EXCEPT ![d] = @ \union {f}]
        /\ Continue(t, rest)
        /\ UNCHANGED <<alive, kind, inputs, runs>>
    BY DEF RegisterInput
  <1>2. /\ ~Idle(t) /\ d \in Derived /\ kind[d] # "none" /\ kind[d] \in Kinds
        /\ Combining(t, d) /\ Len(stack[t]) = 1
        /\ kind[d] \in {"Then", "WhenAll"} => Local \in holders[d]
        /\ Owes(t, d, f) /\ Owed(f, d) /\ f \in inputs[d]
        /\ \A e \in Derived : e # d => ~Combining(t, e)
    <2>1. Owes(t, d, f) => Owed(f, d)
      BY DEF Owed
    <2>. QED  BY <1>1, <2>1, CombinerOf
  <1>3. /\ Proceeds(t, rest, {}) /\ Shrinks(t, rest, {f})
        /\ CallIn(rest, Len(rest), "combine", d) /\ 1 <= Len(rest)
    BY <1>1, <1>2, ProceedsRegistered, ShrinksRegistered, TopKept DEF In
  <1>4. ~Owed(f, d)'
    <2>1. ~Owes(t, d, f)'
      BY <1>1, RegisteredOwes
    <2>2. \A u \in Threads : Owes(u, d, f)' => Combining(u, d)'
      BY DEF Owes, Combining
    <2>3. d \in Futures
      BY <1>2 DEF Futures
    <2>4. \A u \in Threads : \A e \in Futures : Combining(u, e)' => Combining(u, e)
      BY <1>1, <1>3, StackStep
    <2>5. \A u \in Threads : Combining(u, d) => u = t
      BY <1>2, <2>3 DEF IInv, CombinersApart
    <2>. QED  BY <2>1, <2>2, <2>3, <2>4, <2>5 DEF Owed
  <1>5. /\ \A x \in Futures, e \in Derived : Owed(x, e)' => Owed(x, e)
        /\ \A x \in Futures, e \in Derived : Owed(x, e) /\ ~(x = f /\ e = d) => Owed(x, e)'
    <2>1. \A e \in Derived : e \in Futures
      BY DEF Futures
    <2>2. \A u \in Threads : \A e, x \in Futures :
              /\ Owes(u, e, x) => Owes(u, e, x)' \/ (u = t /\ x \in {f})
              /\ Owes(u, e, x)' => Owes(u, e, x)
      BY <1>1, <1>3, StackStep
    <2>3. \A e \in Derived, x \in Futures : Owes(t, e, x) => e = d
      BY <1>2 DEF Owes, Combining
    <2>. QED  BY <2>1, <2>2, <2>3 DEF Owed
  <1>6. /\ ~Waiting(f, d) /\ f \notin holders[d]
        /\ kind[d] \in {"Then", "WhenAll"} => ~IsSettled(d)
        /\ f # d
    <2>1. ~Waiting(f, d) /\ f # d
      BY <1>2 DEF RInv, StoredOnce
    <2>2. f \notin holders[d]
      BY <1>2, <2>1 DEF RInv, HoldersWaiting
    <2>3. kind[d] \in {"Then", "WhenAll"} => ~IsSettled(d)
      BY <1>2 DEF IInv, SettledAfterInputs
    <2>. QED  BY <2>1, <2>2, <2>3
  <1>7. \A e \in Derived : holders'[e] =
            IF e = d /\ kind[d] # "WhenAny" THEN holders[d] \union {f} ELSE holders[e]
    BY <1>1, <1>2 DEF IInv, TypeOK
  <1>8. \A x \in Futures : \A i, e : Stored(x, i, e)' <=>
            Stored(x, i, e) \/ (x = f /\ e = d /\ i = Len(continuations[f]) + 1)
    <2>. DEFINE old == continuations[f]
    <2>1. /\ old \in Seq(Derived) /\ continuations'[f] = Append(old, d)
          /\ \A x \in Futures : x # f => continuations'[x] = continuations[x]
      BY <1>1 DEF IInv, TypeOK
    <2>. HIDE DEF old
    <2>2. /\ Len(Append(old, d)) = Len(old) + 1 /\ Len(old) \in Nat
          /\ \A i \in 1..Len(old) : Append(old, d)[i] = old[i]
          /\ Append(old, d)[Len(old) + 1] = d
      BY <1>2, <2>1, AppendProperties
    <2>3. \A i : i \in 1..Len(old) + 1 <=> i \in 1..Len(old) \/ i = Len(old) + 1
      BY <2>2
    <2>4. Len(old) + 1 \notin 1..Len(old)
      BY <2>2
    <2>5. ASSUME NEW i, NEW e
          PROVE  Stored(f, i, e)' <=> Stored(f, i, e) \/ (e = d /\ i = Len(old) + 1)
      BY <2>1, <2>2, <2>3, <2>4 DEF Stored, old
    <2>. QED  BY <2>1, <2>5 DEF Stored, old
  <1>9. \A x \in Futures : \A e : Waiting(x, e)' <=> Waiting(x, e) \/ (x = f /\ e = d)
    <2>1. Len(continuations[f]) + 1 \in Nat
      BY DEF IInv, TypeOK
    <2>. QED  BY <1>8, <2>1 DEF Waiting
  <1>10. /\ stack' = [stack EXCEPT ![t] = rest] /\ rest \in Seq(Frames) /\ Pushes(t, rest, {})
         /\ state' = state
    BY <1>1, <1>3 DEF Continue, Pushes, Proceeds, Keeps
  <1>11. \A u \in Threads : \A k \in Nat : \A c, x :
             CallIn(stack'[u], k, c, x) => CallIn(stack[u], k, c, x)
    <2>1. \A k, c, x : CallIn(stack'[t], k, c, x) <=> CallIn(rest, k, c, x)
      <3>. PICK N : N = {}
        OBVIOUS
      <3>1. \A k, c, x : CallIn(stack'[t], k, c, x) <=>
                CallIn(rest, k, c, x) \/ (k = Len(rest) + 1 /\ <<c, x>> \in N)
        BY <1>10, CallsAfter
      <3>2. \A c, x : <<c, x>> \notin N
        OBVIOUS
      <3>. QED  BY <3>1, <3>2, Zenon
    <2>2. \A u \in Threads : u # t => stack'[u] = stack[u]
      BY <1>10, CallsAfter
    <2>. QED  BY <1>3, <2>1, <2>2 DEF Proceeds, Keeps
  <1>12. \A u \in Threads : \A e \in Futures : Combining(u, e) => Combining(u, e)'
    BY <1>3, <1>10, CombinersKept DEF Proceeds
  <1>13. \A x \in Futures : \A e \in Derived :
             /\ \A c \in Loops : Awaits(c, x, e)' <=> x # f /\ Awaits(c, x, e)
             /\ Destroyed(x, e)' <=> x # f /\ Destroyed(x, e)
    <2>1. \A u \in Threads : \A k \in Nat : \A c \in Loops : ~CallIn(stack'[u], k, c, f)
      BY <1>11, UnsettledNoLoop DEF NoLoop
    <2>2. /\ \A c \in Loops : \A x \in Futures \ {f} : \A e \in Derived :
                 AwaitIn(rest, c, x, e) <=> AwaitIn(stack[t], c, x, e)
          /\ \A x \in Futures \ {f} : \A e \in Derived :
                 DestroyedIn(rest, x, e) <=> DestroyedIn(stack[t], x, e)
      BY <1>3 DEF Proceeds, Keeps
    <2>3. \A x \in Futures \ {f} : \A i, e : Stored(x, i, e)' <=> Stored(x, i, e)
      BY <1>8
    <2>. QED  BY <1>10, <2>1, <2>2, <2>3, ContinuationsEdited
  <1>14. /\ \A c \in Loops : \A e \in Derived : ~Awaits(c, f, e)
         /\ \A e \in Derived : ~Destroyed(f, e)
    <2>1. NoLoop(f)
      BY UnsettledNoLoop
    <2>. QED  BY <2>1 DEF NoLoop, Awaits, AwaitIn, Destroyed, DestroyedIn, LoopIn, Loops
  <1>15. \A x \in Futures : IsSettled(x)' <=> IsSettled(x)
    BY <1>10 DEF IsSettled
  <1>16. \A e \in Derived : e \in Futures /\ inputs[e] \subseteq Futures
    BY DEF Futures, IInv, TypeOK
  <1>17. OneLoop' /\ ThenRunsInside'
    <2>1. \A x \in Futures : \A e : Waiting(x, e) => Waiting(x, e)'
      BY <1>9
    <2>2. \A e \in Derived : <<"run", e>> \notin {}
      OBVIOUS
    <2>3. OneLoop /\ ThenRunsInside /\ UNCHANGED <<kind, inputs>>
      BY <1>1 DEF RInv
    <2>. QED  BY <1>3, <1>10, <2>1, <2>2, <2>3, LoopsApart DEF Proceeds
  <1>18. StoredOnce'
    <2>1. ASSUME NEW e \in Derived, NEW x \in Futures
          PROVE  /\ \A i, j \in Nat : Stored(x, i, e)' /\ Stored(x, j, e)' => i = j
                 /\ Owed(x, e)' => ~Waiting(x, e)'
      <3>1. \A i \in Nat : ~Stored(f, i, d)
        BY <1>6 DEF Waiting
      <3>2. \A i, j \in Nat : Stored(x, i, e) /\ Stored(x, j, e) => i = j
        BY DEF RInv, StoredOnce
      <3>3. Owed(x, e) => ~Waiting(x, e)
        BY DEF RInv, StoredOnce
      <3>4. Owed(x, e)' => ~Waiting(x, e)'
        BY <1>4, <1>5, <1>9, <3>3
      <3>. QED  BY <1>8, <3>1, <3>2, <3>4
    <2>. QED  BY <1>1, <2>1 DEF RInv, StoredOnce
  <1>19. ClearedLast'
    <2>1. Local \notin Futures
      BY DisjointAssumption
    <2>2. ASSUME NEW u \in Threads, NEW k \in Nat, NEW x \in Futures, CallIn(stack'[u], k, "clear", x)
          PROVE  \/ x \in Promises \ alive
                 \/ x \in Derived /\ kind[x] = "Then" /\ holders'[x] = {}
      <3>1. CallIn(stack[u], k, "clear", x)
        BY <1>11, <2>2
      <3>2. \/ x \in Promises \ alive
            \/ x \in Derived /\ kind[x] = "Then" /\ holders[x] = {}
        BY <3>1 DEF RInv, ClearedLast
      <3>3. kind[d] = "Then" => holders[d] # {}
        BY <1>2
      <3>. QED  BY <1>7, <3>2, <3>3
    <2>. QED  BY <1>1, <2>2 DEF ClearedLast
  <1>20. HoldersWaiting'
    <2>1. Local # f
      BY DisjointAssumption
    <2>2. ASSUME NEW e \in Derived
          PROVE  /\ Local \in holders'[e] => \E u \in Threads : Combining(u, e)'
                 /\ \A x \in Futures : x \in holders'[e] => Waiting(x, e)' /\ ~Destroyed(x, e)'
                 /\ kind[e] = "Then" =>
                       \A x \in Futures : Waiting(x, e)' => x \in holders'[e] \/ Destroyed(x, e)'
      <3>1. /\ Local \in holders[e] => \E u \in Threads : Combining(u, e)
            /\ \A x \in Futures : x \in holders[e] => Waiting(x, e) /\ ~Destroyed(x, e)
            /\ kind[e] = "Then" =>
                  \A x \in Futures : Waiting(x, e) => x \in holders[e] \/ Destroyed(x, e)
        BY DEF RInv, HoldersWaiting
      <3>2. Local \in holders'[e] => Local \in holders[e]
        BY <1>7, <2>1
      <3>3. \A x \in Futures : x \in holders'[e] <=>
                x \in holders[e] \/ (x = f /\ e = d /\ kind[d] # "WhenAny")
        BY <1>7
      <3>4. kind[e] = "Then" => kind[e] # "WhenAny"
        OBVIOUS
      <3>5. \A x \in Futures : Destroyed(x, e)' <=> Destroyed(x, e)
        BY <1>13, <1>14
      <3>6. Local \in holders'[e] => \E u \in Threads : Combining(u, e)'
        BY <1>12, <1>16, <3>1, <3>2
      <3>7. \A x \in Futures : x \in holders'[e] => Waiting(x, e)' /\ ~Destroyed(x, e)'
        BY <1>9, <1>14, <3>1, <3>3, <3>5
      <3>8. kind[e] = "Then" =>
                \A x \in Futures : Waiting(x, e)' => x \in holders'[e] \/ Destroyed(x, e)'
        BY <1>9, <3>1, <3>3, <3>4, <3>5
      <3>. QED  BY <3>6, <3>7, <3>8
    <2>. QED  BY <1>1, <2>2 DEF HoldersWaiting
  <1>21. LastHolderSettles'
    <2>1. \A e \in Derived : IsSettled(e)' <=> IsSettled(e)
      BY <1>15, <1>16
    <2>2. kind[d] = "WhenAll" => ~IsSettled(d)
      BY <1>6
    <2>. QED  BY <1>1, <1>7, <2>1, <2>2 DEF RInv, LastHolderSettles
  <1>22. CallableOnce'
    <2>1. \A e \in Derived : IsSettled(e)' <=> IsSettled(e)
      BY <1>15, <1>16
    <2>2. "run" \in Loops
      BY DEF Loops
    <2>. QED  BY <1>1, <1>5, <1>13, <2>1, <2>2 DEF RInv, CallableOnce
  <1>23. InputsAwaited'
    <2>1. "run" \in Loops /\ "clear" \in Loops
      BY DEF Loops
    <2>2. ASSUME NEW e \in Derived, NEW x \in inputs[e], ~IsSettled(x)'
          PROVE  Waiting(x, e)' \/ Owed(x, e)'
      <3>1. x \in Futures /\ ~IsSettled(x)
        BY <1>15, <1>16, <2>2
      <3>2. Waiting(x, e) \/ Owed(x, e)
        BY <3>1 DEF RInv, InputsAwaited
      <3>. QED  BY <1>5, <1>9, <3>1, <3>2
    <2>3. ASSUME NEW e \in Derived, kind[e] \in {"Then", "WhenAll"}, ~IsSettled(e)',
                 NEW x \in Futures, x \in holders'[e], IsSettled(x)'
          PROVE  Awaits("run", x, e)' \/ Awaits("clear", x, e)'
      <3>1. IsSettled(x) /\ ~IsSettled(e) /\ x # f
        BY <1>15, <1>16, <2>3
      <3>2. x \in holders[e]
        BY <1>7, <2>3, <3>1
      <3>3. Awaits("run", x, e) \/ Awaits("clear", x, e)
        BY <2>3, <3>1, <3>2 DEF RInv, InputsAwaited
      <3>. QED  BY <1>13, <2>1, <3>1, <3>3
    <2>4. ASSUME NEW e \in Derived, kind[e] \in {"Then", "WhenAny"}, ~IsSettled(e)',
                 NEW x \in inputs[e], state[x] \in {"Ready", "Exception"}
          PROVE  Awaits("run", x, e)' \/ Owed(x, e)'
      <3>1. x \in Futures /\ ~IsSettled(e) /\ x # f
        BY <1>15, <1>16, <2>4 DEF IsSettled
      <3>2. Awaits("run", x, e) \/ Owed(x, e)
        BY <2>4, <3>1 DEF RInv, InputsAwaited
      <3>. QED  BY <1>5, <1>13, <2>1, <3>1, <3>2
    <2>. QED  BY <1>1, <1>10, <2>2, <2>3, <2>4 DEF InputsAwaited
  <1>24. CallableOrBroken'
    BY <1>1, <1>10 DEF RInv, CallableOrBroken
  <1>25. \A e \in Derived : kind'[e] = "none" => runs'[e] = 0 /\ holders'[e] = {}
    BY <1>1, <1>2, <1>7 DEF RInv
  <1>. QED  BY <1>17, <1>18, <1>19, <1>20, <1>21, <1>22, <1>23, <1>24, <1>25 DEF RInv

\* The innermost call of t returns: the other calls, and the loops over the continuations
\* of other futures, are as before.
LEMMA KeepsTail ==
    ASSUME IInv, NEW t \in Threads, ~Idle(t)
    PROVE  /\ Keeps(t, Tail(stack[t]))
           /\ \A k, c, f : CallIn(Tail(stack[t]), k, c, f) => k # Len(stack[t])
           /\ \A x \in Futures : \A d \in Derived : x # Top(t).future =>
                 /\ \A c \in Loops : AwaitIn(Tail(stack[t]), c, x, d) <=> AwaitIn(stack[t], c, x, d)
                 /\ DestroyedIn(Tail(stack[t]), x, d) <=> DestroyedIn(stack[t], x, d)
  <1>. DEFINE tail == Tail(stack[t])
  <1>1. /\ stack[t] \in Seq(Frames) /\ tail \in Seq(Frames) /\ Top(t) \in Frames
        /\ Len(stack[t]) \in Nat /\ Len(tail) \in Nat /\ Len(stack[t]) = Len(tail) + 1
        /\ stack[t] = <<Top(t)>> \o tail
    BY StackOf
  <1>. HIDE DEF tail
  <1>2. \A k, c, f :
            /\ CallIn(stack[t], k, c, f) <=>
                  CallIn(tail, k, c, f) \/ (k = Len(stack[t]) /\ Top(t).call = c /\ Top(t).future = f)
            /\ \A i : LoopIn(stack[t], k, c, f, i) <=>
                  \/ LoopIn(tail, k, c, f, i)
                  \/ /\ k = Len(stack[t]) /\ Top(t).call = c /\ Top(t).future = f
                     /\ Top(t).idx = i
    BY <1>1, CallInPush
  <1>3. \A k, c, f : CallIn(tail, k, c, f) => k # Len(stack[t])
    BY <1>1 DEF CallIn
  <1>6. \A k, c, x, i : x # Top(t).future => (LoopIn(tail, k, c, x, i) <=> LoopIn(stack[t], k, c, x, i))
    BY <1>2
  <1>4. \A x \in Futures : \A d \in Derived : x # Top(t).future =>
            /\ \A c \in Loops : AwaitIn(tail, c, x, d) <=> AwaitIn(stack[t], c, x, d)
            /\ DestroyedIn(tail, x, d) <=> DestroyedIn(stack[t], x, d)
    BY <1>6 DEF AwaitIn, DestroyedIn
  <1>5. Keeps(t, tail)
    <2>1. \A k \in Nat : \A c, f :
              /\ CallIn(tail, k, c, f) => CallIn(stack[t], k, c, f)
              /\ CallIn(stack[t], k, c, f) /\ k <= Len(tail) => CallIn(tail, k, c, f)
      BY <1>1, <1>2
    <2>. QED  BY <1>1, <2>1 DEF Keeps
  <1>. QED  BY <1>3, <1>4, <1>5 DEF tail

\* What a loop at its end leaves alone.
LEMMA EndLoopKeeps ==
    ASSUME IInv, IInv', RInv, NEW t \in Threads, EndLoop(t)
    PROVE  /\ ~Idle(t) /\ Top(t).call \in Loops /\ Top(t).future \in Futures
           /\ stack' = [stack EXCEPT ![t] = Tail(stack[t])]
           /\ \A u \in Threads : \A e \in Futures : Combining(u, e) => Combining(u, e)'
           /\ \A x \in Futures, e \in Derived : Owed(x, e)' <=> Owed(x, e)
           /\ UNCHANGED <<state, alive, kind, inputs, holders, runs>>
  <1>1. /\ ~Idle(t) /\ Top(t).call \in Loops
        /\ Continue(t, Tail(stack[t]))
        /\ UNCHANGED <<alive, kind, inputs, holders, runs>>
    BY DEF EndLoop, Loops
  <1>. DEFINE tail == Tail(stack[t])
  <1>2. /\ Top(t) \in Frames /\ Len(stack[t]) = Len(tail) + 1 /\ Len(tail) \in Nat
        /\ CallIn(stack[t], Len(stack[t]), Top(t).call, Top(t).future)
    BY <1>1, StackOf
  <1>3. Top(t).future \in Futures
    BY <1>2 DEF Frames
  <1>4. Keeps(t, tail) /\ Shrinks(t, tail, {})
    BY <1>1, KeepsTail, ShrinksTail DEF Loops
  <1>5. Pushes(t, tail, {})
    BY <1>1 DEF Continue, Pushes
  <1>. HIDE DEF tail
  <1>6. ASSUME NEW e \in Futures, Combining(t, e)
        PROVE  1 <= Len(tail)
    <2>1. CallIn(stack[t], 1, "combine", e)
      BY <1>6, CombiningByDepth
    <2>2. Len(stack[t]) # 1
      BY <1>1, <1>2, <2>1 DEF CallIn, Loops
    <2>3. Len(stack[t]) = Len(tail) + 1 /\ Len(tail) \in Nat
      BY <1>2
    <2>4. Len(tail) # 0
      BY <2>2, <2>3
    <2>. QED  BY <2>3, <2>4
  <1>7. \A u \in Threads : \A e \in Futures : Combining(u, e) => Combining(u, e)'
    BY <1>4, <1>5, <1>6, CombinersKept
  <1>8. \A x \in Futures, e \in Derived : Owed(x, e)' <=> Owed(x, e)
    <2>1. \A e \in Derived : e \in Futures
      BY DEF Futures
    <2>2. \A u \in Threads : \A e, x \in Futures :
              /\ Owes(u, e, x) => Owes(u, e, x)' \/ (u = t /\ x \in {})
              /\ Owes(u, e, x)' => Owes(u, e, x)
      BY <1>1, <1>3, <1>4, StackStep DEF tail
    <2>. QED  BY <2>1, <2>2 DEF Owed
  <1>. QED  BY <1>1, <1>3, <1>7, <1>8 DEF Continue

LEMMA EndRunGraphStep ==
    ASSUME IInv, IInv', RInv, NEW t \in Threads, EndLoop(t), Top(t).call = "run"
    PROVE  RInv'
  <1>1. /\ ~Idle(t) /\ Top(t).future \in Futures
        /\ stack' = [stack EXCEPT ![t] = Tail(stack[t])]
        /\ \A u \in Threads : \A e \in Futures : Combining(u, e) => Combining(u, e)'
        /\ \A x \in Futures, e \in Derived : Owed(x, e)' <=> Owed(x, e)
        /\ UNCHANGED <<state, alive, kind, inputs, holders, runs>>
    BY EndLoopKeeps
  <1>. PICK g \in Futures : TRUE
    BY <1>1
  <1>. PICK N, H, tail : N = {} /\ H = {} /\ tail = Tail(stack[t])
    OBVIOUS
  <1>2. continuations' = continuations
    BY DEF EndLoop
  <1>3. Top(t).idx > Len(continuations[Top(t).future])
    BY DEF EndLoop
  <1>4. Proceeds(t, tail, H)
    BY <1>1, <1>3, ProceedsTail
  <1>5. Pushes(t, tail, N) /\ SettlesFirst(g, N)
    BY <1>1 DEF Pushes, SettlesFirst
  <1>6. OwedFollow
    BY <1>1 DEF OwedFollow
  <1>7. ReferencesFollow(H)
    <2>1. \A d \in Derived : d \in Futures /\
              (Local \in holders[d] => \E u \in Threads : Combining(u, d))
      BY DEF Futures, RInv, HoldersWaiting
    <2>. QED  BY <1>1, <2>1 DEF ReferencesFollow
  <1>8. CallableGone(g, H)
    BY <1>1 DEF CallableGone, IsSettled
  <1>9. LastHolderSettles' /\ CallableOrBroken' /\ \A d \in Derived : kind[d] = "none" => runs'[d] = 0
    BY <1>1 DEF RInv, LastHolderSettles, CallableOrBroken, IsSettled
  <1>10. alive' \subseteq alive /\ UNCHANGED <<continuations, kind, inputs>>
    BY <1>1, <1>2
  <1>11. \A d \in Derived : kind[d] = "Then" /\ <<"run", d>> \in N => InsideFor(tail, d)
    OBVIOUS
  <1>. QED  BY <1>4, <1>5, <1>6, <1>7, <1>8, <1>9, <1>10, <1>11, GraphStep

\* All the continuations of a future are destroyed.
LEMMA EndClearGraphStep ==
    ASSUME IInv, IInv', RInv, NEW t \in Threads, EndLoop(t), Top(t).call = "clear"
    PROVE  RInv'
  <1>1. /\ ~Idle(t) /\ Top(t).future \in Futures
        /\ stack' = [stack EXCEPT ![t] = Tail(stack[t])]
        /\ \A u \in Threads : \A e \in Futures : Combining(u, e) => Combining(u, e)'
        /\ \A x \in Futures, e \in Derived : Owed(x, e)' <=> Owed(x, e)
        /\ UNCHANGED <<state, alive, kind, inputs, holders, runs>>
    BY EndLoopKeeps
  <1>. PICK f \in Futures : f = Top(t).future
    BY <1>1
  <1>2. continuations' = [continuations EXCEPT ![f] = <<>>] /\ Top(t).idx > Len(continuations[f])
    BY DEF EndLoop
  <1>3. /\ LoopIn(stack[t], Len(stack[t]), "clear", f, Top(t).idx)
        /\ CallIn(stack[t], Len(stack[t]), "clear", f)
        /\ Len(stack[t]) \in Nat /\ Top(t).idx \in Nat /\ Top(t) \in CallsIn(stack[t])
    <2>1. /\ LoopIn(stack[t], Len(stack[t]), "clear", f, Top(t).idx)
          /\ Len(stack[t]) \in Nat /\ Top(t) \in Frames /\ Top(t) \in CallsIn(stack[t])
      BY <1>1, StackOf
    <2>. QED  BY <2>1 DEF LoopIn, Frames
  <1>4. IsSettled(f)
    BY <1>3 DEF IInv, LoopsSettled
  <1>. DEFINE tail == Tail(stack[t])
  <1>5. /\ Keeps(t, tail) /\ Pushes(t, tail, {}) /\ stack' = [stack EXCEPT ![t] = tail]
        /\ \A k, c, x : CallIn(tail, k, c, x) => k # Len(stack[t])
        /\ \A x \in Futures : \A d \in Derived : x # f =>
              /\ \A c \in Loops : AwaitIn(tail, c, x, d) <=> AwaitIn(stack[t], c, x, d)
              /\ DestroyedIn(tail, x, d) <=> DestroyedIn(stack[t], x, d)
    BY <1>1, KeepsTail DEF Pushes
  <1>. HIDE DEF tail
  <1>6. /\ \A u \in Threads : \A k \in Nat : \A c, x :
              CallIn(stack'[u], k, c, x) => CallIn(stack[u], k, c, x)
        /\ \A u \in Threads : \A k \in Nat : \A c \in Loops : ~CallIn(stack'[u], k, c, f)
    <2>1. stack'[t] = tail /\ \A u \in Threads : u # t => stack'[u] = stack[u]
      BY <1>5 DEF IInv, TypeOK
    <2>2. \A u \in Threads : \A k \in Nat : \A c, x :
              CallIn(stack'[u], k, c, x) => CallIn(stack[u], k, c, x)
      BY <1>5, <2>1 DEF Keeps
    <2>3. ASSUME NEW u \in Threads, NEW k \in Nat, NEW c \in Loops, CallIn(stack'[u], k, c, f)
          PROVE  FALSE
      <3>1. CallIn(stack[u], k, c, f)
        BY <2>2, <2>3
      <3>2. u = t /\ k = Len(stack[t])
        BY <1>3, <3>1 DEF RInv, OneLoop, Loops
      <3>. QED  BY <1>5, <2>1, <2>3, <3>2
    <2>. QED  BY <2>2, <2>3
  <1>7. \A x \in Futures : \A i, e : Stored(x, i, e)' <=> x # f /\ Stored(x, i, e)
    <2>1. continuations'[f] = <<>> /\ \A x \in Futures : x # f => continuations'[x] = continuations[x]
      BY <1>2 DEF IInv, TypeOK
    <2>2. \A i : i \notin 1..Len(<<>>)
      OBVIOUS
    <2>. QED  BY <2>1, <2>2 DEF Stored
  <1>8. \A x \in Futures : \A e : Waiting(x, e)' <=> x # f /\ Waiting(x, e)
    BY <1>7 DEF Waiting
  <1>9. \A x \in Futures : \A e \in Derived :
            /\ \A c \in Loops : Awaits(c, x, e)' <=> x # f /\ Awaits(c, x, e)
            /\ Destroyed(x, e)' <=> x # f /\ Destroyed(x, e)
    <2>1. /\ \A x \in Futures \ {f} : \A i, e : Stored(x, i, e)' <=> Stored(x, i, e)
          /\ \A c \in Loops : \A x \in Futures \ {f} : \A e \in Derived :
                AwaitIn(tail, c, x, e) <=> AwaitIn(stack[t], c, x, e)
          /\ \A x \in Futures \ {f} : \A e \in Derived :
                DestroyedIn(tail, x, e) <=> DestroyedIn(stack[t], x, e)
      BY <1>5, <1>7
    <2>. QED  BY <1>5, <1>6, <2>1, ContinuationsEdited, ZenonT(60)
  <1>10. \A e \in Derived : (Waiting(f, e) => Destroyed(f, e)) /\ \A c \in Loops : ~Awaits(c, f, e)
    <2>1. ASSUME NEW j \in Nat, NEW e, Stored(f, j, e)
          PROVE  j < Top(t).idx
      BY <1>2, <1>3, <2>1 DEF Stored, IInv, TypeOK
    <2>2. \A e : Waiting(f, e) => DestroyedIn(stack[t], f, e)
      BY <1>3, <2>1 DEF Waiting, DestroyedIn
    <2>3. ASSUME NEW e \in Derived, NEW c \in Loops, NEW u \in Threads, AwaitIn(stack[u], c, f, e)
          PROVE  FALSE
      <3>1. PICK k, i, j \in Nat : LoopIn(stack[u], k, c, f, i) /\ Stored(f, j, e) /\ i <= j
        BY <2>3 DEF AwaitIn
      <3>2. u = t /\ k = Len(stack[t])
        BY <1>3, <3>1 DEF RInv, OneLoop, Loops, LoopIn
      <3>3. i = Top(t).idx
        BY <1>3, <3>1, <3>2 DEF LoopIn
      <3>. QED  BY <1>3, <2>1, <3>1, <3>3
    <2>. QED  BY <2>2, <2>3 DEF Destroyed, Awaits
  <1>11. /\ \A x \in Futures : IsSettled(x)' <=> IsSettled(x)
         /\ \A e \in Derived : e \in Futures /\ inputs[e] \subseteq Futures
         /\ "run" \in Loops /\ "clear" \in Loops
    BY <1>1 DEF IsSettled, Futures, Loops, IInv, TypeOK
  <1>12. OneLoop' /\ ThenRunsInside'
    <2>1. \A u \in Threads : \A k : \A x \in Futures : \A e :
              CallIn(stack'[u], k, "run", x) /\ Waiting(x, e) => Waiting(x, e)'
      <3>1. \A u \in Threads : \A k : CallIn(stack'[u], k, "run", f) => k \in Nat
        BY DEF CallIn, IInv, TypeOK
      <3>. QED  BY <1>6, <1>8, <1>11, <3>1
    <2>2. \A e \in Derived : <<"run", e>> \notin {}
      OBVIOUS
    <2>3. OneLoop /\ ThenRunsInside /\ UNCHANGED <<kind, inputs>>
      BY <1>1 DEF RInv
    <2>. QED  BY <1>5, <2>1, <2>2, <2>3, LoopsApart
  <1>13. StoredOnce' /\ ClearedLast'
    <2>1. StoredOnce'
      BY <1>1, <1>7, <1>8 DEF RInv, StoredOnce
    <2>2. ASSUME NEW u \in Threads, NEW k \in Nat, NEW x \in Futures, CallIn(stack'[u], k, "clear", x)
          PROVE  \/ x \in Promises \ alive
                 \/ x \in Derived /\ kind[x] = "Then" /\ holders[x] = {}
      <3>1. CallIn(stack[u], k, "clear", x)
        BY <1>6, <2>2
      <3>. QED  BY <3>1 DEF RInv, ClearedLast
    <2>. QED  BY <1>1, <2>1, <2>2 DEF ClearedLast
  <1>14. HoldersWaiting'
    BY <1>1, <1>8, <1>9, <1>10, <1>11 DEF RInv, HoldersWaiting
  <1>15. LastHolderSettles' /\ CallableOrBroken'
    BY <1>1 DEF RInv, LastHolderSettles, CallableOrBroken, IsSettled
  <1>16. CallableOnce'
    BY <1>1, <1>9, <1>11 DEF RInv, CallableOnce
  <1>17. InputsAwaited'
    <2>1. ASSUME NEW e \in Derived, NEW x \in inputs[e], ~IsSettled(x)'
          PROVE  Waiting(x, e)' \/ Owed(x, e)'
      <3>1. x \in Futures /\ ~IsSettled(x)
        BY <1>11, <2>1
      <3>. QED  BY <1>1, <1>4, <1>8, <3>1 DEF RInv, InputsAwaited
    <2>2. \A x \in Futures, e \in Derived, c \in Loops : Awaits(c, x, e)' <=> Awaits(c, x, e)
      BY <1>9, <1>10
    <2>. QED  BY <1>1, <1>11, <2>1, <2>2 DEF RInv, InputsAwaited
  <1>. QED  BY <1>1, <1>12, <1>13, <1>14, <1>15, <1>16, <1>17 DEF RInv

\* A combinator begins: its result has no continuation yet, and is owed to each input.
LEMMA CombineGraphStep ==
    ASSUME IInv, IInv', RInv, NEW t \in Threads, NEW k \in Kinds \ {"none"}, NEW d \in Derived,
           NEW D \in SUBSET Futures, Combine(t, k, d, D)
    PROVE  RInv'
  <1>. DEFINE new == Frame("combine", d, D)
  <1>1. /\ new \in Frames /\ new.call = "combine" /\ new.future = d /\ new.todo = D
        /\ d \in Futures /\ Local \notin Futures /\ d \notin Promises
        /\ \A e \in Derived : e \in Futures /\ inputs[e] \subseteq Futures
    BY FrameType, DisjointAssumption DEF Frame, Futures, IInv, TypeOK
  <1>2. /\ kind[d] = "none" /\ stack[t] = <<>> /\ D \subseteq Visible
        /\ stack' = [stack EXCEPT ![t] = <<new>>]
        /\ state' = state /\ continuations' = continuations /\ alive' = alive /\ runs' = runs
    BY DEF Combine, Idle
  <1>. HIDE DEF new
  <1>3. /\ kind'[d] = k /\ inputs'[d] = D
        /\ holders'[d] = IF k = "WhenAny" THEN {} ELSE {Local}
        /\ \A e \in Derived : e # d =>
              kind'[e] = kind[e] /\ inputs'[e] = inputs[e] /\ holders'[e] = holders[e]
    BY DEF Combine, IInv, TypeOK
  <1>4. /\ ~IsSettled(d) /\ holders[d] = {} /\ runs[d] = 0 /\ d \notin D
        /\ \A u \in Threads : ~Combining(u, d)
        /\ \A x \in Futures : ~Waiting(x, d)
        /\ \A x \in Futures : IsSettled(x)' <=> IsSettled(x)
    <2>1. ~IsSettled(d) /\ holders[d] = {} /\ runs[d] = 0
      BY <1>2 DEF IInv, KindsApart, RInv
    <2>2. d \notin D
      BY <1>1, <1>2 DEF Visible
    <2>3. \A u \in Threads : ~Combining(u, d)
      BY <1>1, <1>2 DEF IInv, CombinersApart
    <2>4. \A x \in Futures : ~Waiting(x, d)
      BY <1>2 DEF IInv, ContinuationsDerived, Waiting, Stored
    <2>. QED  BY <1>2, <2>1, <2>2, <2>3, <2>4 DEF IsSettled
  <1>5. /\ stack'[t] = <<new>> /\ \A u \in Threads : u # t => stack'[u] = stack[u]
        /\ CallsIn(<<new>>) = {new} /\ CallsIn(stack[t]) = {}
        /\ \A l, c, x, i :
              /\ CallIn(stack'[t], l, c, x) <=> l = 1 /\ c = "combine" /\ x = d
              /\ c \in Loops => ~LoopIn(stack'[t], l, c, x, i)
              /\ ~CallIn(stack[t], l, c, x) /\ ~LoopIn(stack[t], l, c, x, i)
    <2>1. stack'[t] = <<new>> /\ \A u \in Threads : u # t => stack'[u] = stack[u]
      BY <1>2 DEF IInv, TypeOK
    <2>2. <<>> \in Seq(Frames) /\ <<new>> \o <<>> = <<new>> /\ Len(<<>>) + 1 = 1
      BY <1>1
    <2>3. CallsIn(<<>>) = {}
      BY <2>2, CallsInFrames
    <2>4. CallsIn(<<new>> \o <<>>) = {new} \union CallsIn(<<>>)
      BY <1>1, <2>2, CallsInPush
    <2>5. \A l, c, x : ~CallIn(<<>>, l, c, x)
      BY CallInNothing
    <2>6. \A l, c, x : CallIn(<<new>> \o <<>>, l, c, x) <=>
              CallIn(<<>>, l, c, x) \/ (l = Len(<<>>) + 1 /\ new.call = c /\ new.future = x)
      BY <1>1, <2>2, CallInPush
    <2>7. \A l, c, x : CallIn(<<new>>, l, c, x) <=> l = 1 /\ c = "combine" /\ x = d
      <3>. DEFINE none == <<>>
                  one == <<new>>
      <3>1. <<new>> \o none = one /\ Len(none) + 1 = 1
        BY <2>2
      <3>2. \A l, c, x : CallIn(<<new>> \o none, l, c, x) <=>
                CallIn(none, l, c, x) \/ (l = Len(none) + 1 /\ new.call = c /\ new.future = x)
        BY <2>6
      <3>3. \A l, c, x : ~CallIn(none, l, c, x)
        BY <2>5
      <3>. HIDE DEF none, one
      <3>4. \A l, c, x : CallIn(one, l, c, x) <=> l = 1 /\ new.call = c /\ new.future = x
        <4>1. \A l, c, x : CallIn(one, l, c, x) <=>
                  CallIn(none, l, c, x) \/ (l = Len(none) + 1 /\ new.call = c /\ new.future = x)
          BY <3>1, <3>2, Zenon
        <4>2. Len(none) + 1 = 1
          BY <3>1
        <4>. QED  BY <3>3, <4>1, <4>2
      <3>. QED  BY <1>1, <3>4 DEF one
    <2>8. \A l, c, x, i : /\ c \in Loops => ~LoopIn(<<new>>, l, c, x, i)
                          /\ ~LoopIn(<<>>, l, c, x, i)
      BY <2>5, <2>7 DEF LoopIn, Loops
    <2>9. CallsIn(<<new>>) = {new} /\ CallsIn(stack[t]) = {}
      BY <1>2, <2>2, <2>3, <2>4
    <2>10. \A l, c, x, i :
               /\ CallIn(stack'[t], l, c, x) <=> l = 1 /\ c = "combine" /\ x = d
               /\ c \in Loops => ~LoopIn(stack'[t], l, c, x, i)
               /\ ~CallIn(stack[t], l, c, x) /\ ~LoopIn(stack[t], l, c, x, i)
      <3>1. \A l, c, x : CallIn(stack'[t], l, c, x) <=> l = 1 /\ c = "combine" /\ x = d
        BY <2>1, <2>7, Zenon
      <3>2. \A l, c, x, i : c \in Loops => ~LoopIn(stack'[t], l, c, x, i)
        BY <2>1, <2>8
      <3>3. \A l, c, x, i : ~CallIn(stack[t], l, c, x) /\ ~LoopIn(stack[t], l, c, x, i)
        BY <1>2, <2>5, <2>8, SMT
      <3>. QED  BY <3>1, <3>2, <3>3, Zenon
    <2>. QED  BY <2>1, <2>9, <2>10
  <1>6. /\ \A u \in Threads : \A e \in Futures :
              Combining(u, e)' <=> Combining(u, e) \/ (u = t /\ e = d)
        /\ \A x \in Futures, e \in Derived : Owed(x, e)' <=> Owed(x, e) \/ (e = d /\ x \in D)
        /\ \A x \in Futures : ~Owed(x, d)
    <2>1. \A u \in Threads : \A e, x : Owes(u, e, x)' <=> Owes(u, e, x) \/ (u = t /\ e = d /\ x \in D)
      BY <1>1, <1>5 DEF Owes
    <2>2. \A u \in Threads : \A e : Combining(u, e)' <=> Combining(u, e) \/ (u = t /\ e = d)
      BY <1>1, <1>5 DEF Combining
    <2>3. \A u \in Threads : \A x : Owes(u, d, x) => Combining(u, d)
      BY DEF Owes, Combining
    <2>. QED  BY <1>4, <2>1, <2>2, <2>3 DEF Owed
  <1>7. /\ \A x, i, e : Stored(x, i, e)' <=> Stored(x, i, e)
        /\ \A x, e : Waiting(x, e)' <=> Waiting(x, e)
    BY <1>2 DEF Waiting, Stored
  <1>8. \A u \in Threads : \A l, x : \A c \in Loops :
            /\ CallIn(stack'[u], l, c, x) <=> CallIn(stack[u], l, c, x)
            /\ \A i : LoopIn(stack'[u], l, c, x, i) <=> LoopIn(stack[u], l, c, x, i)
    BY <1>5 DEF Loops
  <1>9. /\ \A c \in Loops : \A x, e : Awaits(c, x, e)' <=> Awaits(c, x, e)
        /\ \A x, e : Destroyed(x, e)' <=> Destroyed(x, e)
        /\ "run" \in Loops /\ "clear" \in Loops
    <2>1. "run" \in Loops /\ "clear" \in Loops
      BY DEF Loops
    <2>2. \A u \in Threads : \A c \in Loops : \A x, e :
              AwaitIn(stack[u], c, x, e)' <=> AwaitIn(stack[u], c, x, e)
      BY <1>7, <1>8 DEF AwaitIn
    <2>3. \A u \in Threads : \A x, e : DestroyedIn(stack[u], x, e)' <=> DestroyedIn(stack[u], x, e)
      BY <1>7, <1>8, <2>1 DEF DestroyedIn
    <2>. QED  BY <2>1, <2>2, <2>3 DEF Awaits, Destroyed
  <1>10. OneLoop'
    <2>1. ASSUME NEW u \in Threads, NEW v \in Threads, NEW l \in Nat, NEW m \in Nat, NEW b \in Loops,
                 NEW c \in Loops, NEW x \in Futures,
                 CallIn(stack'[u], l, b, x), CallIn(stack'[v], m, c, x)
          PROVE  u = v /\ l = m
      <3>1. CallIn(stack[u], l, b, x) /\ CallIn(stack[v], m, c, x)
        BY <1>8, <2>1
      <3>. QED  BY <3>1 DEF RInv, OneLoop
    <2>. QED  BY <2>1 DEF OneLoop
  <1>11. StoredOnce'
    <2>1. ASSUME NEW e \in Derived
          PROVE  /\ e \notin inputs'[e]
                 /\ \A x \in Futures :
                       /\ \A i, j \in Nat : Stored(x, i, e)' /\ Stored(x, j, e)' => i = j
                       /\ Owed(x, e)' => ~Waiting(x, e)'
      <3>1. /\ e \notin inputs[e]
            /\ \A x \in Futures : \A i, j \in Nat : Stored(x, i, e) /\ Stored(x, j, e) => i = j
            /\ \A x \in Futures : Owed(x, e) => ~Waiting(x, e)
        BY DEF RInv, StoredOnce
      <3>2. e \notin inputs'[e]
        BY <1>3, <1>4, <3>1
      <3>3. \A x \in Futures : Owed(x, e)' => ~Waiting(x, e)'
        BY <1>4, <1>6, <1>7, <3>1
      <3>. QED  BY <1>7, <3>1, <3>2, <3>3
    <2>. QED  BY <2>1 DEF StoredOnce
  <1>12. ThenRunsInside'
    <2>1. ASSUME NEW u \in Threads, NEW l \in Nat, NEW e \in Derived, kind'[e] = "Then",
                 CallIn(stack'[u], l, "run", e)
          PROVE  \/ CallIn(stack'[u], l - 1, "combine", e)
                 \/ \E x \in inputs'[e] : CallIn(stack'[u], l - 1, "run", x) /\ Waiting(x, e)'
      <3>1. CallIn(stack[u], l, "run", e) /\ u # t
        BY <1>5, <1>8, <1>9, <2>1, ZenonT(60)
      <3>2. e # d
        BY <1>1, <1>4, <1>9, <3>1, UnsettledNoLoop DEF NoLoop
      <3>3. \/ CallIn(stack[u], l - 1, "combine", e)
            \/ \E x \in inputs[e] : CallIn(stack[u], l - 1, "run", x) /\ Waiting(x, e)
        BY <1>3, <2>1, <3>1, <3>2 DEF RInv, ThenRunsInside
      <3>4. stack'[u] = stack[u] /\ inputs'[e] = inputs[e]
        BY <1>3, <1>5, <3>1, <3>2
      <3>. QED  BY <1>7, <3>3, <3>4
    <2>. QED  BY <2>1 DEF ThenRunsInside
  <1>13. ClearedLast'
    <2>1. ASSUME NEW u \in Threads, NEW l \in Nat, NEW x \in Futures, CallIn(stack'[u], l, "clear", x)
          PROVE  \/ x \in Promises \ alive
                 \/ x \in Derived /\ kind'[x] = "Then" /\ holders'[x] = {}
      <3>1. CallIn(stack[u], l, "clear", x)
        BY <1>8, <1>9, <2>1
      <3>2. x # d
        BY <1>4, <1>9, <3>1, UnsettledNoLoop DEF NoLoop
      <3>3. \/ x \in Promises \ alive
            \/ x \in Derived /\ kind[x] = "Then" /\ holders[x] = {}
        BY <3>1 DEF RInv, ClearedLast
      <3>. QED  BY <1>3, <3>2, <3>3
    <2>. QED  BY <1>2, <2>1 DEF ClearedLast
  <1>14. HoldersWaiting'
    <2>1. ASSUME NEW e \in Derived
          PROVE  /\ Local \in holders'[e] => \E u \in Threads : Combining(u, e)'
                 /\ \A x \in Futures : x \in holders'[e] => Waiting(x, e)' /\ ~Destroyed(x, e)'
                 /\ kind'[e] = "Then" =>
                       \A x \in Futures : Waiting(x, e)' => x \in holders'[e] \/ Destroyed(x, e)'
      <3>1. CASE e = d
        <4>1. Combining(t, e)'
          BY <1>1, <1>6, <3>1
        <4>2. \A x \in Futures : x \notin holders'[e] /\ ~Waiting(x, e)'
          BY <1>1, <1>3, <1>4, <1>7, <3>1
        <4>. QED  BY <4>1, <4>2
      <3>2. CASE e # d
        <4>1. /\ Local \in holders[e] => \E u \in Threads : Combining(u, e)
              /\ \A x \in Futures : x \in holders[e] => Waiting(x, e) /\ ~Destroyed(x, e)
              /\ kind[e] = "Then" =>
                    \A x \in Futures : Waiting(x, e) => x \in holders[e] \/ Destroyed(x, e)
          BY DEF RInv, HoldersWaiting
        <4>2. kind'[e] = kind[e] /\ holders'[e] = holders[e]
          BY <1>3, <3>2
        <4>3. \A u \in Threads : Combining(u, e) => Combining(u, e)'
          BY <1>1, <1>6
        <4>. QED  BY <1>7, <1>9, <4>1, <4>2, <4>3
      <3>. QED  BY <3>1, <3>2
    <2>. QED  BY <2>1 DEF HoldersWaiting
  <1>15. LastHolderSettles'
    <2>1. \A e \in Derived : IsSettled(e)' <=> IsSettled(e)
      BY <1>1, <1>4
    <2>2. k = "WhenAny" \/ (holders'[d] # {} /\ ~IsSettled(d))
      BY <1>3, <1>4
    <2>3. k = "WhenAny" => k \notin {"Then", "WhenAll"}
      OBVIOUS
    <2>4. ASSUME NEW e \in Derived, kind'[e] \in {"Then", "WhenAll"}
          PROVE  /\ ~IsSettled(e)' => holders'[e] # {}
                 /\ kind'[e] = "WhenAll" /\ IsSettled(e)' => holders'[e] = {}
      BY <1>3, <2>1, <2>2, <2>3, <2>4 DEF RInv, LastHolderSettles
    <2>. QED  BY <2>4 DEF LastHolderSettles
  <1>16. CallableOnce'
    <2>1. ASSUME NEW e \in Derived, kind'[e] = "Then", NEW x \in Futures,
                 Awaits("run", x, e)' \/ Owed(x, e)'
          PROVE  ~IsSettled(e)'
      <3>1. IsSettled(e)' <=> IsSettled(e)
        BY <1>1, <1>4
      <3>2. CASE e # d
        <4>1. kind[e] = "Then" /\ (Awaits("run", x, e) \/ Owed(x, e))
          BY <1>3, <1>6, <1>9, <2>1, <3>2
        <4>. QED  BY <3>1, <4>1 DEF RInv, CallableOnce
      <3>. QED  BY <1>4, <3>1, <3>2
    <2>. QED  BY <2>1 DEF CallableOnce
  <1>17. InputsAwaited'
    <2>1. \A e \in Derived : IsSettled(e)' <=> IsSettled(e)
      BY <1>1, <1>4
    <2>2. ASSUME NEW e \in Derived, NEW x \in inputs'[e], ~IsSettled(x)'
          PROVE  Waiting(x, e)' \/ Owed(x, e)'
      <3>1. CASE e = d
        BY <1>3, <1>6, <2>2, <3>1
      <3>2. CASE e # d
        <4>1. x \in inputs[e] /\ x \in Futures
          BY <1>1, <1>3, <2>2, <3>2
        <4>2. Waiting(x, e) \/ Owed(x, e)
          BY <1>4, <2>2, <4>1 DEF RInv, InputsAwaited
        <4>. QED  BY <1>6, <1>7, <4>1, <4>2
      <3>. QED  BY <3>1, <3>2
    <2>3. ASSUME NEW e \in Derived, kind'[e] \in {"Then", "WhenAll"}, ~IsSettled(e)',
                 NEW x \in Futures, x \in holders'[e], IsSettled(x)'
          PROVE  Awaits("run", x, e)' \/ Awaits("clear", x, e)'
      <3>1. e # d
        BY <1>1, <1>3, <2>3
      <3>2. x \in holders[e] /\ kind[e] \in {"Then", "WhenAll"} /\ ~IsSettled(e) /\ IsSettled(x)
        BY <1>3, <1>4, <2>1, <2>3, <3>1
      <3>3. Awaits("run", x, e) \/ Awaits("clear", x, e)
        BY <3>2 DEF RInv, InputsAwaited
      <3>. QED  BY <1>9, <3>3
    <2>4. ASSUME NEW e \in Derived, kind'[e] \in {"Then", "WhenAny"}, ~IsSettled(e)',
                 NEW x \in inputs'[e], state[x] \in {"Ready", "Exception"}
          PROVE  Awaits("run", x, e)' \/ Owed(x, e)'
      <3>1. CASE e = d
        BY <1>3, <1>6, <2>4, <3>1
      <3>2. CASE e # d
        <4>1. x \in inputs[e] /\ x \in Futures /\ kind[e] \in {"Then", "WhenAny"} /\ ~IsSettled(e)
          BY <1>1, <1>3, <2>1, <2>4, <3>2
        <4>2. Awaits("run", x, e) \/ Owed(x, e)
          BY <2>4, <4>1 DEF RInv, InputsAwaited
        <4>. QED  BY <1>6, <1>9, <4>1, <4>2
      <3>. QED  BY <3>1, <3>2
    <2>. QED  BY <1>2, <2>2, <2>3, <2>4 DEF InputsAwaited
  <1>18. CallableOrBroken'
    <2>1. state[d] = "Undefined"
      BY <1>4 DEF IsSettled
    <2>2. ASSUME NEW e \in Derived, kind'[e] = "Then"
          PROVE  /\ runs[e] = (IF state[e] \in {"Ready", "Exception"} THEN 1 ELSE 0)
                 /\ state[e] = "BrokenPromise" => \A f \in inputs'[e] : state[f] = "BrokenPromise"
      <3>1. CASE e = d
        BY <1>4, <2>1, <3>1
      <3>2. CASE e # d
        BY <1>3, <2>2, <3>2 DEF RInv, CallableOrBroken
      <3>. QED  BY <3>1, <3>2
    <2>. QED  BY <1>2, <2>2 DEF CallableOrBroken
  <1>19. \A e \in Derived : kind'[e] = "none" => runs'[e] = 0 /\ holders'[e] = {}
    BY <1>2, <1>3 DEF RInv
  <1>. QED  BY <1>10, <1>11, <1>12, <1>13, <1>14, <1>15, <1>16, <1>17, <1>18, <1>19 DEF RInv

LEMMA InitRInv == Init => RInv
  <1>. SUFFICES ASSUME Init
                PROVE  RInv
    OBVIOUS
  <1>1. /\ \A f \in Futures : ~IsSettled(f) /\ continuations[f] = <<>> /\ state[f] = "Undefined"
        /\ \A d \in Derived : kind[d] = "none" /\ inputs[d] = {} /\ holders[d] = {} /\ runs[d] = 0
        /\ \A t \in Threads : stack[t] = <<>>
        /\ \A d \in Derived : d \in Futures
    BY DEF Init, IsSettled, Futures
  <1>2. \A t \in Threads : \A k, c, f : ~CallIn(stack[t], k, c, f)
    BY <1>1, CallInNothing
  <1>3. \A t \in Threads : \A d, f : ~Owes(t, d, f)
    <2>1. \A t \in Threads : stack[t] \in Seq(Frames)
      BY InitInv DEF IInv, TypeOK
    <2>2. \A t \in Threads : CallsIn(stack[t]) = {}
      BY <1>1, <2>1, CallsInFrames
    <2>. QED  BY <2>2 DEF Owes
  <1>4. /\ \A f \in Futures : \A i, d : ~Stored(f, i, d)
        /\ \A f \in Futures : \A d : ~Waiting(f, d)
    <2>1. \A i : i \notin 1..Len(<<>>)
      OBVIOUS
    <2>. QED  BY <1>1, <2>1, Zenon DEF Stored, Waiting
  <1>5. /\ \A f, d : ~Owed(f, d)
        /\ \A c, f, d : ~Awaits(c, f, d)
        /\ \A f, d : ~Destroyed(f, d)
    BY <1>2, <1>3 DEF Owed, Awaits, AwaitIn, Destroyed, DestroyedIn, LoopIn
  <1>6. OneLoop /\ ThenRunsInside /\ ClearedLast
    BY <1>2 DEF OneLoop, ThenRunsInside, ClearedLast
  <1>7. StoredOnce /\ HoldersWaiting
    BY <1>1, <1>4, <1>5, DisjointAssumption DEF StoredOnce, HoldersWaiting
  <1>8. LastHolderSettles /\ CallableOnce /\ InputsAwaited /\ CallableOrBroken
    BY <1>1 DEF LastHolderSettles, CallableOnce, InputsAwaited, CallableOrBroken
  <1>. QED  BY <1>1, <1>6, <1>7, <1>8 DEF RInv

LEMMA GraphInvariance == Spec => []RInv
  <1>1. IInv /\ IInv' /\ RInv /\ [Next]_vars => RInv'
    <2>. SUFFICES ASSUME IInv, IInv', RInv, [Next]_vars
                  PROVE  RInv'
      OBVIOUS
    <2>1. ASSUME NEW t \in Threads, NEW f \in Futures, RegisterInput(t, f)
          PROVE  RInv'
      BY <2>1, RegisterSettledGraphStep, RegisterUnsettledGraphStep
    <2>2. ASSUME NEW t \in Threads, EndLoop(t)
          PROVE  RInv'
      <3>1. Top(t).call = "run" \/ Top(t).call = "clear"
        BY <2>2 DEF EndLoop
      <3>. QED  BY <2>2, <3>1, EndRunGraphStep, EndClearGraphStep
    <2>3. CASE Next
      BY <2>1, <2>2, <2>3, CombineGraphStep, EndCombineGraphStep, PromiseGraphStep, HandleGraphStep
         DEF Next
    <2>4. CASE UNCHANGED vars
      BY <2>4 DEF vars, RInv, OneLoop, StoredOnce, ThenRunsInside, ClearedLast, HoldersWaiting,
                  LastHolderSettles, CallableOnce, InputsAwaited, CallableOrBroken, IsSettled,
                  Waiting, Stored, Owed, Owes, Combining, Awaits, AwaitIn, Destroyed, DestroyedIn
    <2>. QED  BY <2>3, <2>4
  <1>. QED  BY Invariance, InitRInv, <1>1, PTL DEF Spec

\* The callable given to Then is called once, or its result is broken because the promise
\* went before, whichever thread settles the input while Then still registers on it
\* (Future.hpp:82-128).
THEOREM CalledOnceOrBroken == Spec => []CallableOrBroken
  <1>1. RInv => CallableOrBroken
    BY DEF RInv
  <1>. QED  BY GraphInvariance, <1>1, PTL

\* When no thread is in a call, what was derived from settled futures is settled: the last
\* reference to the activator of WhenAll, and the last continuation of Then and WhenAny,
\* are not lost in any interleaving (Future.hpp:160-247).
THEOREM NoCompletionLost == Spec => []SettledWithInputs
  <1>1. IInv /\ RInv => SettledWithInputs
    <2>. SUFFICES ASSUME IInv, RInv, Quiescent, NEW d \in Derived, ~IsSettled(d)
                  PROVE  /\ ~(kind[d] \in {"Then", "WhenAll"} /\ \A f \in inputs[d] : IsSettled(f))
                         /\ ~(kind[d] = "WhenAny" /\
                                 \E f \in inputs[d] : state[f] \in {"Ready", "Exception"})
      BY DEF SettledWithInputs
    <2>1. \A t \in Threads : stack[t] = <<>> /\ CallsIn(stack[t]) = {}
      <3>1. \A t \in Threads : stack[t] = <<>>
        BY DEF Quiescent, Idle
      <3>2. <<>> \in Seq(Frames)
        OBVIOUS
      <3>3. CallsIn(<<>>) = {}
        BY <3>2, CallsInFrames
      <3>. QED  BY <3>1, <3>3
    <2>2. /\ \A f : ~Owed(f, d)
          /\ \A t \in Threads : ~Combining(t, d)
          /\ \A c, f : ~Awaits(c, f, d)
      BY <2>1, CallInNothing DEF Owed, Owes, Combining, Awaits, AwaitIn, LoopIn
    <2>3. ASSUME kind[d] \in {"Then", "WhenAll"}, \A f \in inputs[d] : IsSettled(f)
          PROVE  FALSE
      <3>1. PICK h : h \in holders[d]
        BY <2>3 DEF RInv, LastHolderSettles
      <3>2. h \in Futures
        BY <2>2, <3>1 DEF RInv, HoldersWaiting, IInv, TypeOK
      <3>3. Waiting(h, d)
        BY <3>1, <3>2 DEF RInv, HoldersWaiting
      <3>4. h \in inputs[d]
        BY <3>2, <3>3 DEF Waiting, Stored, IInv, ContinuationsDerived
      <3>. QED  BY <2>2, <2>3, <3>1, <3>2, <3>4 DEF RInv, InputsAwaited
    <2>4. ASSUME kind[d] = "WhenAny", NEW f \in inputs[d], state[f] \in {"Ready", "Exception"}
          PROVE  FALSE
      BY <2>2, <2>4 DEF RInv, InputsAwaited
    <2>. QED  BY <2>3, <2>4
  <1>. QED  BY Invariance, GraphInvariance, <1>1, PTL

\* The continuations of a future change only while no thread is in a loop over them, or when
\* the one that destroys them is done (FutureState.hpp:94, 109, 167).
THEOREM ContinuationsUndisturbed == Spec => LoopsUndisturbed
  <1>1. IInv /\ RInv /\ [Next]_vars =>
            \A f \in Futures : continuations'[f] # continuations[f] =>
                \A t \in Threads : \A i \in 1..Len(stack[t]) :
                    stack[t][i].call # "combine" /\ stack[t][i].future = f => stack'[t] # stack[t]
    <2>. SUFFICES ASSUME IInv, RInv, [Next]_vars, NEW f \in Futures, continuations'[f] # continuations[f],
                         NEW t \in Threads, NEW i \in 1..Len(stack[t]),
                         stack[t][i].call # "combine", stack[t][i].future = f
                  PROVE  stack'[t] # stack[t]
      OBVIOUS
    <2>1. /\ stack[t] \in Seq(Frames) /\ stack[t][i] \in Frames /\ stack[t][i] \in CallsIn(stack[t])
          /\ stack[t][i].call \in Loops
      <3>1. stack[t] \in Seq(Frames)
        BY DEF IInv, TypeOK
      <3>2. stack[t][i] \in Frames
        BY <3>1
      <3>. QED  BY <3>1, <3>2 DEF CallsIn, Frames, Loops
    <2>2. IsSettled(f)
      BY <2>1 DEF IInv, LoopsSettled, Loops
    <2>3. PICK u \in Threads :
              \/ \E x \in Futures : RegisterInput(u, x) /\ ~IsSettled(x)
              \/ EndLoop(u)
      BY DEF Next, vars, Combine, RegisterInput, EndCombine, Fulfil, DestroyPromise, RunNext, ClearNext
    <2>4. ASSUME NEW x \in Futures, RegisterInput(u, x), ~IsSettled(x)
          PROVE  FALSE
      <3>1. x # f /\ continuations' = [continuations EXCEPT ![x] = Append(@, Top(u).future)]
        BY <2>2, <2>4 DEF RegisterInput
      <3>. QED  BY <3>1 DEF IInv, TypeOK
    <2>5. CASE EndLoop(u)
      <3>1. /\ ~Idle(u) /\ Top(u).call = "clear" /\ Top(u).future = f
            /\ stack' = [stack EXCEPT ![u] = Tail(stack[u])]
        BY <2>5 DEF EndLoop, Continue, IInv, TypeOK
      <3>2. /\ CallIn(stack[u], Len(stack[u]), "clear", f)
            /\ Len(stack[u]) \in Nat /\ Len(stack[u]) = Len(Tail(stack[u])) + 1
            /\ Len(Tail(stack[u])) \in Nat
        BY <3>1, StackOf
      <3>3. PICK k \in Nat : CallIn(stack[t], k, stack[t][i].call, f)
        BY <2>1, CallInCalls
      <3>4. t = u
        BY <2>1, <3>2, <3>3 DEF RInv, OneLoop, Loops
      <3>5. stack'[u] = Tail(stack[u])
        BY <3>1 DEF IInv, TypeOK
      <3>6. Tail(stack[u]) # stack[u]
        <4>. DEFINE tail == Tail(stack[u])
        <4>1. Len(stack[u]) = Len(tail) + 1 /\ Len(tail) \in Nat
          BY <3>2
        <4>. HIDE DEF tail
        <4>2. tail # stack[u]
          BY <4>1
        <4>. QED  BY <4>2 DEF tail
      <3>. QED  BY <3>4, <3>5, <3>6
    <2>. QED  BY <2>3, <2>4, <2>5
  <1>. QED  BY Invariance, GraphInvariance, <1>1, PTL DEF Spec, LoopsUndisturbed
=============================================================================
