-------------------------- MODULE FutureState_proofs --------------------------
(***************************************************************************)
(* Proofs about FutureState, for any set of threads, any set of            *)
(* continuations, both specialisations and any number of calls of Set*.    *)
(***************************************************************************)
EXTENDS FutureState, FiniteSetTheorems, TLAPS

LEMMA InitTypeOK == Init => TypeOK
BY DEF Init, TypeOK, States, Locations

\* The state is well formed in every reachable state.
LEMMA NextTypeOK == TypeOK /\ [Next]_vars => TypeOK'
<1> SUFFICES ASSUME TypeOK, [Next]_vars PROVE TypeOK'
  OBVIOUS
<1> USE DEF TypeOK, States, Locations, IsReady, Goto, Return, FallAsleep, counts, history, local
<1>1. ASSUME NEW t \in Threads, Call(t) PROVE TypeOK'
  <2>1. CASE Get(t)
    BY <2>1 DEF Get, GetTurn
  <2>2. CASE Wait(t) \/ WaitFor(t)
    BY <2>2 DEF Wait, WaitFor, Block
  <2>3. CASE SetValue(t)
    <3>1. CASE IsReady
      <4>1. /\ sets' = sets + 1
            /\ pc' = [pc EXCEPT ![t] = "idle"]
            /\ UNCHANGED <<state, value, continuations, asleep, held, idx,
                           cont, settlements, registered, runs, spurious>>
        BY <2>3, <3>1 DEF SetValue
      <4> QED
        BY <4>1
    <3>2. CASE ~IsReady
      <4>1. /\ sets' = sets + 1 /\ state' = "Ready" /\ value' = sets' /\ asleep' = {}
            /\ pc' = [pc EXCEPT ![t] = "iterate"]
            /\ idx' = [idx EXCEPT ![t] = 1]
            /\ settlements' = settlements + 1
            /\ UNCHANGED <<continuations, held, cont, registered, runs, spurious>>
        BY <2>3, <3>2 DEF SetValue, StartIterating
      <4> QED
        BY <4>1
    <3> QED
      BY <3>1, <3>2
  <2>4. CASE SetException(t)
    BY <2>4 DEF SetException, StartIterating
  <2>5. CASE AboutToDestroyPromise(t)
    BY <2>5 DEF AboutToDestroyPromise, MayGiveUp
  <2>6. CASE MoveAssignPromise(t)
    BY <2>6 DEF MoveAssignPromise, MayGiveUp
  <2>7. ASSUME NEW c \in Continuations, Then(t, c) PROVE TypeOK'
    <3>1. /\ registered' = registered \union {c}
          /\ UNCHANGED <<state, value, asleep, held, idx, sets, settlements, runs, spurious>>
          /\ pc' \in [Threads -> Locations]
          /\ cont' \in [Threads -> Continuations]
      BY <2>7 DEF Then
    <3>2. continuations' \in {continuations, Append(continuations, c)}
      BY <2>7 DEF Then
    <3>3. continuations' \in Seq(Continuations)
      <4>1. continuations \in Seq(Continuations) /\ Append(continuations, c) \in Seq(Continuations)
        OBVIOUS
      <4> QED
        BY <3>2, <4>1
    <3> QED
      BY <3>1, <3>3
  <2> QED
    BY <1>1, <2>1, <2>2, <2>3, <2>4, <2>5, <2>6, <2>7 DEF Call
<1>2. ASSUME NEW t \in Threads, Proceed(t) PROVE TypeOK'
  <2>1. CASE GetAwake(t)
    BY <2>1 DEF GetAwake, GetTurn
  <2>2. CASE CopyValue(t) \/ WaitAwake(t) \/ WaitForTimeout(t)
    BY <2>2 DEF CopyValue, WaitAwake, WaitForTimeout
  <2>3. CASE RunContinuation(t)
    BY <2>3 DEF RunContinuation, Run
  <2>4. CASE FinishIterating(t) \/ ClearContinuations(t)
    <3>1. CASE FinishIterating(t)
      BY <3>1 DEF FinishIterating
    <3>2. CASE ClearContinuations(t)
      <4>1. continuations' \in Seq(Continuations)
        BY <3>2 DEF ClearContinuations
      <4> QED
        BY <3>2, <4>1 DEF ClearContinuations
    <3> QED
      BY <2>4, <3>1, <3>2
  <2>5. CASE RunInline(t)
    BY <2>5 DEF RunInline, Run
  <2> QED
    BY <1>2, <2>1, <2>2, <2>3, <2>4, <2>5 DEF Proceed
<1>3. ASSUME NEW t \in Threads, SpuriousWakeup(t) PROVE TypeOK'
  BY <1>3 DEF SpuriousWakeup
<1>4. CASE UNCHANGED vars
  BY <1>4 DEF vars
<1> QED
  BY <1>1, <1>2, <1>3, <1>4 DEF Next

\* Every reachable state of the shared state is well formed, for every number
\* of threads and calls.
THEOREM TypeCorrect == Spec => []TypeOK
BY InitTypeOK, NextTypeOK, PTL DEF Spec

-----------------------------------------------------------------------------
(* The inductive invariant.                                                *)

LEMMA InitIInv == Init => IInv
<1> SUFFICES ASSUME Init PROVE IInv
  OBVIOUS
<1>1. TypeOK
  BY InitTypeOK
<1>2. UnlockedOnlyWhenSettled
  BY DEF Init, UnlockedOnlyWhenSettled
<1>3. AwakeOnlyWhenSettled /\ NobodyLeftBehind
  BY DEF Init, AwakeOnlyWhenSettled, NobodyLeftBehind, IsReady
<1>4. \A c \in registered : Accounted(c)
  BY DEF Init
<1> QED
  BY <1>1, <1>2, <1>3, <1>4 DEF IInv

LEMMA NextUnlocked ==
    TypeOK /\ UnlockedOnlyWhenSettled /\ [Next]_vars => UnlockedOnlyWhenSettled'
<1> SUFFICES ASSUME TypeOK, UnlockedOnlyWhenSettled, [Next]_vars
             PROVE  UnlockedOnlyWhenSettled'
  OBVIOUS
<1> USE DEF UnlockedOnlyWhenSettled, IsReady, Goto, Return, FallAsleep, counts, history, local
<1>1. pc \in [Threads -> Locations]
  BY DEF TypeOK
<1>2. ASSUME NEW t \in Threads, Call(t) PROVE UnlockedOnlyWhenSettled'
  <2>1. CASE Get(t)
    BY <1>1, <2>1 DEF Get, GetTurn
  <2>2. CASE Wait(t) \/ WaitFor(t)
    BY <1>1, <2>2 DEF Wait, WaitFor, Block
  <2>3. CASE SetValue(t)
    BY <1>1, <2>3 DEF SetValue, StartIterating
  <2>4. CASE SetException(t)
    BY <1>1, <2>4 DEF SetException, StartIterating
  <2>5. CASE AboutToDestroyPromise(t)
    BY <1>1, <2>5 DEF AboutToDestroyPromise, MayGiveUp
  <2>6. CASE MoveAssignPromise(t)
    BY <1>1, <2>6 DEF MoveAssignPromise, MayGiveUp
  <2>7. ASSUME NEW c \in Continuations, Then(t, c) PROVE UnlockedOnlyWhenSettled'
    BY <1>1, <2>7 DEF Then
  <2> QED
    BY <1>2, <2>1, <2>2, <2>3, <2>4, <2>5, <2>6, <2>7 DEF Call
<1>3. ASSUME NEW t \in Threads, Proceed(t) PROVE UnlockedOnlyWhenSettled'
  <2>1. CASE GetAwake(t)
    BY <1>1, <2>1 DEF GetAwake, GetTurn
  <2>2. CASE CopyValue(t) \/ WaitAwake(t) \/ WaitForTimeout(t)
    BY <1>1, <2>2 DEF CopyValue, WaitAwake, WaitForTimeout
  <2>3. CASE RunContinuation(t)
    BY <1>1, <2>3 DEF RunContinuation, Run
  <2>4. CASE FinishIterating(t) \/ ClearContinuations(t)
    BY <1>1, <2>4 DEF FinishIterating, ClearContinuations
  <2>5. CASE RunInline(t)
    BY <1>1, <2>5 DEF RunInline, Run
  <2> QED
    BY <1>3, <2>1, <2>2, <2>3, <2>4, <2>5 DEF Proceed
<1>4. ASSUME NEW t \in Threads, SpuriousWakeup(t) PROVE UnlockedOnlyWhenSettled'
  BY <1>4 DEF SpuriousWakeup
<1>5. CASE UNCHANGED vars
  BY <1>5 DEF vars
<1> QED
  BY <1>2, <1>3, <1>4, <1>5 DEF Next

LEMMA NextAwake ==
    TypeOK /\ UnlockedOnlyWhenSettled /\ AwakeOnlyWhenSettled /\ [Next]_vars
        => AwakeOnlyWhenSettled'
<1> SUFFICES ASSUME TypeOK, UnlockedOnlyWhenSettled, AwakeOnlyWhenSettled, [Next]_vars
             PROVE  AwakeOnlyWhenSettled'
  OBVIOUS
<1> USE DEF AwakeOnlyWhenSettled, IsReady, Goto, Return, FallAsleep, counts, history, local
<1>1. pc \in [Threads -> Locations] /\ asleep \subseteq Threads
  BY DEF TypeOK
<1>2. ASSUME NEW t \in Threads, Call(t) PROVE AwakeOnlyWhenSettled'
  <2>1. CASE Get(t)
    BY <1>1, <2>1 DEF Get, GetTurn
  <2>2. CASE Wait(t) \/ WaitFor(t)
    BY <1>1, <2>2 DEF Wait, WaitFor, Block
  <2>3. CASE SetValue(t) \/ SetException(t)
    BY <1>1, <2>3 DEF SetValue, SetException, StartIterating
  <2>4. CASE AboutToDestroyPromise(t) \/ MoveAssignPromise(t)
    BY <1>1, <2>4 DEF AboutToDestroyPromise, MoveAssignPromise, MayGiveUp
  <2>5. ASSUME NEW c \in Continuations, Then(t, c) PROVE AwakeOnlyWhenSettled'
    BY <1>1, <2>5 DEF Then
  <2> QED
    BY <1>2, <2>1, <2>2, <2>3, <2>4, <2>5 DEF Call
<1>3. ASSUME NEW t \in Threads, Proceed(t) PROVE AwakeOnlyWhenSettled'
  <2>1. CASE GetAwake(t)
    BY <1>1, <2>1 DEF GetAwake, GetTurn
  <2>2. CASE CopyValue(t) \/ WaitAwake(t) \/ WaitForTimeout(t)
    BY <1>1, <2>2 DEF CopyValue, WaitAwake, WaitForTimeout
  <2>3. CASE RunContinuation(t) \/ RunInline(t)
    BY <1>1, <2>3 DEF RunContinuation, RunInline, Run
  <2>4. CASE FinishIterating(t) \/ ClearContinuations(t)
    BY <1>1, <2>4 DEF FinishIterating, ClearContinuations
  <2> QED
    BY <1>3, <2>1, <2>2, <2>3, <2>4 DEF Proceed
<1>4. ASSUME NEW t \in Threads, SpuriousWakeup(t) PROVE AwakeOnlyWhenSettled'
  BY <1>1, <1>4 DEF SpuriousWakeup
<1>5. CASE UNCHANGED vars
  BY <1>5 DEF vars
<1> QED
  BY <1>2, <1>3, <1>4, <1>5 DEF Next

LEMMA NextNobodyLeft ==
    TypeOK /\ UnlockedOnlyWhenSettled /\ NobodyLeftBehind /\ [Next]_vars => NobodyLeftBehind'
<1> SUFFICES ASSUME TypeOK, UnlockedOnlyWhenSettled, NobodyLeftBehind, [Next]_vars
             PROVE  NobodyLeftBehind'
  OBVIOUS
<1> USE DEF NobodyLeftBehind, IsReady, Goto, Return, FallAsleep, counts, history, local
<1>1. pc \in [Threads -> Locations] /\ asleep \subseteq Threads
  BY DEF TypeOK
<1>2. ASSUME NEW t \in Threads, Call(t) PROVE NobodyLeftBehind'
  <2>1. CASE Get(t)
    BY <1>1, <2>1 DEF Get, GetTurn
  <2>2. CASE Wait(t) \/ WaitFor(t)
    BY <1>1, <2>2 DEF Wait, WaitFor, Block
  <2>3. CASE SetValue(t)
    BY <1>1, <2>3 DEF SetValue, StartIterating
  <2>4. CASE SetException(t)
    BY <1>1, <2>4 DEF SetException, StartIterating
  <2>5. CASE AboutToDestroyPromise(t) \/ MoveAssignPromise(t)
    BY <1>1, <2>5 DEF AboutToDestroyPromise, MoveAssignPromise, MayGiveUp
  <2>6. ASSUME NEW c \in Continuations, Then(t, c) PROVE NobodyLeftBehind'
    BY <1>1, <2>6 DEF Then
  <2> QED
    BY <1>2, <2>1, <2>2, <2>3, <2>4, <2>5, <2>6 DEF Call
<1>3. ASSUME NEW t \in Threads, Proceed(t) PROVE NobodyLeftBehind'
  <2>1. CASE GetAwake(t)
    BY <1>1, <2>1 DEF GetAwake, GetTurn
  <2>2. CASE CopyValue(t) \/ WaitAwake(t) \/ WaitForTimeout(t)
    BY <1>1, <2>2 DEF CopyValue, WaitAwake, WaitForTimeout
  <2>3. CASE RunContinuation(t) \/ RunInline(t)
    BY <1>1, <2>3 DEF RunContinuation, RunInline, Run
  <2>4. CASE FinishIterating(t) \/ ClearContinuations(t)
    BY <1>1, <2>4 DEF FinishIterating, ClearContinuations
  <2> QED
    BY <1>3, <2>1, <2>2, <2>3, <2>4 DEF Proceed
<1>4. ASSUME NEW t \in Threads, SpuriousWakeup(t) PROVE NobodyLeftBehind'
  BY <1>1, <1>4 DEF SpuriousWakeup
<1>5. CASE UNCHANGED vars
  BY <1>5 DEF vars
<1> QED
  BY <1>2, <1>3, <1>4, <1>5 DEF Next

\* What keeps a continuation accounted for: it has run, or the state is broken,
\* or what was about to run it still is, or it has just been run.
LEMMA NextAccounted ==
    IInv /\ [Next]_vars => \A c \in registered' : Accounted(c)'
<1> SUFFICES ASSUME IInv, [Next]_vars, NEW c \in registered'
             PROVE  Accounted(c)'
  OBVIOUS
<1> USE DEF Goto, Return, FallAsleep, IsReady, counts
<1> DEFINE Same == UNCHANGED <<state, continuations, registered, runs>>
<1>0. /\ TypeOK
      /\ UnlockedOnlyWhenSettled
      /\ \A d \in registered : Accounted(d)
      /\ pc \in [Threads -> Locations]
      /\ idx \in [Threads -> Nat \ {0}]
      /\ cont \in [Threads -> Continuations]
      /\ runs \in [Continuations -> Nat]
      /\ registered \subseteq Continuations
      /\ continuations \in Seq(Continuations)
  BY DEF IInv, TypeOK
\* A step that leaves the data alone and moves no thread into or out of a run.
<1>1. ASSUME NEW t \in Threads, Same,
             pc[t] \notin {"iterate", "inline"},
             \A u \in Threads \ {t} : pc'[u] = pc[u] /\ idx'[u] = idx[u] /\ cont'[u] = cont[u]
      PROVE  Accounted(c)'
  <2>1. Accounted(c)
    BY <1>0, <1>1
  <2>2. \A i \in 1..Len(continuations) : WillRun(i) => WillRun(i)'
    BY <1>0, <1>1 DEF WillRun
  <2> QED
    BY <1>1, <2>1, <2>2 DEF Accounted
<1>2. ASSUME NEW t \in Threads, SetValue(t) \/ SetException(t) PROVE Accounted(c)'
  <2>1. CASE SetValue(t) /\ IsReady
    <3> QED BY <1>0, <1>1, <2>1 DEF SetValue
  <2>2. CASE ~(SetValue(t) /\ IsReady)
    <3>1. /\ pc[t] = "idle"
          /\ pc' = [pc EXCEPT ![t] = "iterate"]
          /\ idx' = [idx EXCEPT ![t] = 1]
          /\ UNCHANGED <<continuations, registered, runs, cont, held>>
          /\ held
      BY <1>2, <2>2 DEF SetValue, SetException, StartIterating
    <3>2. \A i \in 1..Len(continuations) : WillRun(i)'
      BY <1>0, <3>1 DEF WillRun
    <3>3. state # "BrokenPromise"
      BY <1>0, <3>1 DEF UnlockedOnlyWhenSettled
    <3>4. Accounted(c)
      BY <1>0, <3>1
    <3> QED
      BY <1>0, <3>1, <3>2, <3>3, <3>4 DEF Accounted
  <2> QED
    BY <2>1, <2>2
<1>3. ASSUME NEW t \in Threads, Get(t) \/ Wait(t) \/ WaitFor(t) \/ MoveAssignPromise(t)
      PROVE  Accounted(c)'
  BY <1>0, <1>1, <1>3
     DEF Get, GetTurn, Wait, WaitFor, Block, MoveAssignPromise, MayGiveUp, history, local
<1>4. ASSUME NEW t \in Threads, AboutToDestroyPromise(t) PROVE Accounted(c)'
  <2>1. CASE IsReady
    BY <1>0, <1>1, <1>4, <2>1 DEF AboutToDestroyPromise, MayGiveUp, history
  <2>2. CASE ~IsReady
    BY <1>4, <2>2 DEF AboutToDestroyPromise, Accounted
  <2> QED
    BY <2>1, <2>2
<1>5. ASSUME NEW t \in Threads, NEW d \in Continuations, Then(t, d) PROVE Accounted(c)'
  <2>1. CASE IsReady
    <3>1. /\ pc[t] = "idle"
          /\ pc' = [pc EXCEPT ![t] = "inline"]
          /\ cont' = [cont EXCEPT ![t] = d]
          /\ UNCHANGED <<state, continuations, idx, runs>>
      BY <1>5, <2>1 DEF Then
    <3>2. pc'[t] = "inline" /\ cont'[t] = d
      BY <1>0, <3>1
    <3>3. CASE c = d
      BY <3>2, <3>3 DEF Accounted
    <3>4. CASE c # d
      <4>1. Accounted(c)
        BY <1>0, <1>5, <3>4 DEF Then
      <4>2. \A i \in 1..Len(continuations) : WillRun(i) => WillRun(i)'
        BY <1>0, <3>1 DEF WillRun
      <4>3. \A u \in Threads : pc[u] = "inline" => pc'[u] = "inline" /\ cont'[u] = cont[u]
        BY <1>0, <3>1
      <4> QED
        BY <3>1, <4>1, <4>2, <4>3 DEF Accounted
    <3> QED
      BY <3>3, <3>4
  <2>2. CASE ~IsReady
    <3>1. /\ continuations' = Append(continuations, d)
          /\ state = "Undefined" /\ state' = "Undefined"
          /\ UNCHANGED <<runs, cont>>
          /\ pc' = [pc EXCEPT ![t] = "idle"]
          /\ pc[t] = "idle"
      BY <1>5, <2>2 DEF Then
    <3>2. /\ Len(continuations') = Len(continuations) + 1
          /\ continuations'[Len(continuations) + 1] = d
          /\ \A i \in 1..Len(continuations) : continuations'[i] = continuations[i]
      BY <1>0, <3>1
    <3>3. CASE c = d
      BY <1>0, <3>1, <3>2, <3>3 DEF Accounted, WillRun
    <3>4. CASE c # d
      <4>1. Accounted(c)
        BY <1>0, <1>5, <3>4 DEF Then
      <4> QED
        BY <1>0, <3>1, <3>2, <4>1 DEF Accounted, WillRun
    <3> QED
      BY <3>3, <3>4
  <2> QED
    BY <2>1, <2>2
<1>6. ASSUME NEW t \in Threads, GetAwake(t) \/ CopyValue(t) \/ WaitAwake(t) \/ WaitForTimeout(t)
      PROVE  Accounted(c)'
  BY <1>0, <1>1, <1>6
     DEF GetAwake, GetTurn, CopyValue, WaitAwake, WaitForTimeout, history
<1>7. ASSUME NEW t \in Threads, RunContinuation(t) PROVE Accounted(c)'
  <2>1. /\ pc[t] = "iterate" /\ idx[t] \in 1..Len(continuations)
        /\ runs' = [runs EXCEPT ![continuations[idx[t]]] = @ + 1]
        /\ idx' = [idx EXCEPT ![t] = @ + 1]
        /\ UNCHANGED <<state, continuations, pc, cont, registered>>
    BY <1>0, <1>7 DEF RunContinuation, Run
  <2>2. Accounted(c)
    BY <1>0, <2>1
  <2>3. continuations[idx[t]] \in Continuations
    BY <1>0, <2>1
  <2>4. CASE c = continuations[idx[t]]
    BY <1>0, <2>1, <2>3, <2>4 DEF Accounted
  <2>5. CASE c # continuations[idx[t]]
    <3>1. \A i \in 1..Len(continuations) :
              continuations[i] = c /\ WillRun(i) => WillRun(i)'
      BY <1>0, <2>1, <2>5 DEF WillRun
    <3>2. runs'[c] = runs[c]
      BY <1>0, <2>1, <2>3, <2>5
    <3> QED
      BY <2>1, <2>2, <3>1, <3>2 DEF Accounted
  <2> QED
    BY <2>4, <2>5
<1>8. ASSUME NEW t \in Threads, FinishIterating(t) PROVE Accounted(c)'
  <2>1. /\ pc[t] = "iterate" /\ idx[t] > Len(continuations)
        /\ pc' = [pc EXCEPT ![t] = "idle"]
        /\ UNCHANGED <<state, continuations, idx, cont, registered, runs>>
    BY <1>8 DEF FinishIterating, history
  <2>2. \A i \in 1..Len(continuations) : WillRun(i) => WillRun(i)'
    BY <1>0, <2>1 DEF WillRun
  <2>3. Accounted(c)
    BY <1>0, <2>1
  <2> QED
    BY <1>0, <2>1, <2>2, <2>3 DEF Accounted
<1>9. ASSUME NEW t \in Threads, RunInline(t) PROVE Accounted(c)'
  <2>1. /\ pc[t] = "inline"
        /\ runs' = [runs EXCEPT ![cont[t]] = @ + 1]
        /\ pc' = [pc EXCEPT ![t] = "idle"]
        /\ UNCHANGED <<state, continuations, idx, cont, registered>>
    BY <1>9 DEF RunInline, Run
  <2>2. Accounted(c)
    BY <1>0, <2>1
  <2>3. cont[t] \in Continuations
    BY <1>0
  <2>4. CASE c = cont[t]
    BY <1>0, <2>1, <2>3, <2>4 DEF Accounted
  <2>5. CASE c # cont[t]
    <3>1. \A i \in 1..Len(continuations) : WillRun(i) => WillRun(i)'
      BY <1>0, <2>1 DEF WillRun
    <3> QED
      BY <1>0, <2>1, <2>2, <2>5, <3>1 DEF Accounted
  <2> QED
    BY <2>4, <2>5
<1>10. ASSUME NEW t \in Threads, ClearContinuations(t) PROVE Accounted(c)'
  <2>1. /\ pc[t] = "clear" /\ ~held /\ state # "Undefined"
        /\ pc' = [pc EXCEPT ![t] = "idle"]
        /\ UNCHANGED <<state, cont, registered, runs>>
    BY <1>0, <1>10 DEF ClearContinuations, history, UnlockedOnlyWhenSettled
  <2>2. \A i : ~WillRun(i)
    BY <1>0, <2>1 DEF WillRun, UnlockedOnlyWhenSettled
  <2>3. Accounted(c)
    BY <1>0, <2>1
  <2> QED
    BY <1>0, <2>1, <2>2, <2>3 DEF Accounted
<1>11. ASSUME NEW t \in Threads, SpuriousWakeup(t) PROVE Accounted(c)'
  BY <1>0, <1>11 DEF SpuriousWakeup, history, local, Accounted, WillRun
<1>12. CASE UNCHANGED vars
  BY <1>0, <1>12 DEF vars, Accounted, WillRun
<1> QED
  BY <1>2, <1>3, <1>4, <1>5, <1>6, <1>7, <1>8, <1>9, <1>10, <1>11, <1>12
     DEF Next, Call, Proceed

LEMMA NextIInv == IInv /\ [Next]_vars => IInv'
BY NextTypeOK, NextUnlocked, NextAwake, NextNobodyLeft, NextAccounted DEF IInv

LEMMA SpecIInv == Spec => []IInv
BY InitIInv, NextIInv, PTL DEF Spec

LEMMA IInvNoContinuationLost == IInv => NoContinuationLost
<1> SUFFICES ASSUME IInv, Quiescent, state \in {"Ready", "Exception"}, NEW c \in registered
             PROVE  runs[c] > 0
  BY DEF NoContinuationLost
<1>1. Accounted(c)
  BY DEF IInv
<1> QED
  BY <1>1 DEF Accounted, WillRun, Quiescent

\* No continuation is lost between the thread that registers it and the one that
\* settles the state, whatever the number of threads, futures and continuations.
THEOREM ContinuationsRun == Spec => []NoContinuationLost
BY SpecIInv, IInvNoContinuationLost, PTL

\* Nobody is woken for nothing but by the condition variable itself.
THEOREM AwakeCorrect == Spec => []AwakeOnlyWhenSettled
<1>1. IInv => AwakeOnlyWhenSettled
  BY DEF IInv
<1> QED
  BY <1>1, SpecIInv, PTL

\* The end of a promise without a result leaves nobody behind, whatever the threads
\* were doing with its futures.
THEOREM BrokenPromiseCorrect == Spec => []BrokenRunsOnlyLateContinuations
<1>1. IInv => BrokenRunsOnlyLateContinuations
  BY DEF IInv, NobodyLeftBehind, BrokenRunsOnlyLateContinuations, Quiescent, IsReady
<1> QED
  BY <1>1, SpecIInv, PTL

-----------------------------------------------------------------------------
(* How often a continuation is run.                                        *)

LEMMA BehindFinite ==
    ASSUME NEW i \in Nat
    PROVE  IsFiniteSet(Behind(i)) /\ Cardinality(Behind(i)) \in Nat
<1>1. Behind(i) \subseteq Threads
  BY DEF Behind
<1> QED
  BY <1>1, ThreadsAssumption, FS_Subset, FS_CardinalityType

\* A step that runs nothing and moves nobody into or out of a run.
LEMMA SameCounts ==
    ASSUME TypeOK, Counted, UNCHANGED <<continuations, registered, runs, settlements>>,
           \A i \in 1..Len(continuations) : Behind(i)' = Behind(i),
           \A t \in Threads : pc[t] = "inline" <=> pc'[t] = "inline",
           \A t \in Threads : pc[t] = "inline" => cont'[t] = cont[t]
    PROVE  Counted'
<1>1. \A c \in Continuations : Inline(c)' <=> Inline(c)
  BY DEF Inline
<1>2. \A i \in 1..Len(continuations) : continuations[i] \in Continuations
  BY DEF TypeOK
<1>3. registered \subseteq Continuations
  BY DEF TypeOK
<1>4. VectorCounted'
  BY <1>1, <1>2 DEF Counted, VectorCounted
<1>5. \A c \in Continuations : InVector(c)' <=> InVector(c)
  BY DEF InVector
<1> QED
  BY <1>1, <1>3, <1>4, <1>5 DEF Counted

\* A thread that is not in a run goes somewhere else than into one.
LEMMA QuietCounts ==
    ASSUME TypeOK, Counted, UNCHANGED <<continuations, registered, runs, settlements, idx, cont>>,
           NEW t \in Threads, NEW l \in Locations, pc' = [pc EXCEPT ![t] = l],
           pc[t] \notin {"iterate", "inline"}, l \notin {"iterate", "inline"}
    PROVE  Counted'
<1>1. pc \in [Threads -> Locations]
  BY DEF TypeOK
<1>2. \A i \in 1..Len(continuations) : Behind(i)' = Behind(i)
  BY <1>1 DEF Behind
<1>3. \A u \in Threads : pc[u] = "inline" <=> pc'[u] = "inline"
  BY <1>1
<1> QED
  BY <1>2, <1>3, SameCounts

LEMMA SettleCounts ==
    ASSUME IInv, Counted, NEW t \in Threads, SetValue(t) \/ SetException(t)
    PROVE  Counted'
<1>0. TypeOK /\ pc \in [Threads -> Locations] /\ idx \in [Threads -> Nat \ {0}] /\ settlements \in Nat
      /\ continuations \in Seq(Continuations) /\ runs \in [Continuations -> Nat]
  BY DEF IInv, TypeOK
<1>1. CASE SetValue(t) /\ IsReady
  <2>1. /\ UNCHANGED <<continuations, registered, runs, settlements, idx, cont>>
        /\ pc' = [pc EXCEPT ![t] = "idle"] /\ pc[t] = "idle"
    BY <1>1 DEF SetValue, Return, Goto
  <2> QED
    BY <1>0, <2>1, QuietCounts DEF Locations
<1>2. CASE ~(SetValue(t) /\ IsReady)
  <2>1. /\ UNCHANGED <<continuations, registered, runs, cont>>
        /\ pc[t] = "idle" /\ pc' = [pc EXCEPT ![t] = "iterate"]
        /\ idx' = [idx EXCEPT ![t] = 1]
        /\ settlements' = settlements + 1
    BY <1>2 DEF SetValue, SetException, StartIterating, Goto
  <2>2. \A c \in Continuations : Inline(c)' <=> Inline(c)
    BY <1>0, <2>1 DEF Inline
  <2>3. ASSUME NEW i \in 1..Len(continuations)
        PROVE  runs[continuations[i]] + Cardinality(Behind(i)') = settlements'
    <3>1. Behind(i)' = Behind(i) \union {t} /\ t \notin Behind(i)
      BY <1>0, <2>1 DEF Behind
    <3>2. IsFiniteSet(Behind(i)) /\ Cardinality(Behind(i)) \in Nat
      BY <1>0, BehindFinite
    <3>3. Cardinality(Behind(i)') = Cardinality(Behind(i)) + 1
      BY <3>1, <3>2, FS_AddElement
    <3>4. runs[continuations[i]] \in Nat /\ runs[continuations[i]] + Cardinality(Behind(i)) = settlements
      BY <1>0 DEF Counted, VectorCounted
    <3> QED
      BY <1>0, <2>1, <3>2, <3>3, <3>4
  <2>4. \A i \in 1..Len(continuations) : continuations[i] \in Continuations
    BY <1>0
  <2>5. \A u \in Threads : pc'[u] = "inline" <=> pc[u] = "inline"
    BY <1>0, <2>1
  <2>6. registered \subseteq Continuations
    BY <1>0 DEF TypeOK
  <2>7. VectorCounted'
    BY <2>1, <2>2, <2>3, <2>4 DEF Counted, VectorCounted
  <2>8. \A c \in Continuations : InVector(c)' <=> InVector(c)
    BY <2>1 DEF InVector
  <2> QED
    BY <2>1, <2>2, <2>5, <2>6, <2>7, <2>8 DEF Counted
<1> QED
  BY <1>1, <1>2

LEMMA RegisterCounts ==
    ASSUME IInv, Counted, NEW t \in Threads, NEW c \in Continuations, Then(t, c)
    PROVE  Counted'
<1>0. pc \in [Threads -> Locations] /\ cont \in [Threads -> Continuations] /\ settlements \in Nat
      /\ continuations \in Seq(Continuations) /\ runs \in [Continuations -> Nat]
      /\ registered \subseteq Continuations
  BY DEF IInv, TypeOK
<1>1. /\ c \notin registered /\ registered' = registered \union {c}
      /\ pc[t] = "idle" /\ UNCHANGED <<state, idx, settlements, runs>>
  BY DEF Then
<1>2. runs[c] = 0 /\ ~Inline(c)
  BY <1>1 DEF Counted
<1>3. \A i \in 1..Len(continuations) : continuations[i] \in Continuations \ {c}
  BY <1>0, <1>1 DEF Counted, VectorCounted
<1>4. CASE IsReady
  <2>1. /\ pc' = [pc EXCEPT ![t] = "inline"] /\ cont' = [cont EXCEPT ![t] = c]
        /\ UNCHANGED continuations
    BY <1>4 DEF Then, Goto
  <2>2. \A i \in 1..Len(continuations) : Behind(i)' = Behind(i)
    BY <1>0, <1>1, <2>1 DEF Behind
  <2>3. Inline(c)' /\ \A d \in Continuations \ {c} : Inline(d)' <=> Inline(d)
    BY <1>0, <1>1, <2>1 DEF Inline
  <2>4. \A d : InVector(d)' <=> InVector(d)
    BY <2>1 DEF InVector
  <2>5. ~InVector(c)
    BY <1>3 DEF InVector
  <2>6. \A u, v \in Threads :
            pc'[u] = "inline" /\ pc'[v] = "inline" /\ cont'[u] = cont'[v] => u = v
    BY <1>0, <1>1, <1>2, <2>1 DEF Counted, Inline
  <2>7. VectorCounted'
    BY <1>1, <1>3, <2>1, <2>2, <2>3 DEF Counted, VectorCounted
  <2>8. \A d \in registered' : ~InVector(d)' => runs'[d] = IF Inline(d)' THEN 0 ELSE 1
    <3> SUFFICES ASSUME NEW d \in registered', ~InVector(d)'
                 PROVE  runs'[d] = IF Inline(d)' THEN 0 ELSE 1
      OBVIOUS
    <3>1. CASE d = c
      BY <1>1, <1>2, <2>3, <3>1
    <3>2. CASE d # c
      <4>1. d \in registered /\ ~InVector(d) /\ (Inline(d)' <=> Inline(d))
        BY <1>0, <1>1, <2>3, <2>4, <3>2
      <4> QED
        BY <1>1, <4>1 DEF Counted
    <3> QED
      BY <3>1, <3>2
  <2>9. \A d \in Continuations \ registered' : runs'[d] = 0 /\ ~Inline(d)'
    BY <1>1, <2>3 DEF Counted
  <2> QED
    BY <2>6, <2>7, <2>8, <2>9 DEF Counted
<1>5. CASE ~IsReady
  <2>1. /\ pc' = [pc EXCEPT ![t] = "idle"] /\ UNCHANGED cont
        /\ continuations' = Append(continuations, c)
    BY <1>5 DEF Then, Goto, Return
  <2>2. /\ Len(continuations') = Len(continuations) + 1 /\ Len(continuations) \in Nat
        /\ continuations'[Len(continuations) + 1] = c
        /\ \A i \in 1..Len(continuations) : continuations'[i] = continuations[i]
    BY <1>0, <2>1
  <2>3. settlements = 0
    BY <1>5 DEF IInv, NobodyLeftBehind, IsReady
  <2>4. \A i : Behind(i) = {} /\ Behind(i)' = {}
    BY <1>0, <1>5, <2>1 DEF IInv, UnlockedOnlyWhenSettled, Behind
  <2>5. Cardinality({}) = 0
    BY FS_EmptySet
  <2>6. \A d \in Continuations : Inline(d)' <=> Inline(d)
    BY <1>0, <1>1, <2>1 DEF Inline
  <2>7. \A u \in Threads : pc'[u] = "inline" <=> pc[u] = "inline"
    BY <1>0, <1>1, <2>1
  <2>8. ASSUME NEW i \in 1..Len(continuations')
        PROVE  /\ continuations'[i] \in registered'
               /\ ~Inline(continuations[i])'
               /\ \A j \in 1..Len(continuations') : continuations'[i] = continuations'[j] => i = j
               /\ runs'[continuations'[i]] = 0
    <3>1. CASE i = Len(continuations) + 1
      <4>1. continuations'[i] = c /\ ~Inline(c)' /\ runs'[c] = 0 /\ c \in registered'
        BY <1>1, <1>2, <2>2, <2>6, <3>1
      <4>2. \A j \in 1..Len(continuations') : j # i => continuations'[j] # c
        BY <1>3, <2>2, <3>1
      <4>3. ~Inline(continuations[i])'
        BY <4>1 DEF Inline
      <4>4. \A j \in 1..Len(continuations') : continuations'[i] = continuations'[j] => i = j
        BY <4>1, <4>2
      <4> QED
        BY <4>1, <4>3, <4>4
    <3>2. CASE i # Len(continuations) + 1
      <4>1. i \in 1..Len(continuations) /\ continuations'[i] = continuations[i]
        BY <2>2, <3>2
      <4>2. continuations[i] \in registered /\ ~Inline(continuations[i]) /\ continuations[i] # c
        BY <1>3, <4>1 DEF Counted, VectorCounted
      <4>3. runs[continuations[i]] + Cardinality(Behind(i)) = settlements
        BY <4>1 DEF Counted, VectorCounted
      <4>4. runs[continuations[i]] = 0
        <5>1. Cardinality(Behind(i)) = 0
          BY <2>4, <2>5
        <5>2. runs[continuations[i]] \in Nat
          BY <1>0, <1>3, <4>1
        <5> QED
          BY <2>3, <4>3, <5>1, <5>2
      <4>5. ASSUME NEW j \in 1..Len(continuations'), continuations'[i] = continuations'[j]
            PROVE  i = j
        <5>1. j \in 1..Len(continuations)
          BY <2>2, <4>1, <4>2, <4>5
        <5> QED
          BY <2>2, <4>1, <4>5, <5>1 DEF Counted, VectorCounted
      <4>6. ~Inline(continuations[i])'
        <5>1. PICK d \in Continuations : d = continuations[i]
          BY <1>3, <4>1
        <5>2. ~Inline(d)'
          BY <2>6, <4>2, <5>1
        <5>3. d = continuations'[i]
          BY <4>1, <5>1
        <5> QED
          BY <5>2, <5>3 DEF Inline
      <4>7. runs'[continuations'[i]] = 0 /\ continuations'[i] \in registered'
        BY <1>1, <4>1, <4>2, <4>4
      <4> QED
        BY <4>5, <4>6, <4>7
    <3> QED
      BY <3>1, <3>2
  <2>9. VectorCounted'
    <3>1. \A i : Cardinality(Behind(i))' = 0
      BY <2>4, <2>5
    <3>2. settlements' = 0
      BY <1>1, <2>3
    <3> QED
      BY <2>8, <3>1, <3>2 DEF VectorCounted
  <2>10. \A d \in registered' : ~InVector(d)' => runs'[d] = IF Inline(d)' THEN 0 ELSE 1
    <3> SUFFICES ASSUME NEW d \in registered', ~InVector(d)'
                 PROVE  runs'[d] = IF Inline(d)' THEN 0 ELSE 1
      OBVIOUS
    <3>1. d # c /\ d \in registered
      BY <1>1, <2>2 DEF InVector
    <3>2. ~InVector(d)
      BY <2>2 DEF InVector
    <3> QED
      BY <1>0, <1>1, <2>6, <3>1, <3>2 DEF Counted
  <2>11. \A d \in Continuations \ registered' : runs'[d] = 0 /\ ~Inline(d)'
    BY <1>1, <2>6 DEF Counted
  <2>12. \A u, v \in Threads :
            pc'[u] = "inline" /\ pc'[v] = "inline" /\ cont'[u] = cont'[v] => u = v
    BY <2>1, <2>7 DEF Counted
  <2> QED
    BY <2>9, <2>10, <2>11, <2>12 DEF Counted
<1> QED
  BY <1>4, <1>5

LEMMA RunCounts ==
    ASSUME IInv, Counted, NEW t \in Threads, RunContinuation(t)
    PROVE  Counted'
<1>0. pc \in [Threads -> Locations] /\ idx \in [Threads -> Nat \ {0}] /\ settlements \in Nat
      /\ continuations \in Seq(Continuations) /\ runs \in [Continuations -> Nat]
      /\ registered \subseteq Continuations
  BY DEF IInv, TypeOK
<1> DEFINE k == idx[t]
<1>1. /\ pc[t] = "iterate" /\ k \in 1..Len(continuations)
      /\ runs' = [runs EXCEPT ![continuations[k]] = @ + 1]
      /\ idx' = [idx EXCEPT ![t] = k + 1]
      /\ UNCHANGED <<continuations, pc, cont, registered, settlements>>
  BY <1>0 DEF RunContinuation, Run
<1>2. \A c \in Continuations : Inline(c)' <=> Inline(c)
  BY <1>1 DEF Inline
<1>3. \A i \in 1..Len(continuations) : continuations[i] \in Continuations
  BY <1>0
<1>4. ASSUME NEW i \in 1..Len(continuations)
      PROVE  runs'[continuations[i]] + Cardinality(Behind(i)') = settlements
  <2>1. IsFiniteSet(Behind(i)) /\ Cardinality(Behind(i)) \in Nat
    BY <1>0, BehindFinite
  <2>2. runs[continuations[i]] \in Nat /\ runs[continuations[i]] + Cardinality(Behind(i)) = settlements
    BY <1>0, <1>3 DEF Counted, VectorCounted
  <2>3. CASE i = k
    <3>1. t \in Behind(i) /\ Behind(i)' = Behind(i) \ {t}
      BY <1>0, <1>1, <2>3 DEF Behind
    <3>2. Cardinality(Behind(i)') = Cardinality(Behind(i)) - 1
      BY <2>1, <3>1, FS_RemoveElement
    <3>3. runs'[continuations[i]] = runs[continuations[i]] + 1
      BY <1>0, <1>1, <1>3, <2>3
    <3> QED
      BY <2>1, <2>2, <3>2, <3>3
  <2>4. CASE i # k
    <3>1. Behind(i)' = Behind(i)
      BY <1>0, <1>1, <2>4 DEF Behind
    <3>2. continuations[i] # continuations[k]
      BY <1>1, <2>4 DEF Counted, VectorCounted
    <3> QED
      BY <1>0, <1>1, <1>3, <2>2, <3>1, <3>2
  <2> QED
    BY <2>3, <2>4
<1>5. \A c \in Continuations : ~InVector(c) => runs'[c] = runs[c]
  BY <1>0, <1>1 DEF InVector
<1>6. \A c \in Continuations \ registered : ~InVector(c)
  BY DEF Counted, VectorCounted, InVector
<1>7. \A c : InVector(c)' <=> InVector(c)
  BY <1>1 DEF InVector
<1>8. \A c \in registered : ~InVector(c)' => runs'[c] = IF Inline(c)' THEN 0 ELSE 1
  BY <1>0, <1>2, <1>5, <1>7 DEF Counted
<1>9. \A c \in Continuations \ registered : runs'[c] = 0 /\ ~Inline(c)'
  BY <1>2, <1>5, <1>6 DEF Counted
<1>10. VectorCounted'
  BY <1>1, <1>2, <1>3, <1>4 DEF Counted, VectorCounted
<1> QED
  BY <1>1, <1>8, <1>9, <1>10 DEF Counted

LEMMA InlineCounts ==
    ASSUME IInv, Counted, NEW t \in Threads, RunInline(t)
    PROVE  Counted'
<1>0. pc \in [Threads -> Locations] /\ cont \in [Threads -> Continuations]
      /\ continuations \in Seq(Continuations) /\ runs \in [Continuations -> Nat]
      /\ registered \subseteq Continuations
  BY DEF IInv, TypeOK
<1>c. PICK c \in Continuations : c = cont[t]
  BY <1>0
<1>1. /\ pc[t] = "inline" /\ cont[t] = c /\ pc' = [pc EXCEPT ![t] = "idle"]
      /\ runs' = [runs EXCEPT ![c] = @ + 1]
      /\ UNCHANGED <<continuations, idx, cont, registered, settlements>>
  BY <1>c DEF RunInline, Run, Return, Goto
<1>2. Inline(c)
  BY <1>1 DEF Inline
<1>3. c \in registered /\ ~InVector(c)
  BY <1>2 DEF Counted, VectorCounted, InVector
<1>4. runs[c] = 0
  BY <1>2, <1>3 DEF Counted
<1>5. ~Inline(c)' /\ \A d \in Continuations \ {c} : Inline(d)' <=> Inline(d)
  BY <1>0, <1>1 DEF Counted, Inline
<1>6. runs'[c] = 1 /\ \A d \in Continuations \ {c} : runs'[d] = runs[d]
  BY <1>0, <1>1, <1>2, <1>4
<1>7. \A i \in 1..Len(continuations) : Behind(i)' = Behind(i)
  BY <1>0, <1>1 DEF Behind
<1>8. \A i \in 1..Len(continuations) : continuations[i] \in Continuations \ {c}
  BY <1>0, <1>3 DEF InVector
<1>9. \A u \in Threads : pc'[u] = "inline" => pc[u] = "inline"
  BY <1>0, <1>1
<1>10. \A d : InVector(d)' <=> InVector(d)
  BY <1>1 DEF InVector
<1>11. \A d \in registered : ~InVector(d)' => runs'[d] = IF Inline(d)' THEN 0 ELSE 1
  <2> SUFFICES ASSUME NEW d \in registered, ~InVector(d)'
               PROVE  runs'[d] = IF Inline(d)' THEN 0 ELSE 1
    OBVIOUS
  <2>1. CASE d = c
    BY <1>5, <1>6, <2>1
  <2>2. CASE d # c
    BY <1>0, <1>5, <1>6, <1>10, <2>2 DEF Counted
  <2> QED
    BY <2>1, <2>2
<1>12. \A d \in Continuations \ registered : runs'[d] = 0 /\ ~Inline(d)'
  BY <1>3, <1>5, <1>6 DEF Counted
<1>13. VectorCounted'
  BY <1>1, <1>5, <1>6, <1>7, <1>8 DEF Counted, VectorCounted
<1> QED
  BY <1>1, <1>9, <1>11, <1>12, <1>13 DEF Counted

CountedWhileHeld == held => Counted

LEMMA NextCounted == IInv /\ CountedWhileHeld /\ [Next]_vars => CountedWhileHeld'
<1> SUFFICES ASSUME IInv, CountedWhileHeld, [Next]_vars, held' PROVE Counted'
  BY DEF CountedWhileHeld
<1> USE DEF Goto, Return, counts, history, local
<1>0. /\ TypeOK /\ pc \in [Threads -> Locations] /\ idx \in [Threads -> Nat \ {0}]
      /\ continuations \in Seq(Continuations)
  BY DEF IInv, TypeOK
<1>1. held
  BY DEF Next, Call, Proceed, Get, Wait, WaitFor, Block, SetValue, SetException,
         AboutToDestroyPromise, MoveAssignPromise, Then, GetAwake, CopyValue, WaitAwake,
         WaitForTimeout, RunContinuation, FinishIterating, RunInline, ClearContinuations,
         SpuriousWakeup, vars
<1>2. Counted
  BY <1>1 DEF CountedWhileHeld
<1>3. ASSUME NEW t \in Threads, Get(t) \/ Wait(t) \/ WaitFor(t) PROVE Counted'
  <2>1. PICK l \in {"idle", "Get", "copy", "Wait", "WaitFor"} :
            /\ pc' = [pc EXCEPT ![t] = l] /\ pc[t] = "idle"
            /\ UNCHANGED <<continuations, registered, runs, settlements, idx, cont>>
    BY <1>3 DEF Get, GetTurn, Wait, WaitFor, Block
  <2> QED
    BY <1>0, <1>2, <2>1, QuietCounts DEF Locations
<1>4. ASSUME NEW t \in Threads, GetAwake(t) \/ CopyValue(t) \/ WaitAwake(t) \/ WaitForTimeout(t)
      PROVE  Counted'
  <2>1. PICK l \in {"idle", "Get", "copy"} :
            /\ pc' = [pc EXCEPT ![t] = l] /\ pc[t] \in {"Get", "copy", "Wait", "WaitFor"}
            /\ UNCHANGED <<continuations, registered, runs, settlements, idx, cont>>
    BY <1>4 DEF GetAwake, GetTurn, CopyValue, WaitAwake, WaitForTimeout
  <2> QED
    BY <1>0, <1>2, <2>1, QuietCounts DEF Locations
<1>5. ASSUME NEW t \in Threads, AboutToDestroyPromise(t) \/ MoveAssignPromise(t) \/ ClearContinuations(t)
      PROVE  Counted'
  BY <1>1, <1>5 DEF AboutToDestroyPromise, MoveAssignPromise, ClearContinuations, IInv,
                    UnlockedOnlyWhenSettled
<1>6. ASSUME NEW t \in Threads, FinishIterating(t) PROVE Counted'
  <2>1. /\ pc[t] = "iterate" /\ idx[t] > Len(continuations) /\ pc' = [pc EXCEPT ![t] = "idle"]
        /\ UNCHANGED <<continuations, registered, runs, settlements, idx, cont>>
    BY <1>6 DEF FinishIterating
  <2>2. \A i \in 1..Len(continuations) : Behind(i)' = Behind(i)
    BY <1>0, <2>1 DEF Behind
  <2>3. \A u \in Threads : pc[u] = "inline" <=> pc'[u] = "inline"
    BY <1>0, <2>1
  <2> QED
    BY <1>0, <1>2, <2>1, <2>2, <2>3, SameCounts
<1>7. ASSUME NEW t \in Threads, SpuriousWakeup(t) PROVE Counted'
  BY <1>0, <1>2, <1>7, SameCounts DEF SpuriousWakeup, Behind
<1>8. CASE UNCHANGED vars
  BY <1>0, <1>2, <1>8, SameCounts DEF vars, Behind
<1> QED
  BY <1>2, <1>3, <1>4, <1>5, <1>6, <1>7, <1>8,
     SettleCounts, RegisterCounts, RunCounts, InlineCounts DEF Next, Call, Proceed

\* Every continuation is run once for every settlement that found it in the vector,
\* and once if it came too late for it.
THEOREM RunsCounted == Spec => []RunOncePerSettlement
<1>1. Init => CountedWhileHeld
  <2>1. ASSUME Init PROVE Len(continuations) = 0 /\ registered = {} /\ \A c : ~Inline(c)
    BY <2>1 DEF Init, Inline
  <2> QED
    BY <2>1 DEF CountedWhileHeld, Counted, VectorCounted, Init
<1>2. IInv /\ CountedWhileHeld => RunOncePerSettlement
  <2> SUFFICES ASSUME IInv, Counted, Quiescent, NEW c \in registered
               PROVE  runs[c] = IF InVector(c) THEN settlements ELSE 1
    BY DEF CountedWhileHeld, RunOncePerSettlement
  <2>1. ~Inline(c) /\ \A i : Behind(i) = {}
    BY DEF Quiescent, Inline, Behind
  <2>2. Cardinality({}) = 0
    BY FS_EmptySet
  <2>3. runs \in [Continuations -> Nat] /\ registered \subseteq Continuations
    BY DEF IInv, TypeOK
  <2>4. CASE InVector(c)
    <3>1. PICK i \in 1..Len(continuations) : continuations[i] = c
      BY <2>4 DEF InVector
    <3>2. runs[c] + Cardinality(Behind(i)) = settlements
      BY <3>1 DEF Counted, VectorCounted
    <3>3. Cardinality(Behind(i)) = 0
      BY <2>1, <2>2
    <3> QED
      BY <2>3, <2>4, <3>2, <3>3
  <2>5. CASE ~InVector(c)
    BY <2>1, <2>5 DEF Counted
  <2> QED
    BY <2>4, <2>5
<1> QED
  BY <1>1, <1>2, NextCounted, SpecIInv, PTL DEF Spec

\* The vector never changes under a thread that iterates or clears it without the
\* mutex: the code needs no lock there.
THEOREM IterationSafe == Spec => VectorStableWhileUnlocked
<1>1. IInv /\ [Next]_vars
      => [\A t \in Threads : pc[t] \in {"iterate", "clear"} /\ pc'[t] = pc[t]
             => continuations' = continuations]_vars
  <2> SUFFICES ASSUME IInv, [Next]_vars, NEW t \in Threads,
                      pc[t] \in {"iterate", "clear"}, pc'[t] = pc[t]
               PROVE  continuations' = continuations
    OBVIOUS
  <2>0. UnlockedOnlyWhenSettled /\ pc \in [Threads -> Locations]
    BY DEF IInv, TypeOK
  <2>1. IsReady
    BY <2>0 DEF UnlockedOnlyWhenSettled
  <2>2. ASSUME NEW u \in Threads, Call(u) PROVE continuations' = continuations
    BY <2>1, <2>2 DEF Call, Get, Wait, WaitFor, Block, SetValue, SetException,
                      AboutToDestroyPromise, MoveAssignPromise, Then
  <2>3. ASSUME NEW u \in Threads, Proceed(u) PROVE continuations' = continuations
    <3>1. CASE ClearContinuations(u)
      BY <2>0, <3>1 DEF ClearContinuations, Goto, Return, UnlockedOnlyWhenSettled
    <3> QED
      BY <2>3, <3>1 DEF Proceed, GetAwake, CopyValue, WaitAwake, WaitForTimeout,
                        RunContinuation, FinishIterating, RunInline
  <2>4. ASSUME NEW u \in Threads, SpuriousWakeup(u) PROVE continuations' = continuations
    BY <2>4 DEF SpuriousWakeup
  <2>5. CASE UNCHANGED vars
    BY <2>5 DEF vars
  <2> QED
    BY <2>2, <2>3, <2>4, <2>5 DEF Next
<1> QED
  BY <1>1, SpecIInv, PTL DEF Spec, VectorStableWhileUnlocked

\* The reference Get returns stays valid and unchanged while the caller copies it.
THEOREM CopySafe == Spec => ValueStableWhileCopied
<1>1. IInv /\ [Next]_vars
      => [\A t \in Threads : pc[t] = "copy" => value' = value]_vars
  <2> SUFFICES ASSUME IInv, [Next]_vars, NEW t \in Threads, pc[t] = "copy"
               PROVE  value' = value
    OBVIOUS
  <2>1. IsReady
    BY DEF IInv, UnlockedOnlyWhenSettled
  <2>2. ASSUME NEW u \in Threads, Call(u) PROVE value' = value
    BY <2>1, <2>2 DEF Call, Get, Wait, WaitFor, Block, SetValue, SetException,
                      AboutToDestroyPromise, MoveAssignPromise, Then
  <2>3. ASSUME NEW u \in Threads, Proceed(u) PROVE value' = value
    BY <2>3 DEF Proceed, GetAwake, CopyValue, WaitAwake, WaitForTimeout,
                RunContinuation, FinishIterating, RunInline, ClearContinuations
  <2>4. ASSUME NEW u \in Threads, SpuriousWakeup(u) PROVE value' = value
    BY <2>4 DEF SpuriousWakeup
  <2>5. CASE UNCHANGED vars
    BY <2>5 DEF vars
  <2> QED
    BY <2>2, <2>3, <2>4, <2>5 DEF Next
<1> QED
  BY <1>1, SpecIInv, PTL DEF Spec, ValueStableWhileCopied
=============================================================================
