----------------------------- MODULE TaskGraph -----------------------------
(***************************************************************************)
(* What azul::async::StaticThreadPool promises about the tasks given to    *)
(* Execute, with nothing said of threads, locks or queues: a task runs     *)
(* once, after every future it depends on is settled; when the pool is     *)
(* destroyed the tasks that did not start are broken instead.              *)
(***************************************************************************)
CONSTANTS
    Tasks,      \* the tasks that may be submitted
    External    \* futures of promises outside of the pool

VARIABLES
    status,         \* of each task
    dependencies,   \* the futures each submitted task was given
    settled,        \* the external futures that are settled
    open            \* FALSE once the destruction of the pool has begun

vars == <<status, dependencies, settled, open>>

Futures == Tasks \union External

Submitted == {t \in Tasks : status[t] # "new"}
Running == {t \in Tasks : status[t] = "running"}
Settled == settled \union {t \in Tasks : status[t] \in {"done", "broken"}}

Init ==
    /\ status = [t \in Tasks |-> "new"]
    /\ dependencies = [t \in Tasks |-> {}]
    /\ settled = {}
    /\ open = TRUE

\* Only a task that is still running submits to a pool under destruction.
Submit(t, D) ==
    /\ status[t] = "new"
    /\ open \/ Running # {}
    /\ status' = [status EXCEPT ![t] = "waiting"]
    /\ dependencies' = [dependencies EXCEPT ![t] = D]
    /\ UNCHANGED <<settled, open>>

Start(t) ==
    /\ status[t] = "waiting" /\ open
    /\ dependencies[t] \subseteq Settled
    /\ status' = [status EXCEPT ![t] = "running"]
    /\ UNCHANGED <<dependencies, settled, open>>

Finish(t) ==
    /\ status[t] = "running"
    /\ status' = [status EXCEPT ![t] = "done"]
    /\ UNCHANGED <<dependencies, settled, open>>

Settle(e) ==
    /\ e \notin settled
    /\ settled' = settled \union {e}
    /\ UNCHANGED <<status, dependencies, open>>

Close ==
    /\ open
    /\ open' = FALSE
    /\ UNCHANGED <<status, dependencies, settled>>

Break(t) ==
    /\ status[t] = "waiting"
    /\ ~open /\ Running = {}
    /\ status' = [status EXCEPT ![t] = "broken"]
    /\ UNCHANGED <<dependencies, settled, open>>

Next ==
    \/ \E t \in Tasks : \E D \in SUBSET (Submitted \union External) : Submit(t, D)
    \/ \E t \in Tasks : Start(t) \/ Finish(t) \/ Break(t)
    \/ \E e \in External : Settle(e)
    \/ Close

Spec == Init /\ [][Next]_vars
=============================================================================
