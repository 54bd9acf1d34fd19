---------------------------- MODULE BoundedDeque ----------------------------
(***************************************************************************)
(* What azul::ipc::detail::Queue promises to the condition variables that  *)
(* keep their waiting threads in it: a bounded sequence, pushed at the     *)
(* back and popped at both ends.  Removing an element puts the last one in *)
(* its place, so that the order of the others is not kept.                 *)
(***************************************************************************)
EXTENDS Naturals, Sequences

CONSTANTS
    Items,      \* what may be stored
    Capacity    \* how much of it

VARIABLE queue

Init == queue = <<>>

PushBack(x) ==
    /\ Len(queue) < Capacity
    /\ queue' = Append(queue, x)

Pop ==
    /\ queue # <<>>
    /\ queue' = Tail(queue)

PopBack ==
    /\ queue # <<>>
    /\ queue' = SubSeq(queue, 1, Len(queue) - 1)

\* The first occurrence of x leaves.
Remove(x) ==
    \E i \in 1..Len(queue) :
        /\ queue[i] = x
        /\ \A j \in 1..(i - 1) : queue[j] # x
        /\ queue' = SubSeq([queue EXCEPT ![i] = queue[Len(queue)]], 1, Len(queue) - 1)

Clear == queue' = <<>>

Next ==
    \/ \E x \in Items : PushBack(x) \/ Remove(x)
    \/ Pop
    \/ PopBack
    \/ Clear

Spec == Init /\ [][Next]_queue
=============================================================================
