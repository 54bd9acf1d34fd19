------------------------------- MODULE Queue -------------------------------
(***************************************************************************)
(* azul::ipc::detail::Queue (src/ipc/Queue.hpp): a ring buffer in a block  *)
(* of shared memory, three counters in front of the slots.  Every user     *)
(* holds a process-shared mutex, so that each operation is one step.  An   *)
(* operation that throws or returns false changes nothing and is no step.  *)
(* The mutex is robust: when a process dies inside an operation, the next  *)
(* one gets the block with a part of the writes done.                      *)
(* The counters are uint32_t: their arithmetic is modulo Modulus.          *)
(***************************************************************************)
EXTENDS Integers, Sequences

CONSTANTS
    Items,      \* the values of TItem
    Modulus,    \* 2^32
    Bytes,      \* the size of the block of memory
    Header,     \* sizeof(std::uint32_t) * 3
    ItemSize    \* sizeof(TItem)

\* The subtraction wraps around if the block is smaller than its header.
Size == ((Bytes - Header) % Modulus) \div ItemSize
Slots == 0..(Size - 1)

ASSUME ItemSizeAssumption == ItemSize \in Nat \ {0} /\ Modulus \in Nat /\ Bytes \in Nat /\ Header \in Nat
\* Position + i + Size has to fit.  The condition variables, the only users, have
\* blocks of 128 KiB: Size is some thousands, Modulus some billions.
ASSUME SizeAssumption == Size \in Nat \ {0} /\ 3 * Size <= Modulus

VARIABLES
    items,          \* _items
    readPosition,   \* *_readPosition
    writePosition,  \* *_writePosition
    count,          \* *_count
    torn            \* history: since Initialize somebody has died inside an operation

vars == <<items, readPosition, writePosition, count, torn>>

Init ==
    /\ items \in [Slots -> Items]
    /\ readPosition = 0
    /\ writePosition = 0
    /\ count = 0
    /\ torn = FALSE

\* n is the value of an expression of type uint32_t before it wraps around.
Position(n) == (n % Modulus) % Size

\* Fault: the right answer, as long as the counters agree.
SpaceByPositions == count = 0 \/ writePosition # readPosition

SpaceAvailable == count < Size

\* Where the loops in Contains and Remove find element i, counted from 0.
Slot(i) == Position(readPosition + i + Size)

Front == items[readPosition]

\* Fault: the slot that is written next.
BackAtWritePosition == items[writePosition]

Back == items[Position(writePosition + Size - 1)]

-----------------------------------------------------------------------------
\* A process that owns the memory constructs the queue with initialize = true.
Initialize ==
    /\ readPosition' = 0
    /\ writePosition' = 0
    /\ count' = 0
    /\ torn' = FALSE
    /\ UNCHANGED items

PushBack(x) ==
    /\ SpaceAvailable
    /\ items' = [items EXCEPT ![writePosition] = x]
    /\ writePosition' = Position(writePosition + 1 + Size)
    /\ count' = count + 1
    /\ UNCHANGED <<readPosition, torn>>

Pop ==
    /\ count > 0
    /\ readPosition' = Position(readPosition + 1 + Size)
    /\ count' = count - 1
    /\ UNCHANGED <<items, writePosition, torn>>

\* Fault: the position is not kept positive before the remainder is taken.
DropBackUnderflows ==
    /\ writePosition' = Position(writePosition - 1)
    /\ count' = count - 1
    /\ UNCHANGED <<readPosition, torn>>

DropBack ==
    /\ writePosition' = Position(writePosition - 1 + Size)
    /\ count' = count - 1
    /\ UNCHANGED <<readPosition, torn>>

PopBack ==
    /\ count > 0
    /\ DropBack
    /\ UNCHANGED items

\* The search for x stops at element i.
Finds(x, i) ==
    /\ items[Slot(i)] = x
    /\ \A j \in 0..(i - 1) : items[Slot(j)] # x

\* The first slot that holds x takes the last element.
Remove(x) ==
    \E i \in 0..(count - 1) :
        /\ Finds(x, i)
        /\ items' = [items EXCEPT ![Slot(i)] = Back]
        /\ DropBack

-----------------------------------------------------------------------------
(* Death inside an operation                                               *)

\* Of the writes of an operation any may be done: the compiler orders them as it likes.
Torn(written, r, w, c) ==
    /\ items' \in {items, written}
    /\ readPosition' \in {readPosition, r}
    /\ writePosition' \in {writePosition, w}
    /\ count' \in {count, c}
    /\ torn' = TRUE

DieInInitialize == Torn(items, 0, 0, 0)

DieInPushBack(x) ==
    /\ SpaceAvailable
    /\ Torn([items EXCEPT ![writePosition] = x], readPosition, Position(writePosition + 1 + Size),
            count + 1)

DieInPop ==
    /\ count > 0
    /\ Torn(items, Position(readPosition + 1 + Size), writePosition, count - 1)

DieInPopBack ==
    /\ count > 0
    /\ Torn(items, readPosition, Position(writePosition - 1 + Size), count - 1)

DieInRemove(x) ==
    \E i \in 0..(count - 1) :
        /\ Finds(x, i)
        /\ Torn([items EXCEPT ![Slot(i)] = Back], readPosition, Position(writePosition - 1 + Size),
                count - 1)

Die ==
    \/ DieInInitialize \/ DieInPop \/ DieInPopBack
    \/ \E x \in Items : DieInPushBack(x) \/ DieInRemove(x)

Next ==
    \/ Initialize
    \/ \E x \in Items : PushBack(x) \/ Remove(x)
    \/ Pop
    \/ PopBack
    \/ Die

Spec == Init /\ [][Next]_vars

-----------------------------------------------------------------------------
(* Properties                                                              *)

\* No operation reads or writes outside of the block, and no search goes around more
\* than once, whatever the dead have left: every operation looks at the count before it
\* moves a position (lines 97, 120, 144), and computes positions modulo _size.
InsideBlock ==
    /\ items \in [Slots -> Items]
    /\ readPosition \in Slots
    /\ writePosition \in Slots
    /\ count \in 0..Size

\* The elements end where the next one is written.
CountersAgree ==
    \/ writePosition = readPosition + count
    \/ writePosition = readPosition + count - Size

TypeOK ==
    /\ InsideBlock
    /\ torn \in BOOLEAN
    /\ torn \/ CountersAgree

\* The elements in the order in which Contains finds them.
Stored == [i \in 1..count |-> items[Slot(i - 1)]]

\* Front and Back (lines 108-140) are the first and the last element that Contains
\* and Remove find (lines 60-93), although each computes the slot in its own way.
EndsAgree == count > 0 /\ ~torn => Front = Stored[1] /\ Back = Stored[count]

\* Whoever dies inside an operation loses the elements.
Contents == IF torn THEN <<>> ELSE Stored

Deque == INSTANCE BoundedDeque WITH queue <- Contents, Capacity <- Size

\* The ring buffer implements the bounded deque until somebody dies inside an
\* operation, and again once its owner has initialized it: no operation (lines 74-153)
\* loses, repeats or moves an element across the wrap-around at the end of the block.
ImplementsDeque == Deque!Spec
=============================================================================
