---------------------------- MODULE Queue_proofs ----------------------------
(***************************************************************************)
(* The ring buffer of Queue.hpp keeps its counters in step and implements  *)
(* the bounded deque, for every size of the block and every width of the   *)
(* counters that SizeAssumption allows.                                    *)
(***************************************************************************)
EXTENDS Queue, SequenceTheorems, TLAPS

USE ItemSizeAssumption, SizeAssumption DEF InsideBlock, CountersAgree

-----------------------------------------------------------------------------
(* Positions                                                               *)

\* The expressions of Queue.hpp stay below Modulus, and their remainder is taken
\* in the first, second or third turn of the ring.
LEMMA PositionIs ==
    ASSUME NEW n \in 0..(3 * Size - 1)
    PROVE  Position(n) = IF n < Size THEN n
                         ELSE IF n < 2 * Size THEN n - Size ELSE n - 2 * Size
  <1>1. n % Modulus = n
    OBVIOUS
  <1>2. n % Size = IF n < Size THEN n
                   ELSE IF n < 2 * Size THEN n - Size ELSE n - 2 * Size
    OBVIOUS
  <1>. QED  BY <1>1, <1>2 DEF Position

\* The slot of element i.
LEMMA SlotIs ==
    ASSUME NEW r \in Slots, NEW i \in Slots
    PROVE  Position(r + i + Size) = IF r + i < Size THEN r + i ELSE r + i - Size
  BY PositionIs DEF Slots

LEMMA NextPosition ==
    ASSUME NEW p \in Slots
    PROVE  Position(p + 1 + Size) = IF p + 1 < Size THEN p + 1 ELSE 0
  BY PositionIs DEF Slots

LEMMA PreviousPosition ==
    ASSUME NEW p \in Slots
    PROVE  /\ Position(p - 1 + Size) = IF p = 0 THEN Size - 1 ELSE p - 1
           /\ Position(p + Size - 1) = IF p = 0 THEN Size - 1 ELSE p - 1
  BY PositionIs DEF Slots

Sound == InsideBlock /\ CountersAgree

\* In a queue whose counters agree, elements have slots of their own, the last one
\* is where Back looks, and the slot written next is none of theirs.
LEMMA SlotsOfElements ==
    ASSUME Sound
    PROVE  /\ \A i \in 0..(count - 1) : Slot(i) \in Slots
           /\ \A i, j \in 0..(count - 1) : Slot(i) = Slot(j) => i = j
           /\ count > 0 => /\ Slot(0) = readPosition
                           /\ Slot(count - 1) = Position(writePosition + Size - 1)
           /\ \A i \in 0..(count - 1) : count < Size => Slot(i) # writePosition
           /\ count < Size => Slot(count) = writePosition
  <1>1. \A i \in Slots :
            Slot(i) = IF readPosition + i < Size THEN readPosition + i ELSE readPosition + i - Size
    BY SlotIs DEF Sound, Slot
  <1>2. Position(writePosition + Size - 1) = IF writePosition = 0 THEN Size - 1 ELSE writePosition - 1
    BY PreviousPosition DEF Sound
  <1>3. /\ readPosition \in 0..(Size - 1) /\ writePosition \in 0..(Size - 1)
        /\ count \in 0..Size /\ Size \in Nat
        /\ \/ writePosition = readPosition + count
           \/ writePosition = readPosition + count - Size
    BY DEF Sound, Slots
  <1>4. \A i \in 0..(count - 1) : i \in Slots /\ Slot(i) \in Slots
    BY <1>1, <1>3 DEF Slots
  <1>5. \A i, j \in 0..(count - 1) : Slot(i) = Slot(j) => i = j
    BY <1>1, <1>3, <1>4
  <1>6. count > 0 => /\ Slot(0) = readPosition
                     /\ Slot(count - 1) = Position(writePosition + Size - 1)
    BY <1>1, <1>2, <1>3 DEF Slots
  <1>7. \A i \in 0..(count - 1) : count < Size => Slot(i) # writePosition
    BY <1>1, <1>3, <1>4
  <1>8. count < Size => Slot(count) = writePosition
    BY <1>1, <1>3 DEF Slots
  <1>. QED  BY <1>4, <1>5, <1>6, <1>7, <1>8

-----------------------------------------------------------------------------
(* The counters                                                            *)

\* The positions that an operation may leave are in the block, whoever dies.
LEMMA PositionsInside ==
    ASSUME InsideBlock
    PROVE  /\ Position(readPosition + 1 + Size) \in Slots
           /\ Position(writePosition + 1 + Size) \in Slots
           /\ Position(writePosition - 1 + Size) \in Slots
           /\ Back \in Items
           /\ 0 \in Slots /\ 0 \in 0..Size
           /\ count < Size => count + 1 \in 0..Size
           /\ count > 0 => count - 1 \in 0..Size
  <1>1. ASSUME NEW p \in Slots
        PROVE  /\ (IF p + 1 < Size THEN p + 1 ELSE 0) \in Slots
               /\ (IF p = 0 THEN Size - 1 ELSE p - 1) \in Slots
    BY DEF Slots
  <1>2. Position(readPosition + 1 + Size) \in Slots /\ Position(writePosition + 1 + Size) \in Slots
    BY <1>1, NextPosition
  <1>3. Position(writePosition - 1 + Size) \in Slots /\ Position(writePosition + Size - 1) \in Slots
    BY <1>1, PreviousPosition
  <1>4. Back \in Items
    BY <1>3 DEF Back
  <1>5. /\ 0 \in Slots /\ 0 \in 0..Size
        /\ count < Size => count + 1 \in 0..Size
        /\ count > 0 => count - 1 \in 0..Size
    BY DEF Slots
  <1>. QED  BY <1>2, <1>3, <1>4, <1>5

LEMMA TornInside ==
    ASSUME InsideBlock, NEW written \in [Slots -> Items], NEW r \in Slots, NEW w \in Slots,
           NEW c \in 0..Size, Torn(written, r, w, c)
    PROVE  InsideBlock' /\ torn' = TRUE
  BY DEF Torn

LEMMA DieInside ==
    ASSUME InsideBlock, Die
    PROVE  InsideBlock' /\ torn' = TRUE
  <1>1. CASE DieInInitialize
    BY <1>1, PositionsInside, TornInside DEF DieInInitialize
  <1>2. CASE DieInPop
    BY <1>2, PositionsInside, TornInside DEF DieInPop
  <1>3. CASE DieInPopBack
    BY <1>3, PositionsInside, TornInside DEF DieInPopBack
  <1>4. ASSUME NEW x \in Items, DieInPushBack(x)
        PROVE  InsideBlock' /\ torn' = TRUE
    BY <1>4, PositionsInside, TornInside DEF DieInPushBack, SpaceAvailable
  <1>5. ASSUME NEW x \in Items, DieInRemove(x)
        PROVE  InsideBlock' /\ torn' = TRUE
    <2>1. PICK i \in 0..(count - 1) :
              Torn([items EXCEPT ![Slot(i)] = Back], readPosition, Position(writePosition - 1 + Size),
                   count - 1)
      BY <1>5 DEF DieInRemove
    <2>2. count > 0
      OBVIOUS
    <2>3. [items EXCEPT ![Slot(i)] = Back] \in [Slots -> Items]
      BY PositionsInside
    <2>. QED  BY <2>1, <2>2, <2>3, PositionsInside, TornInside
  <1>. QED  BY <1>1, <1>2, <1>3, <1>4, <1>5 DEF Die

\* An operation that is not interrupted.
Operation == Pop \/ PopBack \/ \E x \in Items : PushBack(x) \/ Remove(x)

LEMMA OperationInside ==
    ASSUME InsideBlock, Operation
    PROVE  InsideBlock' /\ torn' = torn
  <1>. USE PositionsInside
  <1>1. CASE Pop
    BY <1>1 DEF Pop
  <1>2. CASE PopBack
    BY <1>2 DEF PopBack, DropBack
  <1>3. ASSUME NEW x \in Items, PushBack(x)
        PROVE  InsideBlock' /\ torn' = torn
    BY <1>3 DEF PushBack, SpaceAvailable
  <1>4. ASSUME NEW x \in Items, Remove(x)
        PROVE  InsideBlock' /\ torn' = torn
    <2>1. PICK i \in 0..(count - 1) : items' = [items EXCEPT ![Slot(i)] = Back] /\ DropBack
      BY <1>4 DEF Remove
    <2>2. count > 0
      OBVIOUS
    <2>3. items' \in [Slots -> Items]
      BY <2>1
    <2>. QED  BY <2>1, <2>2, <2>3 DEF DropBack
  <1>. QED  BY <1>1, <1>2, <1>3, <1>4 DEF Operation

LEMMA OperationSound ==
    ASSUME Sound, Operation
    PROVE  Sound'
  <1>1. InsideBlock'
    BY OperationInside DEF Sound
  <1>2. CASE DropBack /\ count > 0
    <2>1. writePosition' = IF writePosition = 0 THEN Size - 1 ELSE writePosition - 1
      BY <1>2, PreviousPosition DEF Sound, DropBack
    <2>. QED  BY <1>1, <1>2, <2>1 DEF Sound, DropBack, Slots
  <1>3. ASSUME NEW x \in Items, PushBack(x)
        PROVE  Sound'
    BY <1>1, <1>3, NextPosition DEF Sound, PushBack, SpaceAvailable, Slots
  <1>4. CASE Pop
    <2>1. readPosition' = IF readPosition + 1 < Size THEN readPosition + 1 ELSE 0
      BY <1>4, NextPosition DEF Sound, Pop
    <2>. QED  BY <1>1, <1>4, <2>1 DEF Sound, Pop, Slots
  <1>5. ASSUME NEW x \in Items, Remove(x)
        PROVE  DropBack /\ count > 0
    BY <1>5 DEF Remove, Sound
  <1>. QED  BY <1>2, <1>3, <1>4, <1>5 DEF Operation, PopBack

LEMMA InitializeSound ==
    ASSUME InsideBlock, Initialize
    PROVE  Sound' /\ torn' = FALSE
  BY DEF Initialize, Sound, Slots

\* The counters of the block agree with one another after every operation (lines
\* 74-153), as long as nobody dies inside one.
THEOREM TypeCorrect == Spec => []TypeOK
  <1>1. Init => TypeOK
    <2>. SUFFICES ASSUME Init
                  PROVE  TypeOK
      OBVIOUS
    <2>1. 0 \in Slots /\ 0 \in 0..Size
      BY DEF Slots
    <2>2. InsideBlock
      BY <2>1 DEF Init
    <2>3. CountersAgree
      BY DEF Init
    <2>4. torn \in BOOLEAN
      BY DEF Init
    <2>. QED  BY <2>2, <2>3, <2>4 DEF TypeOK
  <1>2. TypeOK /\ [Next]_vars => TypeOK'
    <2>. SUFFICES ASSUME TypeOK, [Next]_vars
                  PROVE  TypeOK'
      OBVIOUS
    <2>1. CASE Operation
      BY <2>1, OperationInside, OperationSound DEF TypeOK, Sound
    <2>2. CASE Initialize
      BY <2>2, InitializeSound DEF TypeOK, Sound
    <2>3. CASE Die
      BY <2>3, DieInside DEF TypeOK
    <2>4. CASE UNCHANGED vars
      BY <2>4 DEF vars, TypeOK
    <2>. QED  BY <2>1, <2>2, <2>3, <2>4 DEF Next, Operation
  <1>. QED  BY <1>1, <1>2, PTL DEF Spec

\* No operation leaves the block, also after any number of deaths inside operations.
THEOREM StaysInside == Spec => []InsideBlock
  <1>1. TypeOK => InsideBlock
    BY DEF TypeOK
  <1>. QED  BY <1>1, TypeCorrect, PTL

\* Front and Back read the first and the last element (lines 108-140).
THEOREM EndsCorrect == Spec => []EndsAgree
  <1>1. TypeOK => EndsAgree
    <2>. SUFFICES ASSUME TypeOK, count > 0, ~torn
                  PROVE  Front = Stored[1] /\ Back = Stored[count]
      BY DEF EndsAgree
    <2>1. Sound
      BY DEF TypeOK, Sound
    <2>. QED  BY <2>1, SlotsOfElements DEF Sound, Stored, Front, Back
  <1>. QED  BY <1>1, TypeCorrect, PTL

-----------------------------------------------------------------------------
(* The stored sequence                                                     *)

StoredTyped ==
    /\ Stored \in Seq(Items)
    /\ Len(Stored) = count
    /\ count \in Nat
    /\ \A i \in 1..count : Stored[i] = items[Slot(i - 1)] /\ Stored[i] \in Items

LEMMA StoredIsSeq == Sound => StoredTyped
  <1>. SUFFICES ASSUME Sound  PROVE StoredTyped
    OBVIOUS
  <1>1. count \in Nat
    BY DEF Sound
  <1>2. \A i \in 1..count : items[Slot(i - 1)] \in Items
    BY <1>1, SlotsOfElements DEF Sound
  <1>3. Stored \in [1..count -> Items]
    BY <1>2 DEF Stored
  <1>. QED  BY <1>1, <1>2, <1>3 DEF Stored, StoredTyped

LEMMA StoredIsSeqAfter == Sound' => StoredTyped'
  BY StoredIsSeq, PTL

\* Two sequences are the same if they have the same length and elements.
LEMMA SameSequence ==
    ASSUME NEW s \in Seq(Items), NEW t \in Seq(Items),
           Len(s) = Len(t), \A i \in 1..Len(s) : s[i] = t[i]
    PROVE  s = t
  BY SeqEqual

LEMMA PushBackStored ==
    ASSUME Sound, Sound', NEW x \in Items, PushBack(x)
    PROVE  Stored' = Append(Stored, x)
  <1>1. /\ count < Size /\ count' = count + 1
        /\ items' = [items EXCEPT ![writePosition] = x]
        /\ readPosition' = readPosition
    BY DEF PushBack, SpaceAvailable
  <1>2. \A i \in 0..count : Slot(i)' = Slot(i)
    BY <1>1 DEF Slot
  <1>3. /\ Append(Stored, x) \in Seq(Items)
        /\ Len(Append(Stored, x)) = Len(Stored')
    BY <1>1, StoredIsSeq, StoredIsSeqAfter DEF StoredTyped
  <1>4. \A i \in 1..count' : Stored'[i] = Append(Stored, x)[i]
    <2>. SUFFICES ASSUME NEW i \in 1..count'
                  PROVE  Stored'[i] = Append(Stored, x)[i]
      OBVIOUS
    <2>1. Stored'[i] = items'[Slot(i - 1)]
      BY <1>1, <1>2, StoredIsSeq, StoredIsSeqAfter DEF StoredTyped
    <2>2. CASE i = count + 1
      BY <1>1, <2>1, <2>2, SlotsOfElements, StoredIsSeq DEF Sound, StoredTyped
    <2>3. CASE i # count + 1
      BY <1>1, <2>1, <2>3, SlotsOfElements, StoredIsSeq DEF Sound, StoredTyped
    <2>. QED  BY <2>2, <2>3
  <1>. QED  BY <1>3, <1>4, StoredIsSeqAfter, SameSequence, SMT DEF StoredTyped

LEMMA PopStored ==
    ASSUME Sound, Sound', Pop
    PROVE  Stored # <<>> /\ Stored' = Tail(Stored)
  <1>1. count > 0 /\ count' = count - 1 /\ items' = items
    BY DEF Pop
  <1>2. Stored # <<>>
    BY <1>1, StoredIsSeq DEF StoredTyped
  <1>3. \A i \in 0..(count' - 1) : Slot(i)' = Slot(i + 1)
    <2>. SUFFICES ASSUME NEW i \in 0..(count' - 1)
                  PROVE  Slot(i)' = Slot(i + 1)
      OBVIOUS
    <2>1. readPosition' = IF readPosition + 1 < Size THEN readPosition + 1 ELSE 0
      BY NextPosition DEF Pop, Sound
    <2>2. i \in Slots /\ i + 1 \in Slots /\ readPosition \in Slots /\ readPosition' \in Slots
      BY <1>1 DEF Sound, Slots
    <2>3. Slot(i + 1) = IF readPosition + (i + 1) < Size
                          THEN readPosition + (i + 1) ELSE readPosition + (i + 1) - Size
      BY <2>2, SlotIs DEF Slot
    <2>4. Slot(i)' = IF readPosition' + i < Size
                       THEN readPosition' + i ELSE readPosition' + i - Size
      BY <2>2, SlotIs DEF Slot
    <2>. QED  BY <2>1, <2>2, <2>3, <2>4 DEF Slots
  <1>4. /\ Tail(Stored) \in Seq(Items) /\ Len(Tail(Stored)) = Len(Stored')
        /\ \A i \in 1..count' : Tail(Stored)[i] = Stored[i + 1]
    BY <1>1, <1>2, StoredIsSeq, StoredIsSeqAfter, HeadTailProperties DEF StoredTyped
  <1>5. \A i \in 1..count' : Stored'[i] = Stored[i + 1]
    <2>. SUFFICES ASSUME NEW i \in 1..count'
                  PROVE  Stored'[i] = Stored[i + 1]
      OBVIOUS
    <2>1. i - 1 \in 0..(count' - 1) /\ i + 1 \in 1..count /\ (i - 1) + 1 = i /\ (i + 1) - 1 = i
      BY <1>1, StoredIsSeq DEF StoredTyped
    <2>2. Slot(i - 1)' = Slot(i)
      BY <1>3, <2>1
    <2>3. Stored'[i] = items'[Slot(i - 1)']
      BY StoredIsSeqAfter DEF StoredTyped
    <2>4. Stored[i + 1] = items[Slot(i)]
      BY <2>1, StoredIsSeq DEF StoredTyped
    <2>. QED  BY <1>1, <2>2, <2>3, <2>4
  <1>. QED  BY <1>2, <1>4, <1>5, StoredIsSeqAfter, SameSequence, SMT DEF StoredTyped

LEMMA PopBackStored ==
    ASSUME Sound, Sound', PopBack
    PROVE  Stored # <<>> /\ Stored' = SubSeq(Stored, 1, Len(Stored) - 1)
  <1>1. count > 0 /\ count' = count - 1 /\ items' = items /\ readPosition' = readPosition
    BY DEF PopBack, DropBack
  <1>2. Stored # <<>>
    BY <1>1, StoredIsSeq DEF StoredTyped
  <1>3. /\ SubSeq(Stored, 1, Len(Stored) - 1) \in Seq(Items)
        /\ Len(SubSeq(Stored, 1, Len(Stored) - 1)) = Len(Stored')
        /\ \A i \in 1..count' : SubSeq(Stored, 1, Len(Stored) - 1)[i] = Stored[i]
    BY <1>1, StoredIsSeq, StoredIsSeqAfter DEF StoredTyped
  <1>4. \A i \in 1..count' : Stored'[i] = Stored[i]
    BY <1>1, StoredIsSeq, StoredIsSeqAfter DEF Slot, StoredTyped
  <1>. QED  BY <1>2, <1>3, <1>4, StoredIsSeqAfter, SameSequence, SMT DEF StoredTyped

LEMMA RemoveStored ==
    ASSUME Sound, Sound', NEW x \in Items, Remove(x), Contents = Stored, Contents' = Stored'
    PROVE  Deque!Remove(x)
  <1>1. PICK k \in 0..(count - 1) :
            /\ items[Slot(k)] = x
            /\ \A j \in 0..(k - 1) : items[Slot(j)] # x
            /\ items' = [items EXCEPT ![Slot(k)] = Back]
            /\ DropBack
    BY DEF Remove, Finds
  <1>2. count > 0 /\ count' = count - 1 /\ readPosition' = readPosition
    BY <1>1 DEF DropBack, Sound
  <1>. DEFINE swapped == [Stored EXCEPT ![k + 1] = Stored[Len(Stored)]]
              rest == SubSeq(swapped, 1, Len(Stored) - 1)
  <1>3. k + 1 \in 1..Len(Stored) /\ Stored[k + 1] = x
    BY <1>1, StoredIsSeq DEF StoredTyped
  <1>4. \A j \in 1..k : Stored[j] # x
    BY <1>1, StoredIsSeq DEF StoredTyped
  <1>5. Back = Stored[Len(Stored)]
    BY <1>2, StoredIsSeq, SlotsOfElements DEF Back, StoredTyped
  <1>6. /\ swapped \in Seq(Items) /\ Len(swapped) = Len(Stored)
        /\ \A i \in 1..count : swapped[i] = IF i = k + 1 THEN Back ELSE Stored[i]
    BY <1>2, <1>3, <1>5, StoredIsSeq, ExceptSeq DEF StoredTyped
  <1>7. /\ rest \in Seq(Items) /\ Len(rest) = Len(Stored')
        /\ \A i \in 1..count' : rest[i] = swapped[i]
    <2>. HIDE DEF swapped
    <2>. QED  BY <1>2, <1>6, StoredIsSeq, StoredIsSeqAfter DEF StoredTyped
  <1>8. \A i \in 1..count' : Stored'[i] = swapped[i]
    <2>. SUFFICES ASSUME NEW i \in 1..count'
                  PROVE  Stored'[i] = swapped[i]
      OBVIOUS
    <2>1. Stored'[i] = items'[Slot(i - 1)]
      BY <1>2, StoredIsSeqAfter DEF Slot, StoredTyped
    <2>2. i - 1 \in 0..(count - 1) /\ Slot(i - 1) \in Slots
      BY <1>2, StoredIsSeq, SlotsOfElements DEF StoredTyped
    <2>3. i \in 1..count /\ k + 1 - 1 = k
      BY <1>2, StoredIsSeq DEF StoredTyped
    <2>4. items \in [Slots -> Items] /\ swapped[i] = IF i = k + 1 THEN Back ELSE Stored[i]
      BY <1>6, <2>3 DEF Sound
    <2>. HIDE DEF swapped
    <2>5. CASE i = k + 1
      <3>1. Slot(i - 1) = Slot(k)
        BY <2>3, <2>5
      <3>. QED  BY <1>1, <2>1, <2>2, <2>4, <2>5, <3>1
    <2>6. CASE i # k + 1
      <3>1. Slot(i - 1) # Slot(k)
        BY <2>2, <2>6, SlotsOfElements
      <3>2. Stored[i] = items[Slot(i - 1)]
        BY <2>3, StoredIsSeq DEF StoredTyped
      <3>. QED  BY <1>1, <2>1, <2>2, <2>4, <2>6, <3>1, <3>2
    <2>. QED  BY <2>5, <2>6
  <1>9. Stored' = rest
    <2>. HIDE DEF rest
    <2>. QED  BY <1>7, <1>8, StoredIsSeqAfter, SameSequence, SMT DEF StoredTyped
  <1>. QED  BY <1>3, <1>4, <1>9, StoredIsSeq DEF Deque!Remove, StoredTyped

\* The same for the deque that the ring is.
StoredStep == [Deque!Next]_Contents

LEMMA OperationStored ==
    ASSUME Sound, Operation, torn = FALSE
    PROVE  StoredStep
  <1>1. Sound'
    BY OperationSound
  <1>2. torn' = FALSE
    BY OperationInside DEF Sound
  <1>3. Contents = Stored /\ Contents' = Stored'
    BY <1>2 DEF Contents
  <1>4. ASSUME NEW x \in Items, PushBack(x)
        PROVE  Deque!Next
    BY <1>1, <1>3, <1>4, PushBackStored, StoredIsSeq
       DEF Deque!Next, Deque!PushBack, PushBack, SpaceAvailable, StoredTyped
  <1>5. ASSUME NEW x \in Items, Remove(x)
        PROVE  Deque!Next
    BY <1>1, <1>3, <1>5, RemoveStored DEF Deque!Next
  <1>6. CASE Pop
    <2>1. Stored # <<>> /\ Stored' = Tail(Stored)
      BY <1>1, <1>6, PopStored
    <2>2. Deque!Pop
      BY <1>3, <2>1 DEF Deque!Pop
    <2>. QED  BY <2>2 DEF Deque!Next, Deque!Pop, StoredStep
  <1>7. CASE PopBack
    <2>1. Stored # <<>> /\ Stored' = SubSeq(Stored, 1, Len(Stored) - 1)
      BY <1>1, <1>7, PopBackStored
    <2>2. Deque!PopBack
      BY <1>3, <2>1 DEF Deque!PopBack
    <2>. QED  BY <2>2 DEF Deque!Next, Deque!PopBack, StoredStep
  <1>. QED  BY <1>4, <1>5, <1>6, <1>7 DEF Operation, StoredStep

\* The ring buffer implements the bounded deque (lines 74-153) until somebody dies
\* inside an operation, and again after the next Initialize.
THEOREM QueueImplementsDeque == Spec => ImplementsDeque
  <1>1. Init => Deque!Init
    BY DEF Init, Deque!Init, Contents, Stored
  <1>2. TypeOK /\ [Next]_vars => StoredStep
    <2>. SUFFICES ASSUME TypeOK, [Next]_vars
                  PROVE  StoredStep
      OBVIOUS
    <2>1. CASE Initialize
      <3>1. Contents' = <<>>
        BY <2>1 DEF Initialize, Contents, Stored
      <3>. QED  BY <3>1 DEF StoredStep, Deque!Next, Deque!Clear
    <2>2. CASE Operation /\ ~torn
      BY <2>2, OperationStored DEF TypeOK, Sound
    <2>3. CASE Operation /\ torn
      <3>1. torn' = torn
        BY <2>3, OperationInside DEF TypeOK
      <3>. QED  BY <2>3, <3>1 DEF StoredStep, Contents
    <2>4. CASE Die
      <3>1. torn' = TRUE
        BY <2>4, DieInside DEF TypeOK
      <3>. QED  BY <3>1 DEF StoredStep, Contents, Deque!Next, Deque!Clear
    <2>5. CASE UNCHANGED vars
      BY <2>5 DEF vars, StoredStep, Contents, Stored, Slot
    <2>. QED  BY <2>1, <2>2, <2>3, <2>4, <2>5 DEF Next, Operation
  <1>. QED  BY <1>1, <1>2, TypeCorrect, PTL DEF Spec, ImplementsDeque, Deque!Spec, StoredStep
=============================================================================
