------------------------- MODULE SharedMemory_proofs -------------------------
(***************************************************************************)
(* What the objects for one name can rely on, on each platform, with any   *)
(* number of objects and blocks, constructors that fail and processes that *)
(* die in any of their steps.                                              *)
(***************************************************************************)
EXTENDS SharedMemory, TLAPS

USE BlocksAssumption DEF Constructed, OwnersShare

-----------------------------------------------------------------------------
(* The inductive invariant                                                 *)

\* An object in the owner's constructor is an owner, and one that does not exist has no
\* part in anything.  Some steps are never made on Windows.
Roles ==
    \A o \in Objects :
        /\ pc[o] \in {"opening", "replacing", "reopening", "checking", "sizing", "ready",
                     "destroyed"} => o \in owners
        /\ pc[o] \in {"none", "dead"} => o \notin owners /\ block[o] = None
        /\ pc[o] \in {"replacing", "reopening"} => platform = "linux"
        /\ pc[o] \in {"checking", "sizing", "mapping", "destroyed", "failed"} => posix

\* On Windows the name leads to the block as long as anybody has it, and a block has its
\* size from the start.
WindowsNames ==
    ~posix =>
        /\ \A o \in Objects : block[o] \in {None, linked}
        /\ linked # None => linked \in sized

\* An owner that is about to map its block has seen to its size.
OwnerSized ==
    \A o \in owners : pc[o] \in {"mapping"} \union Constructed => block[o] \in sized

\* A block in use that has no size yet has an owner who is at it, or had one.
UnsizedAccounted ==
    \A b \in Blocks \ sized :
        (linked = b \/ \E o \in Objects : block[o] = b) =>
            \/ b \in deserted
            \/ \E p \in owners : block[p] = b /\ pc[p] \in {"checking", "sizing", "failed"}

\* Without an overlap there is one owner at most, and the name leads to its block.
OneOwner ==
    ~overlapped =>
        /\ \A o, p \in owners : o = p
        /\ \A o \in owners :
            /\ pc[o] \in {"checking", "sizing", "mapping"} \union Constructed => linked = block[o]
            /\ platform = "darwin" /\ pc[o] = "opening" => linked = None

\* Every owner has a block of its own, in which nobody else initializes anything, but on
\* Windows and where owners share.
OwnersApart ==
    posix /\ ~OwnersShare =>
        /\ \A o, p \in owners : block[o] = block[p] /\ block[o] # None => o = p
        /\ \A o \in owners :
            pc[o] \in {"checking", "sizing", "mapping", "constructed"} => block[o] \notin initialized

IInv ==
    /\ TypeOK
    /\ Roles
    /\ WindowsNames
    /\ OwnerSized
    /\ UnsizedAccounted
    /\ OneOwner
    /\ OwnersApart
    /\ NameIsOwned
    /\ ReadyIsInitialized

LEMMA InitInv == Init => IInv
  <1>. SUFFICES ASSUME Init
                PROVE  IInv
    OBVIOUS
  <1>. USE DEF Init
  <1>1. TypeOK /\ Roles
    BY DEF TypeOK, Roles, Locations
  <1>2. WindowsNames /\ OwnerSized /\ UnsizedAccounted
    BY DEF WindowsNames, OwnerSized, UnsizedAccounted
  <1>3. OneOwner /\ NameIsOwned /\ OwnersApart /\ ReadyIsInitialized
    BY DEF OneOwner, NameIsOwned, OwnersApart, ReadyIsInitialized
  <1>. QED  BY <1>1, <1>2, <1>3 DEF IInv

-----------------------------------------------------------------------------
(* The steps                                                               *)

LEMMA BeginStep ==
    ASSUME IInv, NEW o \in Objects, Begin(o)
    PROVE  IInv'
  <1>. USE DEF IInv, Begin, Goto, posix
  <1>1. TypeOK'
    <2>1. overlapped' \in BOOLEAN
      OBVIOUS
    <2>. QED  BY <2>1 DEF TypeOK, Locations
  <1>2. Roles' /\ OwnerSized'
    BY DEF TypeOK, Roles, OwnerSized
  <1>3. WindowsNames'
    BY DEF TypeOK, WindowsNames
  <1>4. UnsizedAccounted'
    BY DEF TypeOK, Roles, UnsizedAccounted
  <1>5. OneOwner'
    <2>1. ~overlapped' => owners' = {o}
      OBVIOUS
    <2>2. pc'[o] = "opening"
      BY DEF TypeOK
    <2>. QED  BY <2>1, <2>2 DEF OneOwner
  <1>6. NameIsOwned'
    BY DEF TypeOK, NameIsOwned
  <1>7. OwnersApart' /\ ReadyIsInitialized'
    BY DEF TypeOK, Roles, WindowsNames, OneOwner, OwnersApart, ReadyIsInitialized
  <1>. QED  BY <1>1, <1>2, <1>3, <1>4, <1>5, <1>6, <1>7

\* The owner's constructor gets a new block.
LEMMA CreateStep ==
    ASSUME IInv, NEW o \in Objects, pc[o] \in {"opening", "reopening"}, linked = None, Create(o),
           \/ platform = "linux" /\ Goto(o, "sizing")
           \/ platform = "darwin" /\ Goto(o, "checking")
           \/ platform = "win32" /\ Goto(o, "constructed"),
           UNCHANGED <<platform, owners, overlapped>>
    PROVE  IInv'
  <1>. USE DEF IInv, Goto, posix
  <1>. PICK b \in Blocks :
           /\ \A p \in Objects : block[p] # b
           /\ linked' = b
           /\ block' = [block EXCEPT ![o] = b]
           /\ sized' = IF posix THEN sized \ {b} ELSE sized \union {b}
           /\ initialized' = initialized \ {b}
           /\ deserted' = deserted \ {b}
    BY DEF Create
  <1>1. TypeOK'
    BY DEF TypeOK, Locations
  <1>2. o \in owners
    BY DEF Roles
  <1>3. Roles'
    BY <1>2 DEF TypeOK, Roles
  <1>4. WindowsNames'
    BY DEF TypeOK, WindowsNames
  <1>5. OwnerSized'
    BY DEF TypeOK, Roles, OwnerSized
  <1>6. UnsizedAccounted'
    BY <1>2 DEF TypeOK, Roles, UnsizedAccounted
  <1>7. OneOwner'
    BY <1>2 DEF TypeOK, OneOwner
  <1>8. NameIsOwned'
    BY <1>2 DEF TypeOK, NameIsOwned
  <1>9. OwnersApart' /\ ReadyIsInitialized'
    BY DEF TypeOK, Roles, WindowsNames, OneOwner, OwnersApart, ReadyIsInitialized
  <1>. QED  BY <1>1, <1>3, <1>4, <1>5, <1>6, <1>7, <1>8, <1>9

\* Somebody gets the block that has the name.
LEMMA OpenStep ==
    ASSUME IInv, NEW o \in Objects, Open(o), UNCHANGED <<platform, owners, overlapped>>,
           \/ pc[o] = "none" /\ Goto(o, IF posix THEN "mapping" ELSE "constructed")
           \/ /\ pc[o] = "opening" /\ platform # "linux"
              /\ Goto(o, IF posix THEN "checking" ELSE "constructed")
    PROVE  IInv'
  <1>. USE DEF IInv, Open, Goto, posix
  <1>1. TypeOK'
    BY DEF TypeOK, Locations
  <1>2. Roles'
    BY DEF TypeOK, Roles
  <1>3. WindowsNames'
    BY DEF TypeOK, Roles, WindowsNames
  <1>4. OwnerSized'
    BY DEF TypeOK, Roles, WindowsNames, OwnerSized
  <1>5. UnsizedAccounted'
    BY DEF TypeOK, Roles, OwnerSized, UnsizedAccounted
  <1>6. OneOwner'
    BY DEF TypeOK, Roles, WindowsNames, OneOwner
  <1>7. NameIsOwned'
    BY DEF TypeOK, Roles, WindowsNames, OneOwner, NameIsOwned
  <1>8. OwnersApart' /\ ReadyIsInitialized'
    BY DEF TypeOK, Roles, WindowsNames, OneOwner, OwnersApart, ReadyIsInitialized
  <1>. QED  BY <1>1, <1>2, <1>3, <1>4, <1>5, <1>6, <1>7, <1>8

LEMMA OpenOwnedStep ==
    ASSUME IInv, NEW o \in Objects, OpenOwned(o)
    PROVE  IInv'
  <1>. USE DEF OpenOwned, posix
  <1>1. platform \in {"linux", "darwin", "win32"}
    BY DEF IInv, TypeOK
  <1>2. CASE linked = None /\ Create(o)
    BY <1>1, <1>2, CreateStep DEF Goto
  <1>3. CASE platform # "linux" /\ Open(o)
    BY <1>3, OpenStep DEF Open
  <1>4. CASE platform = "linux" /\ linked # None /\ Goto(o, "replacing")
    <2>. USE <1>4 DEF IInv, Goto
    <2>1. TypeOK'
      BY DEF TypeOK, Locations
    <2>2. Roles'
      BY DEF TypeOK, Roles
    <2>3. WindowsNames'
      BY DEF TypeOK, Roles, WindowsNames
    <2>4. OwnerSized'
      BY DEF TypeOK, Roles, WindowsNames, OwnerSized
    <2>5. UnsizedAccounted'
      BY DEF TypeOK, Roles, OwnerSized, UnsizedAccounted
    <2>6. OneOwner'
      BY DEF TypeOK, Roles, WindowsNames, OneOwner
    <2>7. NameIsOwned'
      BY DEF TypeOK, Roles, WindowsNames, OneOwner, NameIsOwned
    <2>8. OwnersApart' /\ ReadyIsInitialized'
      BY DEF TypeOK, Roles, WindowsNames, OneOwner, OwnersApart, ReadyIsInitialized
    <2>. QED  BY <2>1, <2>2, <2>3, <2>4, <2>5, <2>6, <2>7, <2>8
  <1>. QED  BY <1>1, <1>2, <1>3, <1>4 DEF Open

LEMMA ReplaceStep ==
    ASSUME IInv, NEW o \in Objects, Replace(o)
    PROVE  IInv'
  <1>. USE DEF IInv, Replace, history, Goto, posix
  <1>1. TypeOK'
    BY DEF TypeOK, Locations
  <1>2. Roles'
    BY DEF TypeOK, Roles
  <1>3. WindowsNames'
    BY DEF TypeOK, Roles, WindowsNames
  <1>4. OwnerSized'
    BY DEF TypeOK, Roles, WindowsNames, OwnerSized
  <1>5. UnsizedAccounted'
    BY DEF TypeOK, Roles, OwnerSized, UnsizedAccounted
  <1>6. OneOwner'
    BY DEF TypeOK, Roles, WindowsNames, OneOwner
  <1>7. NameIsOwned'
    BY DEF TypeOK, Roles, WindowsNames, OneOwner, NameIsOwned
  <1>8. OwnersApart' /\ ReadyIsInitialized'
    BY DEF TypeOK, Roles, WindowsNames, OneOwner, OwnersApart, ReadyIsInitialized
  <1>. QED  BY <1>1, <1>2, <1>3, <1>4, <1>5, <1>6, <1>7, <1>8

LEMMA ReopenStep ==
    ASSUME IInv, NEW o \in Objects, Reopen(o)
    PROVE  IInv'
  <1>1. platform = "linux"
    BY DEF Reopen, IInv, Roles
  <1>2. CASE linked = None /\ Create(o) /\ Goto(o, "sizing")
    BY <1>1, <1>2, CreateStep DEF Reopen
  <1>3. CASE linked # None /\ Goto(o, "failed")
    <2>. USE <1>1, <1>3 DEF IInv, Goto, Reopen, posix
    <2>1. TypeOK'
      BY DEF TypeOK, Locations
    <2>2. Roles'
      BY DEF TypeOK, Roles
    <2>3. WindowsNames'
      BY DEF TypeOK, Roles, WindowsNames
    <2>4. OwnerSized'
      BY DEF TypeOK, Roles, WindowsNames, OwnerSized
    <2>5. UnsizedAccounted'
      BY DEF TypeOK, Roles, OwnerSized, UnsizedAccounted
    <2>6. OneOwner'
      BY DEF TypeOK, Roles, WindowsNames, OneOwner
    <2>7. NameIsOwned'
      BY DEF TypeOK, Roles, WindowsNames, OneOwner, NameIsOwned
    <2>8. OwnersApart' /\ ReadyIsInitialized'
      BY DEF TypeOK, Roles, WindowsNames, OneOwner, OwnersApart, ReadyIsInitialized
    <2>. QED  BY <2>1, <2>2, <2>3, <2>4, <2>5, <2>6, <2>7, <2>8
  <1>. QED  BY <1>2, <1>3 DEF Reopen

LEMMA SizeStep ==
    ASSUME IInv, NEW o \in Objects, CheckSize(o) \/ Resize(o) \/ Map(o) \/ Restart(o)
    PROVE  IInv'
  <1>. USE DEF IInv, CheckSize, Resize, Map, Restart, history, Goto, posix
  <1>1. TypeOK'
    BY DEF TypeOK, Locations
  <1>2. Roles'
    BY DEF TypeOK, Roles
  <1>3. WindowsNames'
    BY DEF TypeOK, Roles, WindowsNames
  <1>4. OwnerSized'
    BY DEF TypeOK, Roles, WindowsNames, OwnerSized
  <1>5. UnsizedAccounted'
    BY DEF TypeOK, Roles, OwnerSized, UnsizedAccounted
  <1>6. OneOwner'
    BY DEF TypeOK, Roles, WindowsNames, OneOwner
  <1>7. NameIsOwned'
    BY DEF TypeOK, Roles, WindowsNames, OneOwner, NameIsOwned
  <1>8. OwnersApart' /\ ReadyIsInitialized'
    BY DEF TypeOK, Roles, WindowsNames, OneOwner, OwnersApart, ReadyIsInitialized
  <1>. QED  BY <1>1, <1>2, <1>3, <1>4, <1>5, <1>6, <1>7, <1>8

LEMMA ContentsStep ==
    ASSUME IInv, NEW o \in Objects, Initialize(o) \/ Destroy(o)
    PROVE  IInv'
  <1>. USE DEF IInv, Initialize, Destroy, history, Goto, posix
  <1>1. TypeOK'
    BY DEF TypeOK, Locations
  <1>2. Roles'
    BY DEF TypeOK, Roles
  <1>3. WindowsNames'
    BY DEF TypeOK, Roles, WindowsNames
  <1>4. OwnerSized'
    BY DEF TypeOK, Roles, WindowsNames, OwnerSized
  <1>5. UnsizedAccounted'
    BY DEF TypeOK, Roles, OwnerSized, UnsizedAccounted
  <1>6. OneOwner'
    BY DEF TypeOK, Roles, WindowsNames, OneOwner
  <1>7. NameIsOwned'
    BY DEF TypeOK, Roles, WindowsNames, OneOwner, NameIsOwned
  <1>8. OwnersApart' /\ ReadyIsInitialized'
    BY DEF TypeOK, Roles, WindowsNames, OneOwner, OwnersApart, ReadyIsInitialized
  <1>. QED  BY <1>1, <1>2, <1>3, <1>4, <1>5, <1>6, <1>7, <1>8

LEMMA DisposeStep ==
    ASSUME IInv, NEW o \in Objects, Dispose(o)
    PROVE  IInv'
  <1>. USE DEF IInv, Dispose, Release, Goto, posix
  <1>1. TypeOK'
    BY DEF TypeOK, Locations
  <1>2. Roles'
    BY DEF TypeOK, Roles
  <1>3. WindowsNames'
    BY DEF TypeOK, Roles, WindowsNames
  <1>4. OwnerSized'
    BY DEF TypeOK, Roles, WindowsNames, OwnerSized
  <1>5. UnsizedAccounted'
    BY DEF TypeOK, Roles, OwnerSized, UnsizedAccounted
  <1>6. OneOwner'
    BY DEF TypeOK, Roles, WindowsNames, OneOwner
  <1>7. NameIsOwned'
    BY DEF TypeOK, Roles, WindowsNames, OneOwner, NameIsOwned
  <1>8. OwnersApart' /\ ReadyIsInitialized'
    BY DEF TypeOK, Roles, WindowsNames, OneOwner, OwnersApart, ReadyIsInitialized
  <1>. QED  BY <1>1, <1>2, <1>3, <1>4, <1>5, <1>6, <1>7, <1>8

LEMMA DieStep ==
    ASSUME IInv, NEW o \in Objects, Die(o)
    PROVE  IInv'
  <1>. USE DEF IInv, Die, Goto, posix
  <1>1. TypeOK'
    BY DEF TypeOK, Locations
  <1>2. Roles'
    BY DEF TypeOK, Roles
  <1>3. WindowsNames'
    BY DEF TypeOK, Roles, WindowsNames
  <1>4. OwnerSized'
    BY DEF TypeOK, Roles, WindowsNames, OwnerSized
  <1>5. UnsizedAccounted'
    BY DEF TypeOK, Roles, OwnerSized, UnsizedAccounted
  <1>6. OneOwner'
    BY DEF TypeOK, Roles, WindowsNames, OneOwner
  <1>7. NameIsOwned'
    BY DEF TypeOK, Roles, WindowsNames, OneOwner, NameIsOwned
  <1>8. OwnersApart' /\ ReadyIsInitialized'
    BY DEF TypeOK, Roles, WindowsNames, OneOwner, OwnersApart, ReadyIsInitialized
  <1>. QED  BY <1>1, <1>2, <1>3, <1>4, <1>5, <1>6, <1>7, <1>8

LEMMA Invariance == Spec => []IInv
  <1>1. IInv /\ [Next]_vars => IInv'
    <2>. SUFFICES ASSUME IInv, [Next]_vars
                  PROVE  IInv'
      OBVIOUS
    <2>1. ASSUME NEW o \in Objects, OpenExisting(o)
          PROVE  IInv'
      BY <2>1, OpenStep DEF OpenExisting
    <2>2. CASE UNCHANGED vars
      BY <2>2 DEF vars, history, IInv, TypeOK, Roles, WindowsNames, OwnerSized, UnsizedAccounted,
                  OneOwner, NameIsOwned, OwnersApart, ReadyIsInitialized, posix
    <2>. QED
      BY <2>1, <2>2, BeginStep, OpenOwnedStep, ReplaceStep, ReopenStep, SizeStep, ContentsStep,
         DisposeStep, DieStep DEF Next
  <1>. QED  BY InitInv, <1>1, PTL DEF Spec

-----------------------------------------------------------------------------
(* What a reader should know of                                            *)

\* Name, blocks and roles stay well formed, and no step works on a block that is not
\* there.
THEOREM TypeCorrect == Spec => []TypeOK
  <1>1. IInv => TypeOK
    BY DEF IInv
  <1>. QED  BY Invariance, <1>1, PTL

\* An object that can be used has memory of its size, unless the owner is still at it
\* or never got there.
THEOREM ConstructedAreSized == Spec => []ConstructedIsSized
  <1>1. IInv => ConstructedIsSized
    BY DEF IInv, ConstructedIsSized, TypeOK, OwnerSized, UnsizedAccounted
  <1>. QED  BY Invariance, <1>1, PTL

\* Who opens the name shares the memory of the only owner.
THEOREM OwnersAreFound == Spec => []OwnerIsFound
  <1>1. IInv => OwnerIsFound
    BY DEF IInv, OwnerIsFound, OneOwner
  <1>. QED  BY Invariance, <1>1, PTL

\* A name is left behind only by an owner that died or failed.
THEOREM NamesAreOwned == Spec => []NameIsOwned
  <1>1. IInv => NameIsOwned
    BY DEF IInv
  <1>. QED  BY Invariance, <1>1, PTL

\* A mutex or queue whose owner is ready has not been destroyed by another.
THEOREM ReadyAreInitialized == Spec => []ReadyIsInitialized
  <1>1. IInv => ReadyIsInitialized
    BY DEF IInv
  <1>. QED  BY Invariance, <1>1, PTL

\* A mutex or queue in use is not made anew, but on Windows and by owners that share.
THEOREM InitializedOnceCorrect == Spec => InitializedOnce
  <1>1. IInv /\ [Next]_vars =>
          [\A o \in Objects :
              pc[o] = "constructed" /\ pc'[o] = "ready" /\ block[o] \in initialized =>
                  platform = "win32" \/ OwnersShare]_vars
    <2>. SUFFICES ASSUME IInv, Next, NEW o \in Objects, pc[o] = "constructed", pc'[o] = "ready",
                         block[o] \in initialized
                  PROVE  platform = "win32" \/ OwnersShare
      OBVIOUS
    <2>1. PICK q \in Objects : Initialize(q)
      BY DEF Next, Begin, OpenOwned, Replace, Reopen, CheckSize, Resize, OpenExisting, Map, Destroy,
             Dispose, Die, Restart, Goto, IInv, TypeOK
    <2>2. q = o
      BY <2>1 DEF Initialize, Goto, IInv, TypeOK
    <2>. QED  BY <2>1, <2>2 DEF Initialize, IInv, TypeOK, OwnersApart, posix
  <1>. QED  BY Invariance, <1>1, PTL DEF Spec, InitializedOnce
=============================================================================
