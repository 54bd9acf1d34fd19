---------------------------- MODULE SharedMemory ----------------------------
(***************************************************************************)
(* azul::ipc::SharedMemory: the objects that different processes construct *)
(* for one name, as its owner or to open what the owner has created, for   *)
(* each platform (src/ipc/{linux,darwin,win32}/SharedMemory.cpp).  A block *)
(* lives as long as an object refers to it; what processes can agree on is *)
(* the block that its name leads to.  Every call of the system that reads  *)
(* or changes the name or the block is a step.  What the owner of a mutex, *)
(* a condition variable or a queue puts into the block comes afterwards.   *)
(***************************************************************************)
EXTENDS FiniteSets

CONSTANTS
    Objects,    \* SharedMemory objects, each in a process of its own
    Blocks,     \* blocks of memory
    None        \* no block

ASSUME BlocksAssumption ==
    /\ None \notin Blocks
    /\ IsFiniteSet(Objects) /\ IsFiniteSet(Blocks)

VARIABLES
    platform,   \* what the library is built for
    linked,     \* the block that the name leads to
    sized,      \* the blocks that have got their size
    initialized,    \* the blocks in which an owner has made its mutex or queue
    block,      \* the block of each object
    owners,     \* the objects constructed as owner
    pc,         \* where each object is
    \* history: whether two owners have ever existed together, and the blocks whose
    \* creator died or failed
    overlapped, deserted

posix == platform \in {"linux", "darwin"}
history == <<overlapped, deserted>>
vars == <<platform, linked, sized, initialized, block, owners, pc, history>>

Locations == {"none", "opening", "replacing", "reopening", "checking", "sizing", "mapping",
              "constructed", "ready", "destroyed", "failed", "dead"}

Init ==
    /\ platform \in {"linux", "darwin", "win32"}
    /\ linked = None
    /\ sized = {}
    /\ initialized = {}
    /\ block = [o \in Objects |-> None]
    /\ owners = {}
    /\ pc = [o \in Objects |-> "none"]
    /\ overlapped = FALSE
    /\ deserted = {}

Goto(o, l) == pc' = [pc EXCEPT ![o] = l]

\* A new block under the name.  A block that nobody refers to is as good as new.
Create(o) ==
    \E b \in Blocks :
        /\ b # linked /\ \A p \in Objects : block[p] # b
        /\ linked' = b
        /\ block' = [block EXCEPT ![o] = b]
        /\ sized' = IF posix THEN sized \ {b} ELSE sized \union {b}
        /\ initialized' = initialized \ {b}
        /\ deserted' = deserted \ {b}

\* The block that has the name.
Open(o) ==
    /\ linked # None
    /\ block' = [block EXCEPT ![o] = linked]
    /\ UNCHANGED <<linked, sized, initialized, deserted>>

-----------------------------------------------------------------------------
(* The owner's constructor                                                 *)

\* On macOS the name is removed first.
Begin(o) ==
    /\ pc[o] = "none"
    /\ owners' = owners \union {o}
    /\ overlapped' = (overlapped \/ owners # {})
    /\ linked' = IF platform = "darwin" THEN None ELSE linked
    /\ Goto(o, "opening")
    /\ UNCHANGED <<platform, sized, initialized, block, deserted>>

\* Fault: without O_EXCL the block of a dead owner is taken over, sized or not.
OpenOwnedShared(o) ==
    /\ pc[o] = "opening" /\ o \in owners
    /\ IF linked = None THEN Create(o) ELSE Open(o)
    /\ Goto(o, IF posix THEN IF linked = None THEN "sizing" ELSE "mapping" ELSE "constructed")
    /\ UNCHANGED <<platform, owners, overlapped>>

\* shm_open with O_CREAT, with O_EXCL on Linux, or CreateFileMapping, which opens a
\* mapping that exists.
OpenOwned(o) ==
    /\ pc[o] = "opening" /\ o \in owners
    /\ \/ linked = None /\ Create(o) /\ Goto(o, CASE platform = "linux" -> "sizing"
                                                  [] platform = "darwin" -> "checking"
                                                  [] platform = "win32" -> "constructed")
       \/ /\ platform = "linux" /\ linked # None
          /\ Goto(o, "replacing")
          /\ UNCHANGED <<linked, sized, initialized, block, deserted>>
       \/ /\ platform # "linux" /\ Open(o)
          /\ Goto(o, IF posix THEN "checking" ELSE "constructed")
    /\ UNCHANGED <<platform, owners, overlapped>>

\* Linux, after EEXIST: shm_unlink, which fails if the name is gone already.
Replace(o) ==
    /\ pc[o] = "replacing"
    /\ linked' = None
    /\ Goto(o, IF linked = None THEN "failed" ELSE "reopening")
    /\ UNCHANGED <<platform, sized, initialized, block, owners, history>>

\* shm_open again, still with O_EXCL.
Reopen(o) ==
    /\ pc[o] = "reopening"
    /\ \/ linked = None /\ Create(o) /\ Goto(o, "sizing")
       \/ /\ linked # None /\ Goto(o, "failed")
          /\ UNCHANGED <<linked, sized, initialized, block, deserted>>
    /\ UNCHANGED <<platform, owners, overlapped>>

\* macOS: fstat, and no ftruncate for a block that has its size.
CheckSize(o) ==
    /\ pc[o] = "checking"
    /\ Goto(o, IF block[o] \in sized THEN "mapping" ELSE "sizing")
    /\ UNCHANGED <<platform, linked, sized, initialized, block, owners, history>>

\* Fault: a failure of ftruncate is not noticed.
ResizeUnchecked(o) ==
    /\ pc[o] = "sizing"
    /\ sized' \in {sized, sized \union {block[o]}}
    /\ Goto(o, "mapping")
    /\ UNCHANGED <<platform, linked, initialized, block, owners, history>>

\* ftruncate, which may fail, and on macOS does for a block that has its size.
Resize(o) ==
    /\ pc[o] = "sizing"
    /\ \/ /\ platform = "linux" \/ block[o] \notin sized
          /\ sized' = sized \union {block[o]}
          /\ Goto(o, "mapping")
       \/ Goto(o, "failed") /\ UNCHANGED sized
    /\ UNCHANGED <<platform, linked, initialized, block, owners, history>>

-----------------------------------------------------------------------------
(* The constructor for others, and what is common                          *)

\* shm_open or OpenFileMapping.  Without the name the constructor throws, which changes
\* nothing.
OpenExisting(o) ==
    /\ pc[o] = "none"
    /\ Open(o)
    /\ Goto(o, IF posix THEN "mapping" ELSE "constructed")
    /\ UNCHANGED <<platform, owners, overlapped>>

\* mmap, which macOS refuses as long as the block has no size.
Map(o) ==
    /\ pc[o] = "mapping"
    /\ Goto(o, IF platform = "darwin" /\ block[o] \notin sized THEN "failed" ELSE "constructed")
    /\ UNCHANGED <<platform, linked, sized, initialized, block, owners, history>>

-----------------------------------------------------------------------------
(* The contents                                                            *)

\* Fault: whoever opens the name initializes what is there.
InitializeByAll(o) ==
    /\ pc[o] = "constructed"
    /\ initialized' = initialized \union {block[o]}
    /\ Goto(o, "ready")
    /\ UNCHANGED <<platform, linked, sized, block, owners, history>>

\* The owner makes its mutex, condition variable or queue in the block.  Those of
\* pthread may fail.  Others take the contents as they are, at once.
Initialize(o) ==
    /\ pc[o] = "constructed" /\ o \in owners
    /\ \/ initialized' = initialized \union {block[o]} /\ Goto(o, "ready")
       \/ posix /\ Goto(o, "failed") /\ UNCHANGED initialized
    /\ UNCHANGED <<platform, linked, sized, block, owners, history>>

\* pthread_mutex_destroy or pthread_cond_destroy, before the memory is given up.
Destroy(o) ==
    /\ pc[o] = "ready" /\ posix
    /\ initialized' = initialized \ {block[o]}
    /\ Goto(o, "destroyed")
    /\ UNCHANGED <<platform, linked, sized, block, owners, history>>

-----------------------------------------------------------------------------
(* The end of an object                                                    *)

\* Fault: everybody's destructor removes the name.
ReleaseByAll(o) ==
    /\ linked' = IF posix \/ \A p \in Objects \ {o} : block[p] # block[o] THEN None ELSE linked
    /\ owners' = owners \ {o}

\* Fault: nobody's destructor removes the name.
ReleaseByNone(o) ==
    /\ linked' = IF ~posix /\ \A p \in Objects \ {o} : block[p] # block[o] THEN None ELSE linked
    /\ owners' = owners \ {o}

\* An owner removes the name, whatever it leads to by now.  On Windows it goes with the
\* last handle.
Release(o) ==
    /\ linked' = IF (posix /\ o \in owners /\ block[o] # None)
                      \/ (~posix /\ \A p \in Objects \ {o} : block[p] # block[o])
                   THEN None ELSE linked
    /\ owners' = owners \ {o}

\* The destructor, or the disposers of a constructor that throws.  On Linux everything
\* that is initialized is destroyed first.
Dispose(o) ==
    /\ pc[o] \in {"constructed", "ready", "destroyed", "failed"}
    /\ pc[o] = "ready" => platform # "linux"
    /\ Release(o)
    /\ block' = [block EXCEPT ![o] = None]
    /\ deserted' = IF pc[o] = "failed" /\ o \in owners
                     THEN deserted \union ({block[o]} \ {None}) ELSE deserted
    /\ Goto(o, "none")
    /\ UNCHANGED <<platform, sized, initialized, overlapped>>

\* The process dies: handles and mappings are closed, and nothing else.
Die(o) ==
    /\ pc[o] \notin {"none", "dead"}
    /\ linked' = IF ~posix /\ \A p \in Objects \ {o} : block[p] # linked THEN None ELSE linked
    /\ owners' = owners \ {o}
    /\ block' = [block EXCEPT ![o] = None]
    /\ deserted' = IF o \in owners THEN deserted \union ({block[o]} \ {None}) ELSE deserted
    /\ Goto(o, "dead")
    /\ UNCHANGED <<platform, sized, initialized, overlapped>>

Restart(o) ==
    /\ pc[o] = "dead"
    /\ Goto(o, "none")
    /\ UNCHANGED <<platform, linked, sized, initialized, block, owners, history>>

Next == \E o \in Objects :
    \/ Begin(o) \/ OpenOwned(o) \/ Replace(o) \/ Reopen(o) \/ CheckSize(o) \/ Resize(o)
    \/ OpenExisting(o) \/ Map(o)
    \/ Initialize(o) \/ Destroy(o)
    \/ Dispose(o) \/ Die(o) \/ Restart(o)

Spec == Init /\ [][Next]_vars

-----------------------------------------------------------------------------
(* Properties                                                              *)

Constructed == {"constructed", "ready", "destroyed"}

\* Name, blocks, roles and program counters stay well formed, and an object works on a
\* block in every step after shm_open has succeeded (lines 34-37, darwin 37-54).
TypeOK ==
    /\ platform \in {"linux", "darwin", "win32"}
    /\ linked \in Blocks \union {None}
    /\ sized \in SUBSET Blocks
    /\ initialized \in SUBSET Blocks
    /\ block \in [Objects -> Blocks \union {None}]
    /\ owners \in SUBSET Objects
    /\ pc \in [Objects -> Locations]
    /\ \A o \in Objects :
        pc[o] \in {"checking", "sizing", "mapping"} \union Constructed => block[o] # None
    /\ overlapped \in BOOLEAN
    /\ deserted \in SUBSET Blocks

\* The memory of a constructed owner has its size, although two owners may come to
\* share a block on macOS (lines 34-36) and each checks before it resizes (line 71).
\* An object that was opened has memory without a size, where every access faults, only
\* as long as the owner is between creating the block and ftruncate (linux lines 23 and
\* 53), or if it died or failed there: what a constructed owner offers can be used.
ConstructedIsSized ==
    \A o \in Objects :
        pc[o] \in Constructed /\ block[o] \notin sized =>
            /\ o \notin owners
            /\ \/ block[o] \in deserted
               \/ \E p \in owners :
                    block[p] = block[o] /\ pc[p] \in {"checking", "sizing", "failed"}

\* As long as there are never two owners at a time, the name leads to the block of the
\* constructed owner, whichever died or left before it (linux lines 21-32, darwin lines
\* 28-36): who opens it now shares the memory of the owner.
OwnerIsFound ==
    \A o \in owners : pc[o] \in Constructed /\ ~overlapped => linked = block[o]

\* A name without an owner is left behind only by one that died or failed (linux lines
\* 39-46), or on Windows by objects that still use the block.
NameIsOwned ==
    linked # None /\ ~overlapped =>
        \/ linked \in deserted
        \/ \E o \in Objects : block[o] = linked /\ (posix => o \in owners)

\* Two owners on macOS can come to share a block, since it is opened without O_EXCL.
OwnersShare == platform = "darwin" /\ overlapped

\* Whoever opens the name of a mutex or queue whose owner is ready and has not begun to
\* leave finds it initialized: no other owner destroys it (linux/RobustMutex.hpp:48-53),
\* also if that one took the name over and leaves later.
ReadyIsInitialized ==
    \A o \in owners : pc[o] = "ready" => block[o] \in initialized \/ OwnersShare

\* A mutex or queue that is initialized and may be in use, with threads waiting in it, is
\* initialized again, which forgets them (Queue.hpp:30-35, linux/RobustMutex.hpp:40), only
\* on Windows, where an owner that starts again gets the block that others still use
\* (win32 lines 12-18), and by owners that share.
InitializedOnce ==
    [][\A o \in Objects :
        pc[o] = "constructed" /\ pc'[o] = "ready" /\ block[o] \in initialized =>
            platform = "win32" \/ OwnersShare]_vars
=============================================================================
