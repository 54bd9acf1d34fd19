------------------------- MODULE RobustMutex_proofs -------------------------
(***************************************************************************)
(* Proofs about RobustMutex, for any threads and processes: the variant    *)
(* for macOS by its IInv, those for Windows and Linux by Win32Inv and      *)
(* LinuxInv, and all together for BuildSpec.                               *)
(***************************************************************************)
EXTENDS RobustMutex, TLAPS

-----------------------------------------------------------------------------
(* macOS                                                                   *)

LEMMA DarwinInit == Init => IInv
BY ThreadsAssumption
   DEF Init, IInv, TypeOK, Locations, InsideHolds, FileHeldInside, LocalHeldInside

LEMMA DarwinLock ==
    ASSUME IInv, NEW t \in Threads, LockLocal(t) \/ LockFile(t) \/ LockFileFails(t)
    PROVE  IInv'
<1> USE ThreadsAssumption DEF Goto
<1>1. TypeOK'
  BY DEF IInv, TypeOK, Locations, LockLocal, LockFile, LockFileFails, Flock
<1>2. InsideHolds'
  BY DEF IInv, TypeOK, InsideHolds, FileHeldInside, LockLocal, LockFile, LockFileFails, Flock
<1>3. FileHeldInside'
  BY DEF IInv, TypeOK, FileHeldInside, LockLocal, LockFile, LockFileFails, Flock
<1>4. LocalHeldInside'
  BY DEF IInv, TypeOK, LocalHeldInside, LockLocal, LockFile, LockFileFails, Flock
<1> QED BY <1>1, <1>2, <1>3, <1>4 DEF IInv

LEMMA DarwinTryLock ==
    ASSUME IInv, NEW t \in Threads, TryLock(t)
    PROVE  IInv'
<1> USE ThreadsAssumption DEF Goto
<1>1. TypeOK'
  BY DEF IInv, TypeOK, Locations, TryLock, Flock
<1>2. InsideHolds'
  BY DEF IInv, TypeOK, InsideHolds, FileHeldInside, TryLock, Flock
<1>3. FileHeldInside'
  BY DEF IInv, TypeOK, FileHeldInside, TryLock, Flock
<1>4. LocalHeldInside'
  BY DEF IInv, TypeOK, LocalHeldInside, TryLock, Flock
<1> QED BY <1>1, <1>2, <1>3, <1>4 DEF IInv

\* The file is given up by a thread that is inside, or taken from one that is.
LEMMA DarwinUnlockFile ==
    ASSUME IInv, NEW t \in Threads, Unlock(t) \/ UnlockByOther(t)
    PROVE  IInv'
<1> USE ThreadsAssumption DEF Goto
<1>0. pc[t] \in {"critical", "idle"} /\ UnlockFile(t)
  BY DEF Unlock, UnlockByOther
<1>1. TypeOK'
  BY <1>0 DEF IInv, TypeOK, Locations, UnlockFile
<1>2. InsideHolds'
  <2> SUFFICES ASSUME NEW u \in Threads
               PROVE  /\ pc'[u] \in {"locking", "critical"} => local'[ProcessOf[u]] = u
                      /\ pc'[u] = "critical" => file' = ProcessOf[u] \/ intruded'
    BY DEF InsideHolds
  <2>1. (u # t /\ pc'[u] = pc[u]) \/ pc'[u] = "unlocking"
    BY <1>0 DEF IInv, TypeOK, UnlockFile
  <2>2. ASSUME u # t, pc[u] = "critical", pc[t] = "critical", file = ProcessOf[t]
        PROVE  file' = ProcessOf[u] \/ intruded'
    BY <1>0, <2>2 DEF IInv, TypeOK, InsideHolds, UnlockFile
  <2> QED BY <1>0, <2>1, <2>2 DEF IInv, TypeOK, InsideHolds, UnlockFile
<1>3. FileHeldInside'
  BY <1>0 DEF IInv, TypeOK, FileHeldInside, UnlockFile
<1>4. LocalHeldInside'
  BY <1>0 DEF IInv, TypeOK, LocalHeldInside, UnlockFile
<1> QED BY <1>1, <1>2, <1>3, <1>4 DEF IInv

LEMMA DarwinUnlockLocal ==
    ASSUME IInv, NEW t \in Threads, UnlockLocal(t)
    PROVE  IInv'
<1> USE ThreadsAssumption DEF Goto
<1>1. TypeOK'
  BY DEF IInv, TypeOK, Locations, UnlockLocal
<1>2. InsideHolds'
  BY DEF IInv, TypeOK, InsideHolds, UnlockLocal
<1>3. FileHeldInside'
  BY DEF IInv, TypeOK, FileHeldInside, UnlockLocal
<1>4. LocalHeldInside'
  BY DEF IInv, TypeOK, LocalHeldInside, UnlockLocal
<1> QED BY <1>1, <1>2, <1>3, <1>4 DEF IInv

LEMMA DarwinDie ==
    ASSUME IInv, NEW p \in Processes, Die(p)
    PROVE  IInv'
<1> USE ThreadsAssumption
<1>1. TypeOK'
  BY DEF IInv, TypeOK, Locations, Die
<1>2. InsideHolds'
  BY DEF IInv, TypeOK, InsideHolds, Die
<1>3. FileHeldInside'
  BY DEF IInv, TypeOK, FileHeldInside, Die
<1>4. LocalHeldInside'
  BY DEF IInv, TypeOK, LocalHeldInside, Die
<1> QED BY <1>1, <1>2, <1>3, <1>4 DEF IInv

LEMMA DarwinStep == IInv /\ [Next]_vars => IInv'
<1> SUFFICES ASSUME IInv, [Next]_vars PROVE IInv'
  OBVIOUS
<1>1. CASE UNCHANGED vars
  BY <1>1 DEF vars, IInv, TypeOK, InsideHolds, FileHeldInside, LocalHeldInside
<1>2. ASSUME NEW t \in Threads, Step(t) PROVE IInv'
  BY <1>2, DarwinLock, DarwinTryLock, DarwinUnlockFile, DarwinUnlockLocal DEF Step
<1>3. ASSUME NEW p \in Processes, Die(p) PROVE IInv'
  BY <1>3, DarwinDie
<1> QED BY <1>1, <1>2, <1>3 DEF Next

LEMMA DarwinExclusion == IInv => MutualExclusion
BY ThreadsAssumption DEF IInv, TypeOK, InsideHolds, MutualExclusion

\* The variant for macOS keeps its threads apart with any number of processes, but for
\* the unlock by a wrong thread.
THEOREM DarwinMutualExclusion == Spec => []MutualExclusion
BY DarwinInit, DarwinStep, DarwinExclusion, PTL DEF Spec

\* The locks and the program counters of that variant stay well formed.
THEOREM DarwinTypeCorrect == Spec => []TypeOK
<1>1. IInv => TypeOK
  BY DEF IInv
<1> QED BY <1>1, DarwinInit, DarwinStep, PTL DEF Spec

-----------------------------------------------------------------------------
(* Windows                                                                 *)

\* Who owns the kernel mutex is in a critical section, on the way in, or on the way out
\* of a recursive call, and who is inside owns it.
OwnerInside ==
    \A t \in Threads :
        /\ owner = t => pc[t] \in {"locking", "trying", "acquired", "critical", "unlocking"}
        /\ pc[t] \in {"acquired", "critical"} => owner = t

\* The field has the owner in it, from the end of lock to unlock, unless it was erased.
OwnerRecorded ==
    \A t \in Threads :
        owner = t =>
            \/ wiped
            \/ pc[t] = "acquired"
            \/ pc[t] = "critical" /\ current[ProcessOf[t]] = t

\* The inductive invariant.
Win32Inv ==
    /\ Win32!TypeOK
    /\ OwnerInside
    /\ OwnerRecorded
    /\ Win32!RefusedOnlyOwner
    /\ Win32!RecursionRefused

LEMMA Win32Init == Win32!Init => Win32Inv
<1> SUFFICES ASSUME Win32!Init PROVE Win32Inv
  OBVIOUS
<1> USE ThreadsAssumption DEF Win32!Init
<1>1. Win32!TypeOK
  BY DEF Win32!TypeOK, Win32!Locations
<1>2. OwnerInside /\ OwnerRecorded
  BY DEF OwnerInside, OwnerRecorded
<1>3. Win32!RefusedOnlyOwner /\ Win32!RecursionRefused
  BY DEF Win32!RefusedOnlyOwner, Win32!RecursionRefused
<1> QED BY <1>1, <1>2, <1>3 DEF Win32Inv

LEMMA Win32Lock ==
    ASSUME Win32Inv, NEW t \in Threads,
           Win32!BeginLock(t) \/ Win32!Acquire(t) \/ Win32!TryLockFails(t) \/ Win32!WriteCurrent(t)
    PROVE  Win32Inv'
<1> USE ThreadsAssumption DEF Win32!Goto, Win32!Home, Win32!BeginLock, Win32!Acquire,
        Win32!TryLockFails, Win32!WriteCurrent, Win32Inv, Win32!TypeOK
<1>1. Win32!TypeOK'
  <2>1. owner' \in Threads \union {None} /\ depth' \in Nat /\ (depth' = 0 <=> owner' = None)
    OBVIOUS
  <2>2. pc' \in [Threads -> Win32!Locations]
    BY DEF Win32!Locations
  <2>3. current' \in [Processes -> Threads \union {None}]
    OBVIOUS
  <2>4. abandoned' \in BOOLEAN /\ wiped' \in BOOLEAN
    OBVIOUS
  <2> QED BY <2>1, <2>2, <2>3, <2>4
<1>2. OwnerInside'
  BY DEF OwnerInside
<1>3. OwnerRecorded'
  BY DEF OwnerInside, OwnerRecorded
<1>4. Win32!RefusedOnlyOwner'
  BY DEF OwnerInside, Win32!RefusedOnlyOwner
<1>5. Win32!RecursionRefused'
  BY DEF OwnerInside, OwnerRecorded, Win32!RecursionRefused
<1> QED BY <1>1, <1>2, <1>3, <1>4, <1>5

LEMMA Win32Unlock ==
    ASSUME Win32Inv, NEW t \in Threads, Win32!Release(t) \/ Win32!ClearCurrent(t)
    PROVE  Win32Inv'
<1> USE ThreadsAssumption DEF Win32!Goto, Win32!Home, Win32!Release, Win32!ClearCurrent,
        Win32Inv, Win32!TypeOK
<1>1. Win32!TypeOK'
  <2>1. owner' \in Threads \union {None} /\ depth' \in Nat /\ (depth' = 0 <=> owner' = None)
    OBVIOUS
  <2>2. pc' \in [Threads -> Win32!Locations]
    BY DEF Win32!Locations
  <2>3. current' \in [Processes -> Threads \union {None}]
    OBVIOUS
  <2>4. abandoned' \in BOOLEAN /\ wiped' \in BOOLEAN
    OBVIOUS
  <2> QED BY <2>1, <2>2, <2>3, <2>4
<1>2. OwnerInside'
  BY DEF OwnerInside
<1>3. OwnerRecorded'
  <2>1. CASE Win32!Release(t)
    <3>1. wiped' = wiped /\ current' = current /\ (owner' = t => depth > 1)
      BY <2>1
    <3>2. owner' = t => wiped'
      BY <3>1 DEF Win32!RecursionRefused
    <3> QED BY <2>1, <3>1, <3>2 DEF OwnerRecorded
  <2>2. CASE Win32!ClearCurrent(t)
    <3>1. wiped => wiped'
      BY <2>2
    <3>2. owner' = owner /\ \A u \in Threads \ {t} : pc'[u] = pc[u]
      BY <2>2
    <3>3. ASSUME NEW u \in Threads, owner = u, u # t, ProcessOf[u] = ProcessOf[t],
                 current[ProcessOf[u]] = u
          PROVE  wiped'
      BY <2>2, <3>3
    <3>4. ASSUME NEW u \in Threads, owner = u, u # t, ProcessOf[u] # ProcessOf[t]
          PROVE  current'[ProcessOf[u]] = current[ProcessOf[u]]
      BY <2>2, <3>4
    <3>5. owner = t => wiped
      BY <2>2 DEF OwnerRecorded
    <3> QED BY <3>1, <3>2, <3>3, <3>4, <3>5 DEF OwnerRecorded
  <2> QED BY <2>1, <2>2
<1>4. Win32!RefusedOnlyOwner'
  BY DEF OwnerInside, Win32!RefusedOnlyOwner
<1>5. Win32!RecursionRefused'
  BY DEF OwnerInside, OwnerRecorded, Win32!RecursionRefused
<1> QED BY <1>1, <1>2, <1>3, <1>4, <1>5

LEMMA Win32Die ==
    ASSUME Win32Inv, NEW p \in Processes, Win32!Die(p)
    PROVE  Win32Inv'
<1> USE ThreadsAssumption DEF Win32!Die, Win32Inv, Win32!TypeOK
<1>1. Win32!TypeOK'
  <2>1. owner' \in Threads \union {None} /\ depth' \in Nat /\ (depth' = 0 <=> owner' = None)
    OBVIOUS
  <2>2. pc' \in [Threads -> Win32!Locations]
    BY DEF Win32!Locations
  <2>3. current' \in [Processes -> Threads \union {None}]
    OBVIOUS
  <2>4. abandoned' \in BOOLEAN /\ wiped' \in BOOLEAN
    OBVIOUS
  <2> QED BY <2>1, <2>2, <2>3, <2>4
<1>2. OwnerInside'
  BY DEF OwnerInside
<1>3. OwnerRecorded'
  BY DEF OwnerRecorded
<1>4. Win32!RefusedOnlyOwner'
  BY DEF Win32!RefusedOnlyOwner
<1>5. Win32!RecursionRefused'
  BY DEF Win32!RecursionRefused
<1> QED BY <1>1, <1>2, <1>3, <1>4, <1>5

LEMMA Win32Step == Win32Inv /\ [Win32!Next]_Win32!vars => Win32Inv'
<1> SUFFICES ASSUME Win32Inv, [Win32!Next]_Win32!vars PROVE Win32Inv'
  OBVIOUS
<1>1. CASE UNCHANGED Win32!vars
  BY <1>1 DEF Win32!vars, Win32Inv, Win32!TypeOK, OwnerInside, OwnerRecorded,
              Win32!RefusedOnlyOwner, Win32!RecursionRefused
<1>2. ASSUME NEW t \in Threads, Win32!Step(t) PROVE Win32Inv'
  BY <1>2, Win32Lock, Win32Unlock DEF Win32!Step
<1>3. ASSUME NEW p \in Processes, Win32!Die(p) PROVE Win32Inv'
  BY <1>3, Win32Die
<1> QED BY <1>1, <1>2, <1>3 DEF Win32!Next

-----------------------------------------------------------------------------
(* Linux                                                                   *)

\* The inductive invariant.
LinuxInv ==
    /\ Linux!TypeOK
    /\ Linux!CriticalOwns
    /\ Linux!OwnerInside
    /\ Linux!LockRecovers
    /\ Linux!OnlyDeathsBreak

LEMMA LinuxInit == Linux!Init => LinuxInv
<1> SUFFICES ASSUME Linux!Init PROVE LinuxInv
  OBVIOUS
<1> USE ThreadsAssumption DEF Linux!Init
<1>1. Linux!TypeOK
  BY DEF Linux!TypeOK, Linux!Locations, Linux!Outcomes
<1>2. Linux!CriticalOwns /\ Linux!OwnerInside
  BY DEF Linux!CriticalOwns, Linux!OwnerInside
<1>3. Linux!LockRecovers /\ Linux!OnlyDeathsBreak
  BY DEF Linux!LockRecovers, Linux!OnlyDeathsBreak
<1> QED BY <1>1, <1>2, <1>3 DEF LinuxInv

\* A call of t that neither takes nor gives up the mutex.
LEMMA LinuxKeeps ==
    ASSUME LinuxInv, NEW t \in Threads, NEW l \in Linux!Locations, NEW o \in Linux!Outcomes,
           Linux!Return(t, l, o), UNCHANGED <<owner, health>>, pc[t] # "dead",
           \/ pc[t] \in {"idle", "locking"} /\ l \in {"idle", "locking"}
           \/ pc[t] = "critical" /\ l = "critical" /\ (owner = t => o = "failed")
           \/ pc[t] = "critical" /\ l = "dead" /\ owner # t
           \/ pc[t] \in {"relock", "relockFor"} /\ l = "critical" /\ health = "notRecoverable"
    PROVE  LinuxInv'
<1> USE ThreadsAssumption DEF LinuxInv, Linux!TypeOK, Linux!Return
<1>1. Linux!TypeOK'
  OBVIOUS
<1>2. Linux!CriticalOwns'
  BY DEF Linux!CriticalOwns
<1>3. Linux!OwnerInside'
  BY DEF Linux!OwnerInside, Linux!OwnerUnknowing
<1>4. Linux!LockRecovers'
  BY DEF Linux!LockRecovers
<1>5. Linux!OnlyDeathsBreak'
  BY DEF Linux!OnlyDeathsBreak
<1> QED BY <1>1, <1>2, <1>3, <1>4, <1>5

\* Thread t gets the free mutex.
LEMMA LinuxTakes ==
    ASSUME LinuxInv, NEW t \in Threads, NEW l \in {"idle", "critical"}, NEW o \in Linux!Outcomes,
           Linux!Lockable, Linux!Return(t, l, o), owner' = t, pc[t] # "dead",
           \/ health' = "consistent" /\ l = "critical"
           \/ health = "ownerDead" /\ health' = "inconsistent" /\ l = "idle"
           \/ /\ health = "ownerDead" /\ health' = "inconsistent" /\ l = "critical"
              /\ o \in {"awoken", "failed"}
    PROVE  LinuxInv'
<1> USE ThreadsAssumption DEF LinuxInv, Linux!TypeOK, Linux!Return, Linux!Lockable
<1>1. Linux!TypeOK'
  BY DEF Linux!Locations
<1>2. Linux!CriticalOwns'
  BY DEF Linux!CriticalOwns
<1>3. Linux!OwnerInside'
  BY DEF Linux!OwnerInside, Linux!OwnerUnknowing
<1>4. Linux!LockRecovers'
  BY DEF Linux!LockRecovers
<1>5. Linux!OnlyDeathsBreak'
  BY DEF Linux!OnlyDeathsBreak
<1> QED BY <1>1, <1>2, <1>3, <1>4, <1>5

\* Its owner gives it up.
LEMMA LinuxGives ==
    ASSUME LinuxInv, NEW t \in Threads, NEW l \in {"idle", "Wait", "WaitFor"},
           NEW o \in Linux!Outcomes, pc[t] = "critical", owner = t, Linux!Release,
           Linux!Return(t, l, o)
    PROVE  LinuxInv'
<1> USE ThreadsAssumption DEF LinuxInv, Linux!TypeOK, Linux!Return, Linux!Release
<1>1. Linux!TypeOK'
  BY DEF Linux!Locations
<1>2. Linux!CriticalOwns'
  BY DEF Linux!CriticalOwns
<1>3. Linux!OwnerInside' /\ Linux!LockRecovers'
  BY DEF Linux!OwnerInside, Linux!LockRecovers
<1>4. Linux!OnlyDeathsBreak'
  BY DEF Linux!OnlyDeathsBreak
<1> QED BY <1>1, <1>2, <1>3, <1>4

\* A notification or a timeout moves threads out of the wait only.
LEMMA LinuxWakes ==
    ASSUME LinuxInv, UNCHANGED <<owner, health, outcome>>, pc' \in [Threads -> Linux!Locations],
           \A u \in Threads :
               pc'[u] # pc[u] => /\ pc[u] \in {"Wait", "WaitFor"}
                                 /\ pc'[u] \in {"relock", "relockFor"}
    PROVE  LinuxInv'
<1> USE ThreadsAssumption DEF LinuxInv, Linux!TypeOK
<1>1. Linux!TypeOK'
  OBVIOUS
<1>2. Linux!CriticalOwns'
  BY DEF Linux!CriticalOwns
<1>3. Linux!OwnerInside' /\ Linux!LockRecovers'
  BY DEF Linux!OwnerInside, Linux!OwnerUnknowing, Linux!LockRecovers
<1>4. Linux!OnlyDeathsBreak'
  BY DEF Linux!OnlyDeathsBreak
<1> QED BY <1>1, <1>2, <1>3, <1>4

LEMMA LinuxDie ==
    ASSUME LinuxInv, NEW t \in Threads, Linux!Die(t)
    PROVE  LinuxInv'
<1> USE ThreadsAssumption DEF LinuxInv, Linux!TypeOK, Linux!Return, Linux!Die
<1>1. Linux!TypeOK'
  BY DEF Linux!Locations, Linux!Outcomes
<1>2. Linux!CriticalOwns'
  BY DEF Linux!CriticalOwns
<1>3. Linux!OwnerInside' /\ Linux!LockRecovers'
  BY DEF Linux!OwnerInside, Linux!OwnerUnknowing, Linux!LockRecovers
<1>4. Linux!OnlyDeathsBreak'
  BY DEF Linux!OnlyDeathsBreak
<1> QED BY <1>1, <1>2, <1>3, <1>4

LEMMA LinuxStep == LinuxInv /\ [Linux!Next]_Linux!vars => LinuxInv'
<1> SUFFICES ASSUME LinuxInv, [Linux!Next]_Linux!vars PROVE LinuxInv'
  OBVIOUS
<1>1. CASE UNCHANGED Linux!vars
  BY <1>1 DEF Linux!vars, LinuxInv, Linux!TypeOK, Linux!CriticalOwns, Linux!OwnerInside,
              Linux!OwnerUnknowing, Linux!LockRecovers, Linux!OnlyDeathsBreak
<1>2. ASSUME NEW t \in Threads, Linux!BeginLock(t) \/ Linux!RefuseDeadline(t) PROVE LinuxInv'
  BY <1>2, LinuxKeeps DEF Linux!BeginLock, Linux!RefuseDeadline, Linux!Locations, Linux!Outcomes
<1>3. ASSUME NEW t \in Threads, Linux!Lock(t) PROVE LinuxInv'
  BY <1>3, LinuxKeeps, LinuxTakes DEF Linux!Lock, Linux!Locations, Linux!Outcomes
<1>4. ASSUME NEW t \in Threads, Linux!TryLock(t) PROVE LinuxInv'
  <2> USE <1>4 DEF Linux!TryLock, Linux!Locations, Linux!Outcomes
  <2>1. CASE Linux!Lockable /\ Linux!Acquire(t) /\ health = "ownerDead"
    <3>1. Linux!Return(t, "idle", "ownerDead")
      BY <2>1 DEF Linux!Lockable
    <3>2. owner' = t /\ health' = "inconsistent"
      BY <2>1 DEF Linux!Acquire
    <3> QED BY <2>1, <3>1, <3>2, LinuxTakes
  <2>2. CASE Linux!Lockable /\ Linux!Acquire(t) /\ health # "ownerDead"
    <3>1. Linux!Return(t, "critical", "locked")
      BY <2>2 DEF Linux!Lockable
    <3>2. owner' = t /\ health' = health /\ health = "consistent"
      BY <2>2 DEF Linux!Acquire, Linux!Lockable, LinuxInv, Linux!TypeOK
    <3> QED BY <2>2, <3>1, <3>2, LinuxTakes
  <2>3. CASE ~(Linux!Lockable /\ Linux!Acquire(t))
    <3>1. UNCHANGED <<owner, health>>
      BY <2>3
    <3>2. PICK o \in {"notRecoverable", "deadlock", "busy"} : Linux!Return(t, "idle", o)
      BY <2>3
    <3> QED BY <3>1, <3>2, LinuxKeeps
  <2> QED BY <2>1, <2>2, <2>3
<1>5. ASSUME NEW t \in Threads, Linux!Unlock(t) PROVE LinuxInv'
  BY <1>5, LinuxKeeps, LinuxGives DEF Linux!Unlock, Linux!Locations, Linux!Outcomes
<1>6. ASSUME NEW t \in Threads, NEW c \in {"Wait", "WaitFor"}, Linux!BeginWait(t, c) PROVE LinuxInv'
  BY <1>6, LinuxKeeps, LinuxGives DEF Linux!BeginWait, Linux!Locations, Linux!Outcomes
<1>7. ASSUME NEW t \in Threads, Linux!NotifyOne(t) \/ Linux!NotifyAll(t) \/ Linux!WakeUp(t)
      PROVE  LinuxInv'
  <2>1. /\ UNCHANGED <<owner, health, outcome>>
        /\ pc' \in [Threads -> Linux!Locations]
        /\ \A u \in Threads :
               pc'[u] # pc[u] => /\ pc[u] \in {"Wait", "WaitFor"}
                                 /\ pc'[u] \in {"relock", "relockFor"}
    BY <1>7 DEF LinuxInv, Linux!TypeOK, Linux!NotifyOne, Linux!NotifyAll, Linux!WakeUp,
                Linux!Waiting, Linux!Locations
  <2> QED BY <2>1, LinuxWakes
<1>8. ASSUME NEW t \in Threads, Linux!EndWait(t) PROVE LinuxInv'
  <2> USE DEF Linux!EndWait, Linux!Acquire, Linux!Locations, Linux!Outcomes
  <2>1. health \in {"consistent", "ownerDead", "notRecoverable"}
    BY <1>8 DEF LinuxInv, Linux!TypeOK
  <2>2. CASE Linux!Lockable
    BY <1>8, <2>1, <2>2, LinuxTakes DEF Linux!Lockable
  <2>3. CASE ~Linux!Lockable
    BY <1>8, <2>1, <2>3, LinuxKeeps DEF Linux!Lockable
  <2> QED BY <2>2, <2>3
<1> QED BY <1>1, <1>2, <1>3, <1>4, <1>5, <1>6, <1>7, <1>8, LinuxDie DEF Linux!Next

-----------------------------------------------------------------------------
(* Every build                                                             *)

BuildInv ==
    /\ platform \in {"win32", "darwin", "linux"}
    /\ platform = "darwin" => IInv
    /\ platform = "win32" => Win32Inv
    /\ platform = "linux" => LinuxInv

LEMMA BuildInvariant == BuildSpec => []BuildInv
<1>1. BuildInit => BuildInv
  BY DarwinInit, Win32Init, LinuxInit DEF BuildInit, BuildInv
<1>2. BuildInv /\ [BuildNext]_all => BuildInv'
  <2> SUFFICES ASSUME BuildInv, [BuildNext]_all PROVE BuildInv'
    OBVIOUS
  <2>1. CASE platform = "darwin"
    <3>1. platform' = platform /\ [Next]_vars
      BY <2>1 DEF BuildNext, all
    <3> QED BY <2>1, <3>1, DarwinStep DEF BuildInv
  <2>2. CASE platform = "win32"
    <3>1. platform' = platform /\ [Win32!Next]_Win32!vars
      BY <2>2 DEF BuildNext, all, vars, win32, Win32!vars
    <3> QED BY <2>2, <3>1, Win32Step DEF BuildInv
  <2>3. CASE platform = "linux"
    <3>1. platform' = platform /\ [Linux!Next]_Linux!vars
      BY <2>3 DEF BuildNext, all, vars, linux, Linux!vars
    <3> QED BY <2>3, <3>1, LinuxStep DEF BuildInv
  <2> QED BY <2>1, <2>2, <2>3 DEF BuildInv
<1> QED BY <1>1, <1>2, PTL DEF BuildSpec

\* Two threads are never inside together, in any build, with any number of threads
\* and processes, failures and deaths, but for the exceptions that Exclusion names.
THEOREM ExclusionCorrect == BuildSpec => []Exclusion
<1>1. BuildInv => Exclusion
  BY DarwinExclusion DEF BuildInv, Exclusion, Win32Inv, OwnerInside, LinuxInv
<1> QED BY <1>1, BuildInvariant, PTL

\* On macOS neither of the two locks is held by a thread outside, but for the one of
\* the process after a call that failed half-way; on Linux the mutex is held, or held
\* inconsistent, only after the calls that do not care for EOWNERDEAD.
THEOREM NothingLeftLockedCorrect == BuildSpec => []NothingLeftLocked
<1>1. BuildInv => NothingLeftLocked
  BY DEF BuildInv, NothingLeftLocked, IInv, LinuxInv
<1> QED BY <1>1, BuildInvariant, PTL

\* On Windows only the owner is refused as a recursive caller, and it is, unless
\* another thread has erased it from the field.
THEOREM RecursionDetectedCorrect == BuildSpec => []RecursionDetected
<1>1. BuildInv => RecursionDetected
  BY DEF BuildInv, RecursionDetected, Win32Inv
<1> QED BY <1>1, BuildInvariant, PTL

\* The nanoseconds of a deadline are those of the sum, carried into the seconds if need
\* be, and valid, but in two cases: a sum of exactly a second is not carried, and a
\* negative timeout may leave less than none, which nothing borrows
\* (linux/ConditionVariable.cpp:20-31).
THEOREM DeadlineCorrect ==
    ASSUME NEW now \in 0..(Second - 1), NEW rest \in Linux!Rests
    PROVE  LET sum == now + rest
           IN  /\ Linux!Nanoseconds(now, rest) \in {sum, sum - Second}
               /\ Linux!Nanoseconds(now, rest) \in 0..(Second - 1)
                    <=> sum \notin {Second} \union {n \in Int : n < 0}
               /\ sum < 0 => rest < 0
BY SecondAssumption DEF Linux!Nanoseconds, Linux!Rests
=============================================================================
