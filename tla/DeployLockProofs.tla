-------------------------- MODULE DeployLockProofs --------------------------
(***************************************************************************)
(* Theorems about DeployLock, for every set of clients, staleness and      *)
(* clock bound, with or without an operator and a full disk.               *)
(***************************************************************************)
EXTENDS DeployLock, TLAPS

USE TimeAssumption, ClientAssumption

\* Until a live client is robbed, whoever is between its mkdir and its release
\* made the directory that is there.
OwnersHold == ~robbed => \A c \in Clients : pc[c] \in Grants => lockDir.owner = c

LockInv == TypeOK /\ OwnersHold /\ NoLeakedLock

LEMMA LockDirTypes ==
    /\ NoLock \in LockDirs
    /\ ~NoLock.dated
    /\ \A c \in Clients, t \in 0 .. MaxTime :
         [owner |-> c, mtime |-> t, dated |-> FALSE] \in LockDirs
  BY DEF NoLock, LockDirs

LEMMA InitLockInv == Init => LockInv
  <1> SUFFICES ASSUME Init PROVE LockInv
    OBVIOUS
  <1>1. TypeOK
    <2>1. now \in 0 .. MaxTime /\ unlock \in {"idle", "found"}
      BY DEF Init
    <2>2. lockDir \in LockDirs
      BY LockDirTypes DEF Init
    <2>3. pc \in [Clients -> PCs]
      BY DEF Init, PCs
    <2>4. robbed \in BOOLEAN
      BY Zenon DEF Init
    <2> QED
      BY <2>1, <2>2, <2>3, <2>4 DEF TypeOK
  <1>2. OwnersHold /\ NoLeakedLock
    BY LockDirTypes DEF Init, OwnersHold, NoLeakedLock, Grants
  <1> QED
    BY <1>1, <1>2 DEF LockInv

\* Removing the lock is what may rob a client; it keeps the invariant as long as
\* the client that removes it is no longer granted the lock afterwards.
LEMMA RemovalKeeps ==
    ASSUME LockInv, NEW c \in Clients \cup {"nobody"}, RemoveLock(c),
           now' = now, unlock' \in {"idle", "found"},
           \/ c = "nobody" /\ pc' = pc
           \/ \E l \in PCs \ Grants : Goto(c, l)
    PROVE  LockInv'
  <1> USE DEF LockInv, TypeOK
  <1>1. TypeOK'
    BY LockDirTypes DEF RemoveLock, Goto, Remover
  <1>2. OwnersHold'
    BY DEF OwnersHold, RemoveLock, Remover, Goto, Grants, NoLock
  <1>3. NoLeakedLock'
    BY DEF NoLeakedLock, RemoveLock, NoLock
  <1> QED
    BY <1>1, <1>2, <1>3

LEMMA AcquireKeeps ==
    ASSUME LockInv, NEW c \in Clients, Start(c) \/ Acquire(c)
    PROVE  LockInv'
  <1> USE DEF LockInv, TypeOK, Goto, PCs
  <1>1. ASSUME NEW from \in {"mkdir", "mkdir2"}, NEW won \in Grants \ {"holding"},
               NEW lost \in PCs \ Grants, Mkdir(c, from, won, lost)
        PROVE  LockInv'
    <2>1. TypeOK'
      BY <1>1, LockDirTypes DEF Mkdir, Stamp, Grants
    <2>2. OwnersHold'
      BY <1>1 DEF Mkdir, OwnersHold, mkdirWins, Exists, NoLock
    <2>3. NoLeakedLock'
      BY <1>1 DEF Mkdir, NoLeakedLock, Grants
    <2> QED
      BY <2>1, <2>2, <2>3
  <1>2. ASSUME NEW from \in {"date", "date2"}, NEW lost \in PCs \ Grants,
               WriteDate(c, from, lost)
        PROVE  LockInv'
    <2>1. TypeOK'
      BY <1>2 DEF WriteDate, Stamp, Grants, LockDirs
    <2>2. OwnersHold'
      <3>1. lockDir'.owner = lockDir.owner
        BY <1>2 DEF WriteDate, LockDirs
      <3>2. robbed' = robbed /\ \A b \in Clients :
              pc'[b] \in Grants => pc[b] \in Grants
        BY <1>2 DEF WriteDate, Grants
      <3> QED
        BY <3>1, <3>2 DEF OwnersHold
    <2>3. NoLeakedLock'
      BY <1>2 DEF WriteDate, NoLeakedLock, Grants
    <2> QED
      BY <2>1, <2>2, <2>3
  <1>3. CASE Start(c) \/ TestExists(c) \/ StatAge(c)
    <2>1. TypeOK'
      BY <1>3 DEF Start, TestExists, StatAge
    <2>2. OwnersHold'
      BY <1>3 DEF Start, TestExists, StatAge, OwnersHold, Grants
    <2>3. NoLeakedLock'
      BY <1>3 DEF Start, TestExists, StatAge, NoLeakedLock
    <2> QED
      BY <2>1, <2>2, <2>3
  <1>4. CASE RemoveStale(c)
    BY <1>4, RemovalKeeps DEF RemoveStale, Grants
  <1> QED
    BY <1>1, <1>2, <1>3, <1>4 DEF Acquire, Grants

LEMMA NextLockInv == LockInv /\ [Next]_vars => LockInv'
  <1> SUFFICES ASSUME LockInv, [Next]_vars
               PROVE  LockInv'
    OBVIOUS
  <1>1. ASSUME NEW c \in Clients, Start(c) \/ Acquire(c)
        PROVE  LockInv'
    BY <1>1, AcquireKeeps
  <1>2. ASSUME NEW c \in Clients, Release(c)
        PROVE  LockInv'
    BY <1>2, RemovalKeeps
       DEF Release, LockAfterRelease, Grants, PCs, LockInv, TypeOK
  <1>3. ASSUME NEW c \in Clients, Crash(c)
        PROVE  LockInv'
    BY <1>3 DEF Crash, Goto, LockInv, TypeOK, OwnersHold, NoLeakedLock, Grants,
                PCs
  <1>4. CASE UnlockClear
    BY <1>4, RemovalKeeps DEF UnlockClear
  <1>5. CASE Tick \/ UnlockCheck \/ UnlockCancel \/ UNCHANGED vars
    BY <1>5 DEF Tick, UnlockCheck, UnlockCancel, vars, LockInv, TypeOK,
                OwnersHold, NoLeakedLock
  <1> QED
    BY <1>1, <1>2, <1>3, <1>4, <1>5 DEF Next

LEMMA LockInvariant == Spec => []LockInv
  BY InitLockInv, NextLockInv, PTL DEF Spec

\* Every variable of the lock protocol keeps its type.
THEOREM TypeCorrect == Spec => []TypeOK
  <1>1. LockInv => TypeOK
    BY DEF LockInv
  <1> QED
    BY <1>1, LockInvariant, PTL

\* Two clients hold the deploy lock only after a live client's lock was removed
\* by a takeover or an operator, however many clients there are.
THEOREM Exclusion == Spec => []ExclusiveUnlessRobbed
  <1>1. LockInv => ExclusiveUnlessRobbed
    BY DEF LockInv, OwnersHold, ExclusiveUnlessRobbed, MutualExclusion, Grants
  <1> QED
    BY <1>1, LockInvariant, PTL

\* A completed lock directory always has a holder, live or dead.
THEOREM LockNotLeaked == Spec => []NoLeakedLock
  <1>1. LockInv => NoLeakedLock
    BY DEF LockInv
  <1> QED
    BY <1>1, LockInvariant, PTL

\* DeployLock.release removes the client's own lock until the first robbery, so
\* release is never the first to remove another client's lock.
THEOREM OwnRelease == Spec => ReleaseRemovesOwnLock
  <1>1. LockInv => \A c \in Clients :
                     Release(c) /\ ~robbed => lockDir.owner = c
    BY DEF LockInv, OwnersHold, Release, Grants
  <1>2. LockInv /\ [Next]_vars =>
          [\A c \in Clients : Release(c) /\ ~robbed => lockDir.owner = c]_vars
    BY <1>1
  <1> QED
    BY <1>2, LockInvariant, PTL DEF Spec, ReleaseRemovesOwnLock
=============================================================================
